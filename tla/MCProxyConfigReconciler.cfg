CONSTANTS
    Resources <- ThreeResources
    Service = "service"
    Deployment = "deployment"
    Fixed = {"role"}
    Certs = {"proxy-server", "agent-server"}
    LoadBalanced = {1}
    MaxGeneration = 2
    MaxRelease = 2
    MaxFaults = 2
SPECIFICATION Spec
INVARIANTS
    EnsuredIsRendered
PROPERTIES
    Converges
    
