----------------------- MODULE MCProxyConfigReconciler -----------------------
EXTENDS ProxyConfigReconciler

\* Three of the six resources: one that never renders differently, the Service,
\* which is updated as a copy, and the Deployment, which the status reports.
ThreeResources == <<"role", "service", "deployment">>
==============================================================================
