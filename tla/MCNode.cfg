SPECIFICATION Spec
CONSTANTS
  Hosts <- MCHosts
  Names <- MCNames
  HostsOf <- MCHostsOf
  Configs <- MCConfigs
  ParentCid <- MCParentCid
  Proxies <- MCProxies
  ImdsPort <- MCImdsPort
  PortLimit <- MCPortLimit
  MaxDown = 1
INVARIANTS OrphanOnlyByFault AnsweredByNamedService RoutedToItsService TasksTick
PROPERTIES EnclaveComesBack TermEndsContainer OnlyPeersHoldCalls
