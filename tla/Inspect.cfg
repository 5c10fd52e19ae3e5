SPECIFICATION Spec
CONSTANTS
  Certs <- MCCerts
  Fact <- MCFact
  Backends <- MCBackends
  Sends <- MCSends
  Bundles <- MCBundles
  VerifiedPath <- MCVerifiedPath
  NoCert = NoCert
  OptionSets <- MCOptions
INVARIANTS
  TypeOK
  TrustIsOfTheInspectedCert
  WarningsAreOfItsChain
  CodeIsWorstShown
  OkIsEarned
  RequiredRevocationIsProven
  OutputsExplainTheCode
  AlarmsMatchTheCode
