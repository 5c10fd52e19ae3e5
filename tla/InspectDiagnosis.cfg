SPECIFICATION Spec
CONSTANTS
  Certs <- MCCerts
  Fact <- MCFact
  Backends <- MCBackends
  Sends <- MCSends
  Bundles <- MCBundles
  VerifiedPath <- MCVerifiedPath
  NoCert = NoCert
  OptionSets <- PlainOptions
INVARIANT DiagnosisIsOfTheChain
