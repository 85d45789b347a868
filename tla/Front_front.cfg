SPECIFICATION FrontSpec
CONSTANTS
  DockerIo <- MCDockerIo
  Library <- MCLibrary
  LatestTag <- MCLatestTag
  DigestOf <- MCDigestOf
  Requests <- MCRequests
  PreloadList <- MCPreloadList
  DefaultNs <- MCDefaultNs
  HelloWorld <- MCHelloWorld
  Registries <- MCRegistries
  Providers <- MCProviders
  NoProvider <- MCNoProvider
  CommandLines <- MCCommandLines
  ConfigFiles <- MCConfigFiles
  Forgotten = Forgotten
INVARIANTS
  FoundIsWhatWasAsked
  PrecedenceHolds
  AnsweredStaysCached
  ServingPullsHaveToken
PROPERTIES
  AirGappedAddsNoName
