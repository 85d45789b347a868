------------------------------ MODULE MCFront -------------------------------
EXTENDS Front, TLC

Word(text, dotted, sha, capitals) ==
  [text |-> text, dotted |-> dotted, sha |-> sha, capitals |-> capitals]
Plainly(text) == Word(text, FALSE, FALSE, FALSE)
Hub == Word("docker.io", TRUE, FALSE, FALSE)
Quay == Word("quay.io", TRUE, FALSE, FALSE)
EcrShouted == Word("ecr.aws", TRUE, FALSE, TRUE)
Ecr == Word("ecr.aws", TRUE, FALSE, FALSE)
Private == Word("my.io", TRUE, FALSE, FALSE)
Local == Plainly("localhost")
Sha(text) == Word(text, FALSE, TRUE, FALSE)

MCDockerIo == Hub
MCLibrary == Plainly("library")
MCLatestTag == Plainly("latest")
MCDefaultNs == Hub
Alpine == Plainly("alpine")
Tool == Plainly("tool")
App == Plainly("app")
One == Plainly("1")
Dev == Plainly("dev")
MCDigestOf == [t \in {"1", "latest", "dev", "hello"} |->
                 Sha(CASE t = "1" -> "d1" [] t = "latest" -> "d2" [] t = "dev" -> "d3"
                       [] OTHER -> "d4")]
Get(hdr, ns, ref, segments) ==
  [verb |-> "GET", hdr |-> hdr, ns |-> ns, ref |-> ref, segments |-> segments]
\* Alpine by its three names; an image of the registry with a provider and a tag
\* latest, by tag and by digest, and with another tag under the registry in capitals;
\* an image whose registry has no period; and requests that are refused.
MCRequests ==
  {Get({}, {}, One, <<Hub, MCLibrary, Alpine>>),
   Get({}, {}, One, <<Alpine>>),
   [Get({}, {Hub}, Sha("d1"), <<Alpine>>) EXCEPT !.verb = "HEAD"],
   Get({}, {Ecr}, MCLatestTag, <<App>>),
   Get({}, {}, Sha("d2"), <<Ecr, App>>),
   Get({EcrShouted}, {}, Dev, <<App>>),
   Get({}, {Local}, Dev, <<App>>),
   Get({}, {}, One, <<Quay>>),
   Get({Hub}, {}, One, <<Quay, Tool>>),
   Get({}, {}, One, <<Hub, App, App, App, Alpine>>),
   [Get({}, {}, One, <<Hub, Alpine>>) EXCEPT !.verb = "PUT"]}
MCHelloWorld == Named(Hub, <<MCLibrary, Plainly("hello-world")>>, Plainly("hello"))
MCPreloadList == <<Named(Hub, <<MCLibrary, Alpine>>, One)>>

Registry(name, provider, static, fileOpts, certs) ==
  [name |-> name, provider |-> provider, static |-> static, fileOpts |-> fileOpts,
   certs |-> certs]
MCRegistries ==
  <<Registry(Hub, "", FALSE, FALSE, TRUE), Registry(Ecr, "ecr", FALSE, FALSE, FALSE),
    Registry(Private, "ecr", TRUE, TRUE, FALSE)>>
MCNoProvider == ""
MCProviders == {"ecr"}

\* The options that decide what the server does, and one with a default.
Switches == {"airGapped", "alwaysPullLatest", "defaultNs", "helloWorld", "preloadImages"}
FlagsGiven(options, most) ==
  UNION {[s -> {"zero", "flag"}] : s \in {t \in SUBSET options : Cardinality(t) <= most}}
WithFile(flags) ==
  [o \in DOMAIN flags \cup {"configFile"} |-> IF o = "configFile" THEN "flag" ELSE flags[o]]
Lines(cmd, flagSets, structs) ==
  {[command |-> cmd, flags |-> f, struct |-> s] :
     f \in flagSets \cup {WithFile(g) : g \in flagSets}, s \in structs}
MCCommandLines ==
  Lines("serve", FlagsGiven({"airGapped"}, 1)
                 \cup UNION {[{o} -> {"flag"}] : o \in Switches}, {{}})
  \cup Lines("load", [{"os"} -> {"zero", "flag"}] \cup [{"imageFile"} -> {"flag"}], {{}})
  \cup Lines("list", FlagsGiven({}, 0), SUBSET {"header", "pattern"})
  \cup Lines("prune", FlagsGiven({"imagePath"}, 0), {{}, {"pattern"}, {"date", "dryRun"}})
  \cup Lines("version", FlagsGiven({}, 0), {{}})

ConfigFile(on, prune, list) ==
  [options |-> [o \in Options |-> IF o \in on THEN "file" ELSE "zero"],
   prune |-> prune, list |-> list]
Schedule == [NoPrune EXCEPT !.type = "file", !.schedule = "file"]
MCConfigFiles ==
  {ConfigFile({"airGapped", "imageFile"}, NoPrune, NoList),
   ConfigFile({"preloadImages", "defaultNs"}, Schedule, [NoList EXCEPT !.header = TRUE]),
   ConfigFile({"helloWorld", "preloadImages", "logLevel"}, Schedule, NoList)}
=============================================================================
