------------------------------- MODULE Front --------------------------------
(***************************************************************************)
(* The program as one: from the command line (Settings) to the preload,    *)
(* the providers of tokens (Upstream) and the load of the cache, then      *)
(* requests under all the names an image may be asked for (PullRequests)   *)
(* and prunes, over any number of restarts with other settings.            *)
(*                                                                         *)
(* This module is about names and settings, and one request is answered at *)
(* a time: what requests do to each other is the subject of Registry, and  *)
(* so are blobs and torn files.  A tag stands for the same image throughout*)
(* and images are no lists.  All commands use the one image path.          *)
(***************************************************************************)
EXTENDS PullRequests, Settings, Upstream

CONSTANTS
  Requests,      \* what clients ask for: verb, header, ns, reference, segments
  PreloadList,   \* the URLs in the file of preloadImages, and of imageFile
  DefaultNs,     \* the word that defaultNs is set to
  HelloWorld     \* the URL of the image in hello-world mode

\* What may be in a manifest file.
ImageUrls == {u \in UrlType : u.repo # <<>> /\ ~u.ref.capitals}

ASSUME FrontAssumption ==
  /\ \A r \in Requests :
       /\ r.hdr \subseteq WordType /\ r.ns \subseteq WordType
       /\ r.ref \in Refs /\ r.segments \in Seq(WordType)
  /\ PreloadList \in Seq(UrlType)
  /\ DefaultNs \in WordType /\ HelloWorld \in ImageUrls

VARIABLES
  nextLine,  \* the line of PreloadList that is loaded next
  cache,     \* mc: the entries of its two maps
  files,     \* the image URLs in the manifest files, and in those of hello-world
  answered,  \* history: requests that were answered, and their image not pruned since
  takenOver, \* history: of those, the ones whose file went to another of its names
  denied     \* history: a request found the provider of its registry not initialized

frontVars == <<nextLine, cache, files, answered, takenOver, denied>>
history == <<answered, takenOver>>
vars == <<settingsVars, upstreamVars, frontVars>>

Digest(ref) == IF ref.sha THEN ref ELSE DigestOf[ref.text]
SameFile(u, v) == IsLatest(u) = IsLatest(v) /\ Digest(u.ref) = Digest(v.ref)

\* The directory in use.
Place == IF IsOn("helloWorld") THEN "temporary" ELSE "lasting"
Written(u) == [files EXCEPT ![Place] = {v \in @ : ~SameFile(u, v)} \cup {u}]
Removed(u) == [files EXCEPT ![Place] = {v \in @ : ~SameFile(u, v)}]

\* addManifestToCache: an entry by the URL, and for a tag another by digest.
KeysOf(pr) ==
  {Url(pr)} \cup (IF pr.byDigest THEN {} ELSE {UrlWithDigest(pr, Digest(pr.ref))})
Entries(pr, image) ==
  [latest : {IsLatest(pr)}, key : KeysOf(pr), image : {image}]
Put(entries, new) ==
  {e \in entries : \A n \in new : e.latest # n.latest \/ e.key # n.key} \cup new

\* A slip: an entry is looked for by its name, without the reference.
FromCacheByName(url) == {e \in cache : e.key.remote = url.remote /\ e.key.repo = url.repo}
\* fromCache: manifests, then latest.
FromCache(url) ==
  LET hits == {e \in cache : e.key = url} IN
  IF \E e \in hits : ~e.latest THEN {e \in hits : ~e.latest} ELSE hits
\* getManifestFromCache, without what it writes
Found(pr) ==
  IF FromCache(Url(pr)) # {} THEN FromCache(Url(pr))
  ELSE UNION {FromCache(url) : url \in AltDockerUrl(pr)}

FrontInit ==
  /\ SettingsInit /\ NoTokens
  /\ nextLine = 1 /\ cache = {} /\ denied = FALSE
  /\ answered = {} /\ takenOver = {}
  /\ files = [place \in {"lasting", "temporary"} |-> {}]

\* The process ends: what it kept in memory and the directory of hello-world go.
ProcessEnds ==
  /\ program' = "down" /\ command' = "" /\ config' = NoConfig /\ given' = NothingGiven
  /\ TokensAreGone
  /\ nextLine' = 1 /\ cache' = {} /\ files' = [files EXCEPT !["temporary"] = {}]

ProgramGoes(from, to) ==
  program = from /\ program' = to /\ UNCHANGED <<command, config, given>>

-----------------------------------------------------------------------------
Starts ==
  /\ \/ \E line \in CommandLines : ConfiguresFromFlags(line)
     \/ \E line \in CommandLines, f \in ConfigFiles : ConfiguresFromFile(line, f)
  /\ UNCHANGED <<upstreamVars, frontVars>>

EndsBeforeItBegan == EndsAtOnce /\ UNCHANGED <<upstreamVars, frontVars>>

PreparesImagePath ==
  /\ GetsReady
  /\ files' = IF IsOn("helloWorld") THEN [files EXCEPT !["temporary"] = {HelloWorld}] ELSE files
  /\ UNCHANGED <<upstreamVars, nextLine, cache, history, denied>>

\* list and prune, which work on the files without a server, are in Offline.
RunsOffline ==
  /\ program = "ready" /\ command \in {"list", "prune"}
  /\ ProcessEnds /\ UNCHANGED <<history, denied>>

PreloadOption == IF command = "load" THEN "imageFile" ELSE "preloadImages"

\* Serve with preloadImages, or the command load
BeginsPreload ==
  /\ command \in {"serve", "load"} /\ IsOn(PreloadOption)
  /\ ProgramGoes("ready", "preloading")
  /\ UNCHANGED <<upstreamVars, frontVars>>
SkipsPreload ==
  /\ command = "serve" /\ ~IsOn(PreloadOption)
  /\ ProgramGoes("ready", "authorizing")
  /\ UNCHANGED <<upstreamVars, frontVars>>

\* doPull of preload: ConfigFor, then the file is written unless it is there.
PreloadsLine ==
  /\ program = "preloading" /\ nextLine \in DOMAIN PreloadList
  /\ \E pr \in FromUrl(PreloadList[nextLine]) :
       /\ ConfigFor(pr.remote) \cap Opened # {}
       /\ files' = IF \E u \in files[Place] : SameFile(u, Url(pr)) THEN files ELSE Written(Url(pr))
  /\ nextLine' = nextLine + 1
  /\ UNCHANGED <<settingsVars, upstreamVars, cache, history, denied>>

\* The line or the list cannot be read, the registry has no token (no provider is
\* initialized yet) or no certificate, or the upstream fails.
PreloadFails ==
  /\ program = "preloading"
  /\ ProcessEnds /\ UNCHANGED <<history, denied>>

EndsPreload ==
  /\ program = "preloading" /\ nextLine = Len(PreloadList) + 1
  /\ \/ /\ command = "serve" /\ ProgramGoes("preloading", "authorizing")
        /\ UNCHANGED <<upstreamVars, frontVars>>
     \/ /\ command = "load" /\ ProcessEnds /\ UNCHANGED <<history, denied>>

-----------------------------------------------------------------------------
\* A slip: Serve goes on when Init fails.
AuthorizesAnyway ==
  /\ program = "authorizing"
  /\ \/ SkipsEntry
     \/ InitializesProvider
     \/ CannotAuthorize /\ nextEntry' = nextEntry + 1 /\ UNCHANGED tokens
  /\ UNCHANGED <<settingsVars, frontVars>>
Authorizes ==
  /\ program = "authorizing" /\ (SkipsEntry \/ InitializesProvider)
  /\ UNCHANGED <<settingsVars, frontVars>>
EndsAuthorizing ==
  /\ ~AtEntry /\ ProgramGoes("authorizing", "loading")
  /\ UNCHANGED <<upstreamVars, frontVars>>
FailsToAuthorize ==
  /\ program = "authorizing" /\ CannotAuthorize
  /\ ProcessEnds /\ UNCHANGED <<history, denied>>

\* cache.Load: the key of each entry is made from the URL in the file.
Loadable == \A u \in files[Place] : FromUrl(u) # {}
\* A slip: an image is entered by the URL in its file, and not by digest as well.
LoadsByUrl ==
  /\ Loadable /\ ProgramGoes("loading", "serving")
  /\ cache' = UNION {UNION {[latest : {IsLatest(pr)}, key : {Url(pr)}, image : {u}] :
                pr \in FromUrl(u)} : u \in files[Place]}
  /\ UNCHANGED <<upstreamVars, nextLine, files, history, denied>>
Loads ==
  /\ Loadable /\ ProgramGoes("loading", "serving")
  /\ cache' = UNION {UNION {Entries(pr, u) : pr \in FromUrl(u)} : u \in files[Place]}
  /\ UNCHANGED <<upstreamVars, nextLine, files, history, denied>>
\* A file whose URL has a remote without a period
FailsToLoad ==
  /\ program = "loading" /\ ~Loadable
  /\ ProcessEnds /\ UNCHANGED <<history, denied>>

-----------------------------------------------------------------------------
\* What a request on /v2/ asks for; NewOciRegistry holds the settings.
Asked(r) ==
  NewPullRequest(r.hdr, r.ns, IF IsOn("defaultNs") THEN {DefaultNs} ELSE {}, r.ref, r.segments)
Refused(pr) == IsOn("airGapped") /\ FromCache(Url(pr)) = {}
Forced(pr) == IsOn("alwaysPullLatest") /\ pr.ref = LatestTag
Handles(r) == program = "serving" /\ RouteOf(r.verb, "manifests", r.segments) = "manifests"

\* A file that holds u is found under pr after it has been loaded.
Names(u, pr) ==
  \E p \in FromUrl(u) : KeysOf(p) \cap ({Url(pr)} \cup AltDockerUrl(pr)) # {}
\* The image is owed to a request that spelled a registry without capitals and with
\* a period.
Plain(pr) ==
  pr.remote.dotted /\ ~pr.remote.capitals /\ \A i \in DOMAIN pr.repo : ~pr.repo[i].capitals
\* The requests whose image has one file, which is now written as u: a URL that a
\* load does not make their keys of.
LosesFile(u) ==
  {p \in answered :
     LET own == {v \in files["lasting"] : Names(v, p)} IN
     own # {} /\ ~Names(u, p) /\ \A v \in own : SameFile(u, v)}
Remembers(u, pr) ==
  IF Place = "temporary" THEN UNCHANGED history
  ELSE LET new == IF Plain(pr) THEN {pr} ELSE {} IN
       /\ answered' = answered \cup new
       /\ takenOver' = (takenOver \cup LosesFile(u)) \ new

\* handleV2ManifestsReference answers from the cache: the entry found is put back,
\* in the map that the request belongs to, and its file is written anew.
ServesFromCache(r) ==
  /\ Handles(r)
  /\ \E pr \in Asked(r) : \E e \in Found(pr) :
       /\ ~Refused(pr) /\ ~Forced(pr)
       /\ cache' = Put(cache, {[latest |-> IsLatest(pr), key |-> e.key, image |-> e.image]})
       /\ files' = Written(e.image)
       /\ Remembers(e.image, pr)
  /\ UNCHANGED <<settingsVars, upstreamVars, nextLine, denied>>

\* A slip: a forced pull does not ask whether the server is air-gapped.
NeedsPullForced(pr) == Forced(pr) \/ (~Refused(pr) /\ Found(pr) = {})
NeedsPull(pr) == ~Refused(pr) /\ (Forced(pr) \/ Found(pr) = {})

Pulled(pr) == Put(cache, Entries(pr, Url(pr)))
\* ... from the upstream.  A forced pull of what is there already changes no entry
\* (replaceInCache), but the file.
PullsAndServes(r) ==
  /\ Handles(r)
  /\ \E pr \in Asked(r) :
       /\ NeedsPull(pr) /\ ConfigFor(pr.remote) \cap Opened # {}
       /\ cache' = IF Forced(pr) /\ FromCache(Url(pr)) # {} THEN cache ELSE Pulled(pr)
       /\ files' = Written(Url(pr))
       /\ Remembers(Url(pr), pr)
  /\ UNCHANGED <<settingsVars, upstreamVars, nextLine, denied>>

\* Error 500, when there is no token or no certificate, the upstream does not accept
\* the token, or it fails.
\* Requests that are answered 400, 404 or 405 change nothing, and are no step.
FailsToPull(r) ==
  /\ Handles(r)
  /\ \E pr \in Asked(r) :
       /\ NeedsPull(pr)
       /\ denied' = (denied \/ "noToken" \in ConfigFor(pr.remote))
  /\ UNCHANGED <<settingsVars, upstreamVars, nextLine, cache, files, history>>

\* prune of an image that GetManifestsCompare selected: by a key that is its URL.
\* If the URL cannot be parsed rmManifest does nothing.
Prunes ==
  /\ program = "serving"
  /\ \E e \in cache :
       /\ e.key = e.image
       /\ \E pr \in FromUrl(e.image) :
            cache' = {x \in cache : x.latest # IsLatest(pr) \/ x.key \notin KeysOf(pr)}
       /\ files' = Removed(e.image)
       /\ IF Place = "temporary" THEN UNCHANGED history
          ELSE LET Pruned(p) == Digest(p.ref) = Digest(e.image.ref) IN
               /\ answered' = {p \in answered : ~Pruned(p)}
               /\ takenOver' = {p \in takenOver : ~Pruned(p)}
  /\ UNCHANGED <<settingsVars, upstreamVars, nextLine, denied>>

RefreshesTokens ==
  /\ \E p \in Providers : Refreshes(p) \/ RefreshFails(p)
  /\ UNCHANGED <<settingsVars, frontVars>>

\* The server is stopped, or the process dies.
Dies == program # "down" /\ ProcessEnds /\ UNCHANGED <<history, denied>>

FrontNext ==
  \/ Starts \/ EndsBeforeItBegan \/ PreparesImagePath \/ RunsOffline
  \/ BeginsPreload \/ SkipsPreload \/ PreloadsLine \/ PreloadFails \/ EndsPreload
  \/ Authorizes \/ EndsAuthorizing \/ FailsToAuthorize
  \/ Loads \/ FailsToLoad
  \/ \E r \in Requests : ServesFromCache(r) \/ PullsAndServes(r) \/ FailsToPull(r)
  \/ Prunes \/ RefreshesTokens \/ Dies

FrontSpec == FrontInit /\ [][FrontNext]_vars
-----------------------------------------------------------------------------
\* An image that was answered, and was not pruned since, is in the cache whenever
\* the server runs, after any restart and whichever of its names brought it there:
\* the file's URL (serialize), the two keys (addManifestToCache, Load), the two
\* spellings of Docker Hub (AltDockerUrl) and lower case (NewPullRequestFromUrl)
\* fit together.  One way only there is to forget a name: the file of the image is
\* written anew under another (serialize names it by the digest), which a load reads.
AnsweredStaysCached ==
  program = "serving" /\ Place = "lasting" =>
    \A pr \in answered : Found(pr) # {} \/ pr \in takenOver

\* While the server runs, a pull never finds the provider of its registry not
\* initialized: Serve initializes them all, or does not start.
ServingPullsHaveToken == ~denied

\* What a request is answered with from the cache is the image it names: it goes by
\* the name, in one of the two spellings of Docker Hub and in lower case or not, and
\* has the digest that was asked for or that the tag stands for (getManifestFromCache).
Sought(pr) == {Url(pr)} \cup AltDockerUrl(pr)
IsImageOf(image, pr) ==
  /\ Digest(image.ref) = Digest(pr.ref)
  /\ \E k \in Sought(pr) :
       Lower(image.remote) = Lower(k.remote) /\ LowerAll(image.repo) = LowerAll(k.repo)
FoundIsWhatWasAsked ==
  \A r \in Requests : \A pr \in Asked(r) : \A e \in Found(pr) : IsImageOf(e.image, pr)

\* An air-gapped server comes to answer for no name that it was not started with,
\* under either spelling: IsCached asks for one key and getManifestFromCache for two.
\* With alwaysPullLatest it still pulls a cached latest, which may have a new digest.
AirGappedAddsNoName ==
  [][program = "serving" /\ program' = "serving" /\ IsOn("airGapped") =>
       \A e \in cache' : \/ \E o \in cache : o.key = e.key
                        \/ (IsOn("alwaysPullLatest") /\ e.key.ref.sha)]_vars
=============================================================================
