---------------------------- MODULE Front_proofs -----------------------------
(***************************************************************************)
(* What module Front promises holds for all command lines, files,          *)
(* registries, requests and preload lists: settings take precedence as     *)
(* documented, a server that runs has its tokens, and what was answered    *)
(* stays in the cache over restarts unless its file is given away.         *)
(***************************************************************************)
EXTENDS Front, TLAPS, SequenceTheorems

-----------------------------------------------------------------------------
(* Names.                                                                  *)

\* A pull request, as NewPullRequest and NewPullRequestFromUrl make them.
PullRequestType ==
  {p \in [remote : WordType, repo : Seq(WordType), ref : Refs, byDigest : BOOLEAN] :
     /\ p.repo # <<>> /\ ~p.ref.capitals
     /\ p.byDigest => p.ref.sha}

\* The pull request with these words as they are spelled.
Spelled(u) == Request(u.remote, u.repo, u.ref)

\* A word without capitals is in lower case.
LEMMA LowerFixed == \A w \in WordType : ~w.capitals => Lower(w) = w
BY DEF Lower, WordType

\* Lower case has the type and the text of the word, and no capitals.
LEMMA LowerIsWord ==
  \A w \in WordType : Lower(w) \in WordType /\ ~Lower(w).capitals /\ Lower(w).sha = w.sha
                      /\ Lower(w).text = w.text /\ Lower(w).dotted = w.dotted
BY DEF Lower, WordType

\* A sequence of words without capitals is in lower case.
LEMMA LowerAllFixed ==
  ASSUME NEW s \in Seq(WordType), \A i \in DOMAIN s : ~s[i].capitals
  PROVE LowerAll(s) = s
<1>1. \A i \in DOMAIN s : s[i] \in WordType
  OBVIOUS
<1>2. \A i \in DOMAIN s : Lower(s[i]) = s[i]
  BY <1>1, LowerFixed
<1>3. s = [i \in DOMAIN s |-> s[i]]
  OBVIOUS
<1> QED BY <1>2, <1>3 DEF LowerAll

\* Sequences of words stay sequences of words of the same length in lower case.
LEMMA LowerAllIsSeq ==
  ASSUME NEW s \in Seq(WordType)
  PROVE LowerAll(s) \in Seq(WordType) /\ (s # <<>> => LowerAll(s) # <<>>)
<1>1. \A i \in 1..Len(s) : Lower(s[i]) \in WordType
  BY LowerIsWord
<1>2. LowerAll(s) = [i \in 1..Len(s) |-> Lower(s[i])]
  BY DEF LowerAll
<1>3. LowerAll(s) \in Seq(WordType) /\ Len(LowerAll(s)) = Len(s)
  BY <1>1, <1>2
<1>4. s # <<>> => Len(s) # 0
  OBVIOUS
<1>5. LowerAll(s) # <<>> \/ Len(LowerAll(s)) = 0
  OBVIOUS
<1> QED BY <1>3, <1>4, <1>5

\* The digest of a reference is one, and its own digest.
LEMMA DigestIsRef ==
  ASSUME NEW w \in Refs
  PROVE /\ Digest(w) \in Refs /\ Digest(w).sha
        /\ ~w.capitals => ~Digest(w).capitals
        /\ Digest(Digest(w)) = Digest(w)
        /\ Digest(Lower(w)) = IF w.sha THEN Lower(w) ELSE Digest(w)
<1>1. CASE w.sha
  BY <1>1, LowerIsWord DEF Digest, Refs
<1>2. CASE ~w.sha
  <2>1. w.text \in DOMAIN DigestOf /\ w \in WordType
    BY <1>2 DEF Refs
  <2>2. DigestOf[w.text] \in WordType /\ DigestOf[w.text].sha /\ ~DigestOf[w.text].capitals
    BY <2>1, WordsAssumption
  <2>3. Lower(w).text = w.text /\ ~Lower(w).sha
    BY <1>2, <2>1, LowerIsWord
  <2> QED BY <1>2, <2>1, <2>2, <2>3 DEF Digest, Refs
<1> QED BY <1>1, <1>2

\* A request made of well-typed words is a pull request.
LEMMA RequestTyped ==
  ASSUME NEW r \in WordType, NEW s \in Seq(WordType), s # <<>>, NEW w \in Refs
  PROVE Request(r, s, w) \in PullRequestType
<1>1. w \in WordType /\ Lower(w) \in WordType /\ ~Lower(w).capitals
  BY LowerIsWord DEF Refs
<1>2. Lower(w) \in Refs
  BY <1>1, LowerIsWord DEF Refs
<1>3. ByDigest(w) \in BOOLEAN /\ (ByDigest(w) => Lower(w).sha)
  BY <1>1, LowerIsWord DEF ByDigest, Refs
<1> QED BY <1>1, <1>2, <1>3 DEF Request, PullRequestType

\* NewPullRequestFromUrl makes pull requests.
LEMMA FromUrlTyped ==
  ASSUME NEW u \in UrlType, NEW p \in FromUrl(u)
  PROVE p \in PullRequestType
<1>1. u.remote.dotted /\ u.repo # <<>> /\ p = Request(Lower(u.remote), LowerAll(u.repo), u.ref)
  BY DEF FromUrl
<1>2. Lower(u.remote) \in WordType
  BY LowerIsWord DEF UrlType
<1>3. LowerAll(u.repo) \in Seq(WordType) /\ LowerAll(u.repo) # <<>>
  BY <1>1, LowerAllIsSeq DEF UrlType
<1> QED BY <1>1, <1>2, <1>3, RequestTyped DEF UrlType

\* NewPullRequest makes pull requests of what clients may send.
LEMMA AskedTyped ==
  ASSUME NEW r \in Requests, Handles(r), NEW p \in Asked(r)
  PROVE p \in PullRequestType
<1> DEFINE ns == IF IsOn("defaultNs") THEN {DefaultNs} ELSE {}
           repo == Repository(r.hdr, r.ns, r.segments)
<1>1. /\ r.hdr \subseteq WordType /\ r.ns \subseteq WordType
      /\ r.ref \in Refs /\ r.segments \in Seq(WordType)
  BY FrontAssumption
<1>2. Len(r.segments) \in 1..4
  BY DEF Handles, RouteOf
<1>3. PICK m \in Remotes(r.hdr, r.ns, ns, r.segments) :
        /\ repo # <<>> /\ p = Request(m, repo, r.ref)
  BY DEF Asked, NewPullRequest
<1>4. ns \subseteq WordType
  BY FrontAssumption
<1>5. r.segments[1] \in WordType
  BY <1>1, <1>2
<1>6. m \in WordType
  BY <1>1, <1>3, <1>4, <1>5 DEF Remotes
<1>7. Tail(r.segments) \in Seq(WordType)
  <2>1. r.segments # <<>>
    <3>1. Len(<<>>) = 0
      OBVIOUS
    <3> QED BY <1>2, <3>1
  <2> QED BY <1>1, <2>1, HeadTailProperties
<1>8. repo \in Seq(WordType)
  BY <1>1, <1>7 DEF Repository
<1> QED BY <1>1, <1>3, <1>6, <1>8, RequestTyped

\* The URL of a pull request may be in a manifest file.
LEMMA UrlTyped ==
  ASSUME NEW p \in PullRequestType
  PROVE Url(p) \in ImageUrls
BY DEF PullRequestType, Url, Named, ImageUrls, UrlType

\* The keys of an image have its digest.
LEMMA KeyDigest ==
  ASSUME NEW u \in ImageUrls, NEW q \in FromUrl(u), NEW k \in KeysOf(q)
  PROVE Digest(k.ref) = Digest(u.ref)
<1>1. u \in UrlType /\ u.ref \in Refs /\ ~u.ref.capitals
  BY DEF ImageUrls, UrlType
<1>2. Lower(u.ref) = u.ref
  BY <1>1, LowerFixed DEF Refs
<1>3. q.ref = u.ref
  BY <1>2 DEF FromUrl, Request
<1>4. k.ref = q.ref \/ k.ref = Digest(q.ref)
  BY DEF KeysOf, Url, UrlWithDigest, Named
<1> QED BY <1>1, <1>3, <1>4, DigestIsRef

\* Whatever the spelling, an image is sought by the reference that was asked for.
LEMMA SoughtRef ==
  ASSUME NEW p, NEW k \in Sought(p)
  PROVE k.ref = p.ref
BY DEF Sought, Url, AltDockerUrl, Named

\* A file found under a pull request has its digest.
LEMMA NamesDigest ==
  ASSUME NEW u \in ImageUrls, NEW p, Names(u, p)
  PROVE Digest(p.ref) = Digest(u.ref)
<1>1. PICK q \in FromUrl(u) : KeysOf(q) \cap Sought(p) # {}
  BY DEF Names, Sought
<1>2. PICK k \in KeysOf(q) : k \in Sought(p)
  BY <1>1
<1> QED BY <1>2, KeyDigest, SoughtRef

\* A URL spelled as the pull request makes the same keys.
LEMMA KeysOfSpelled ==
  ASSUME NEW p \in PullRequestType
  PROVE KeysOf(p) = KeysOf(Spelled(Url(p)))
<1> DEFINE s == Spelled(Url(p))
<1>1. p.ref \in Refs /\ p.ref \in WordType /\ ~p.ref.capitals /\ (p.byDigest => p.ref.sha)
  BY DEF PullRequestType, Refs
<1>2. Lower(p.ref) = p.ref
  BY <1>1, LowerFixed
<1>3. s.remote = p.remote /\ s.repo = p.repo /\ s.ref = p.ref
  BY <1>2 DEF Spelled, Request, Url, Named
<1>4. s.byDigest <=> p.ref.sha
  BY <1>1 DEF Spelled, Request, Url, Named, ByDigest
<1>5. Url(s) = Url(p) /\ \A d : UrlWithDigest(s, d) = UrlWithDigest(p, d)
  BY <1>3 DEF Url, UrlWithDigest
<1>6. p.ref.sha => UrlWithDigest(p, Digest(p.ref)) = Url(p)
  BY DEF UrlWithDigest, Url, Digest
<1> HIDE DEF s
<1>7. KeysOf(s) = {Url(p)} \cup (IF p.ref.sha THEN {} ELSE {UrlWithDigest(p, Digest(p.ref))})
  BY <1>3, <1>4, <1>5 DEF KeysOf
<1>8. KeysOf(p) = {Url(p)} \cup (IF p.byDigest THEN {} ELSE {UrlWithDigest(p, Digest(p.ref))})
  BY DEF KeysOf
<1>9. KeysOf(p) = KeysOf(s)
  BY <1>1, <1>6, <1>7, <1>8
<1> QED BY <1>9 DEF s

\* The keys of an image have its remote and its repository.
LEMMA KeyName ==
  ASSUME NEW q, NEW k \in KeysOf(q)
  PROVE k.remote = q.remote /\ k.repo = q.repo
BY DEF KeysOf, Url, UrlWithDigest, Named

\* What a plain request looks for has a remote and a repository without capitals.
LEMMA SoughtIsPlain ==
  ASSUME NEW p \in PullRequestType, Plain(p), NEW k \in Sought(p)
  PROVE /\ k.remote = p.remote
        /\ k.repo \in Seq(WordType) /\ \A i \in DOMAIN k.repo : ~k.repo[i].capitals
<1>1. p.repo \in Seq(WordType) /\ \A i \in DOMAIN p.repo : ~p.repo[i].capitals
  BY DEF PullRequestType, Plain
<1>2. Library \in WordType /\ ~Library.capitals
  BY WordsAssumption
<1>3. CASE k = Url(p)
  BY <1>1, <1>3 DEF Url, Named
<1>4. CASE k = Named(p.remote, Tail(p.repo), p.ref) /\ Len(p.repo) > 1
  <2>1. p.repo # <<>>
    BY DEF PullRequestType
  <2>2. /\ Tail(p.repo) \in Seq(WordType) /\ Len(Tail(p.repo)) = Len(p.repo) - 1
        /\ \A i \in 1..Len(Tail(p.repo)) : Tail(p.repo)[i] = p.repo[i + 1]
    BY <1>1, <2>1, HeadTailProperties
  <2>3. \A i \in 1..Len(Tail(p.repo)) : i + 1 \in 1..Len(p.repo)
    BY <1>1, <2>2
  <2>4. DOMAIN Tail(p.repo) = 1..Len(Tail(p.repo)) /\ DOMAIN p.repo = 1..Len(p.repo)
    BY <1>1, <2>2
  <2>5. \A i \in DOMAIN Tail(p.repo) : ~Tail(p.repo)[i].capitals
    BY <1>1, <2>2, <2>3, <2>4
  <2> QED BY <1>4, <2>2, <2>5 DEF Named
<1>5. CASE k = Named(p.remote, <<Library>> \o p.repo, p.ref)
  <2> DEFINE l == <<Library>>
             s == l \o p.repo
  <2>1. l \in Seq(WordType) /\ Len(l) = 1 /\ l[1] = Library
    BY <1>2
  <2> HIDE DEF l
  <2>2. s \in Seq(WordType) /\ DOMAIN s = 1..(1 + Len(p.repo))
    BY <1>1, <2>1, ConcatProperties
  <2>3. \A i \in DOMAIN s : s[i] = IF i = 1 THEN Library ELSE p.repo[i - 1]
    BY <1>1, <2>1, <2>2, ConcatProperties
  <2>4. \A i \in DOMAIN s : i # 1 => i - 1 \in DOMAIN p.repo
    BY <1>1, <2>2
  <2>5. \A i \in DOMAIN s : ~s[i].capitals
    BY <1>1, <1>2, <2>3, <2>4
  <2> QED BY <1>5, <2>2, <2>5 DEF Named, l
<1> QED BY <1>3, <1>4, <1>5 DEF Sought, AltDockerUrl, Named

\* An image with a key that a plain request looks for is found by it after a load.
LEMMA PlainNames ==
  ASSUME NEW u \in ImageUrls, NEW p \in PullRequestType, Plain(p),
         NEW q \in {Spelled(u)} \cup FromUrl(u), NEW k \in KeysOf(q), k \in Sought(p)
  PROVE Names(u, p)
<1>1. CASE q \in FromUrl(u)
  BY <1>1 DEF Names, Sought
<1>2. CASE q = Spelled(u)
  <2>1. u.remote \in WordType /\ u.repo \in Seq(WordType) /\ u.repo # <<>>
    BY DEF ImageUrls, UrlType
  <2>2. k.remote = u.remote /\ k.repo = u.repo
    BY <1>2, KeyName DEF Spelled, Request
  <2>3. u.remote.dotted /\ ~u.remote.capitals
    BY <2>2, SoughtIsPlain DEF Plain
  <2>4. \A i \in DOMAIN u.repo : ~u.repo[i].capitals
    BY <2>2, SoughtIsPlain
  <2>5. Lower(u.remote) = u.remote /\ LowerAll(u.repo) = u.repo
    BY <2>1, <2>3, <2>4, LowerFixed, LowerAllFixed
  <2>6. FromUrl(u) = {q}
    BY <1>2, <2>1, <2>3, <2>5 DEF FromUrl, Spelled
  <2> QED BY <2>6 DEF Names, Sought
<1> QED BY <1>1, <1>2

\* What is pulled under a plain name is found under it after a load.
LEMMA PulledIsNamed ==
  ASSUME NEW p \in PullRequestType, Plain(p)
  PROVE Names(Url(p), p)
<1>1. Url(p) \in KeysOf(Spelled(Url(p)))
  BY KeysOfSpelled DEF KeysOf
<1> QED BY <1>1, UrlTyped, PlainNames DEF Sought

-----------------------------------------------------------------------------
(* The parsers and the formatter fit together.                             *)

\* What may be absent.
Optional(s) == \A x, y \in s : x = y

\* A request names one image or none, whatever header, parameter and default it
\* comes with, and so does a URL (NewPullRequest, NewPullRequestFromUrl).
THEOREM NamesAtMostOne ==
  ASSUME NEW hdr, Optional(hdr), NEW ns, Optional(ns), NEW defaultNs, Optional(defaultNs)
  PROVE  /\ \A ref, segments : Optional(NewPullRequest(hdr, ns, defaultNs, ref, segments))
         /\ \A url : Optional(FromUrl(url))
<1>1. ASSUME NEW ref, NEW segments
      PROVE  Optional(NewPullRequest(hdr, ns, defaultNs, ref, segments))
  <2>1. Optional(Remotes(hdr, ns, defaultNs, segments))
    BY DEF Remotes, Optional
  <2> QED BY <2>1 DEF NewPullRequest, Optional
<1>2. \A url : Optional(FromUrl(url))
  BY DEF FromUrl, Optional
<1> QED BY <1>1, <1>2

\* The URL of what was read from a URL reads back as the same image: the file that
\* serialize writes is loaded, pruned and listed under the name it was read by.
THEOREM UrlReadsBack ==
  ASSUME NEW u \in ImageUrls, NEW q \in FromUrl(u)
  PROVE  FromUrl(Url(q)) = {q}
<1>1. u.remote \in WordType /\ u.repo \in Seq(WordType) /\ u.ref \in WordType /\ ~u.ref.capitals
      /\ u.remote.dotted /\ u.repo # <<>>
  BY DEF ImageUrls, UrlType, Refs, FromUrl
<1>2. q = Request(Lower(u.remote), LowerAll(u.repo), u.ref)
  BY <1>1 DEF FromUrl
<1>3. Lower(u.ref) = u.ref /\ Lower(Lower(u.remote)) = Lower(u.remote) /\ Lower(u.remote).dotted
  BY <1>1, LowerIsWord, LowerFixed
<1>4. LowerAll(u.repo) \in Seq(WordType) /\ LowerAll(u.repo) # <<>>
  BY <1>1, LowerAllIsSeq
<1>5. LowerAll(LowerAll(u.repo)) = LowerAll(u.repo)
  <2>1. \A i \in DOMAIN u.repo : u.repo[i] \in WordType
    BY <1>1
  <2>2. DOMAIN LowerAll(u.repo) = DOMAIN u.repo
        /\ \A i \in DOMAIN u.repo : ~LowerAll(u.repo)[i].capitals
    BY <2>1, LowerIsWord DEF LowerAll
  <2> QED BY <1>4, <2>2, LowerAllFixed
<1>6. Url(q) = Named(Lower(u.remote), LowerAll(u.repo), u.ref)
  BY <1>2, <1>3 DEF Url, Request
<1> QED BY <1>2, <1>3, <1>4, <1>5, <1>6 DEF FromUrl, Named

\* What a client asked for under a plain name reads back, from the URL that names
\* its file, as an image with the same keys, so that a restart finds it again.
THEOREM PlainReadsBack ==
  ASSUME NEW p \in PullRequestType, Plain(p)
  PROVE  \E q \in FromUrl(Url(p)) : Url(q) = Url(p) /\ KeysOf(q) = KeysOf(p)
<1>1. p.remote \in WordType /\ p.repo \in Seq(WordType) /\ p.repo # <<>>
      /\ p.ref \in WordType /\ ~p.ref.capitals
  BY DEF PullRequestType, Refs
<1>2. Lower(p.remote) = p.remote /\ LowerAll(p.repo) = p.repo /\ Lower(p.ref) = p.ref
  BY <1>1, LowerFixed, LowerAllFixed DEF Plain
<1>3. Spelled(Url(p)) \in FromUrl(Url(p))
  BY <1>1, <1>2 DEF FromUrl, Spelled, Url, Named, Plain
<1>4. Url(Spelled(Url(p))) = Url(p)
  BY <1>2 DEF Url, Spelled, Named, Request
<1> QED BY <1>3, <1>4, KeysOfSpelled

\* The two spellings of a name on Docker Hub find each other, unless the name is
\* longer and begins with library twice (AltDockerUrl).
THEOREM HubSpellingsFindEachOther ==
  ASSUME NEW p \in PullRequestType, p.remote = DockerIo,
         ~(Len(p.repo) > 2 /\ p.repo[1] = Library /\ p.repo[2] = Library),
         NEW q \in PullRequestType, Url(q) \in AltDockerUrl(p)
  PROVE  Url(p) \in AltDockerUrl(q)
<1>1. p.repo \in Seq(WordType) /\ p.repo # <<>> /\ Len(p.repo) \in Nat
  BY DEF PullRequestType
<1>2. q.remote = p.remote /\ q.ref = p.ref /\ q.repo \in Seq(WordType) /\ q.repo # <<>>
  BY DEF PullRequestType, AltDockerUrl, Url, Named
<1>3. CASE Len(p.repo) > 1 /\ p.repo[1] = Library
  <2>1. q.repo = Tail(p.repo)
    BY <1>3 DEF AltDockerUrl, Url, Named
  <2>2. Len(q.repo) = Len(p.repo) - 1 /\ q.repo[1] = p.repo[2]
    BY <1>1, <1>3, <2>1, HeadTailProperties
  <2>3. ~(Len(q.repo) > 1 /\ q.repo[1] = Library)
    BY <1>1, <1>3, <2>2
  <2>4. p.repo = <<Library>> \o q.repo
    BY <1>1, <1>3, <2>1, HeadTailProperties
  <2> QED BY <1>2, <2>3, <2>4 DEF AltDockerUrl, Url, Named
<1>4. CASE ~(Len(p.repo) > 1 /\ p.repo[1] = Library)
  <2>1. q.repo = <<Library>> \o p.repo
    BY <1>4 DEF AltDockerUrl, Url, Named
  <2>2. Library \in WordType
    BY WordsAssumption
  <2>3. Len(q.repo) = 1 + Len(p.repo) /\ q.repo[1] = Library
    BY <1>1, <2>1, <2>2, ConcatProperties
  <2>4. Tail(q.repo) = p.repo
    BY <1>1, <2>1, <2>2
  <2>5. Len(q.repo) > 1
    BY <1>1, <2>3, EmptySeq
  <2> QED BY <1>2, <2>3, <2>4, <2>5 DEF AltDockerUrl, Url, Named
<1> QED BY <1>3, <1>4

-----------------------------------------------------------------------------
(* What Front keeps true.                                                  *)

\* The configuration is the one of a command line, and a file if there is one.
SettingsInv ==
  program = "configured" =>
    /\ given.line \in CommandLines /\ command = given.line.command
    /\ \/ given.file \in ConfigFiles /\ config = Merged(given.line, given.file)
       \/ given.file = Forgotten /\ config = Parsed(given.line)

\* The provider of an entry has a token.
Authorized(i) ==
  Registries[i].provider # NoProvider =>
    Registries[i].provider \in Providers /\ Initialized(Registries[i].provider)

\* The entries before the next are authorized, and all are from the load on.
AuthInv ==
  /\ nextEntry \in Nat \ {0}
  /\ \A i \in DOMAIN Registries : i < nextEntry => Authorized(i)
  /\ program \in {"loading", "serving"} => \A i \in DOMAIN Registries : Authorized(i)
  /\ ~denied

\* Each provider has one of the states of a token.
TokenInv == tokens \in [Providers -> TokenStates]

\* An entry has a key of its image, as spelled or as loaded.
EntryInv ==
  \A e \in cache :
    /\ e.image \in ImageUrls
    /\ \E q \in {Spelled(e.image)} \cup FromUrl(e.image) : e.key \in KeysOf(q)

\* The requests that were answered and whose image has not lost its file.
Kept == answered \ takenOver
KeptWith(u, pr) ==
  IF Place = "temporary" THEN Kept
  ELSE (Kept \ LosesFile(u)) \cup (IF Plain(pr) THEN {pr} ELSE {})

\* The files hold image URLs, and each kept request finds one of the lasting ones.
KeptInv ==
  /\ files \in [{"lasting", "temporary"} -> SUBSET ImageUrls]
  /\ Kept \subseteq {p \in PullRequestType : Plain(p)}
  /\ \A p \in Kept : \E u \in files["lasting"] : Names(u, p)

\* A request finds something in the cache.
Has(entries, pr) == \E e \in entries : e.key \in Sought(pr)
CacheInv ==
  program = "serving" /\ Place = "lasting" => \A p \in Kept : Has(cache, p)

FrontInv == SettingsInv /\ AuthInv /\ TokenInv /\ EntryInv /\ KeptInv /\ CacheInv

-----------------------------------------------------------------------------
(* What follows from it.                                                   *)

\* A request finds an entry exactly if one has a key that is sought.
LEMMA FoundHas ==
  ASSUME NEW pr
  PROVE Found(pr) # {} <=> Has(cache, pr)
<1>1. \A url : FromCache(url) # {} <=> \E e \in cache : e.key = url
  BY DEF FromCache
<1>2. \A url : FromCache(url) \subseteq cache
  BY DEF FromCache
<1> QED BY <1>1, <1>2 DEF Found, Has, Sought

\* What is found is an entry with a key that is sought.
LEMMA FoundIsEntry ==
  ASSUME NEW pr, NEW e \in Found(pr)
  PROVE e \in cache /\ e.key \in Sought(pr)
<1>1. \A url : \A x \in FromCache(url) : x \in cache /\ x.key = url
  BY DEF FromCache
<1> QED BY <1>1 DEF Found, Sought

\* Precedence is what Merge and Set do, for any flags and any file.
LEMMA SettingsInvImplies ==
  SettingsInv => PrecedenceHolds
<1> SUFFICES ASSUME SettingsInv, program = "configured" PROVE PrecedenceHolds
  BY DEF PrecedenceHolds
<1> DEFINE line == given.line
           file == given.file
<1>1. line \in CommandLines /\ command = line.command
  BY DEF SettingsInv
<1>2. Forgotten \notin ConfigFiles
  BY SettingsAssumption
<1>3. CASE file = Forgotten /\ config = Parsed(line)
  <2>1. \A o \in Options : config.options[o] \in Wanted(o)
    BY <1>1, <1>3 DEF Parsed, ParsedOptions, Wanted
  <2>2. "dryRun" \in line.struct => config.prune.dryRun
    BY <1>3 DEF Parsed, ParsedPrune
  <2> QED BY <1>3, <2>1, <2>2 DEF PrecedenceHolds
<1>4. CASE file \in ConfigFiles /\ config = Merged(line, file)
  <2>0. file # Forgotten /\ file.options \in [Options -> {"zero", "file"}]
    BY <1>2, <1>4, SettingsAssumption
  <2>1. ASSUME NEW o \in Options
        PROVE config.options[o] \in Wanted(o)
    <3>1. config.options[o] =
            IF o \in DOMAIN line.flags \/ file.options[o] = "zero"
            THEN ParsedOptions(line)[o] ELSE file.options[o]
      BY <1>4 DEF Merged, Parsed
    <3>2. ParsedOptions(line)[o] =
            IF o \in DOMAIN line.flags THEN line.flags[o]
            ELSE IF o \in WithDefault \cap FlagsOf(command) THEN "default" ELSE "zero"
      BY <1>1 DEF ParsedOptions
    <3>3. file.options[o] \in {"zero", "file"}
      BY <2>0
    <3> QED BY <2>0, <3>1, <3>2, <3>3 DEF Wanted
  <2>2. "dryRun" \in line.struct => config.prune.dryRun
    <3>1. "dryRun" \in line.struct => MarksPrune(line)
      BY DEF MarksPrune
    <3>2. ParsedPrune(line).dryRun = ("dryRun" \in line.struct)
      BY DEF ParsedPrune
    <3>3. MarksPrune(line) => config.prune = ParsedPrune(line)
      BY <1>4 DEF Merged, Parsed
    <3> QED BY <3>1, <3>2, <3>3
  <2>3. ASSUME line.struct = {}
        PROVE /\ file.prune # NoPrune => config.prune = file.prune
              /\ file.list # NoList => config.list = file.list
    <3>1. ~MarksPrune(line) /\ ~MarksList(line)
      BY <2>3 DEF MarksPrune, MarksList
    <3> QED BY <1>4, <3>1 DEF Merged
  <2> QED BY <2>1, <2>2, <2>3 DEF PrecedenceHolds
<1> QED BY <1>3, <1>4 DEF SettingsInv

\* An authorized registry is never found without its token.
LEMMA AuthorizedHasToken ==
  ASSUME \A i \in DOMAIN Registries : Authorized(i), NEW name
  PROVE "noToken" \notin ConfigFor(name)
<1>1. \A r \in EntriesFor(name) :
        r.provider # NoProvider => r.provider \in Providers /\ Initialized(r.provider)
  BY DEF EntriesFor, Authorized
<1> QED BY <1>1 DEF ConfigFor

-----------------------------------------------------------------------------
(* Each part is kept by every step.                                        *)

\* Entries are counted from 1.
LEMMA EntryIndex == \A i \in DOMAIN Registries : i \in Nat /\ ~(i < 1)
<1>1. DOMAIN Registries = 1..Len(Registries) /\ Len(Registries) \in Nat
  BY UpstreamAssumption
<1> QED BY <1>1

\* It is so before the program is started.
LEMMA FrontInitInv == FrontInit => FrontInv
<1> SUFFICES ASSUME FrontInit PROVE FrontInv
  OBVIOUS
<1> USE DEF FrontInit, SettingsInit, NoTokens
<1>1. SettingsInv
  BY DEF SettingsInv
<1>2. AuthInv
  <2>1. \A i \in DOMAIN Registries : ~(i < 1)
    BY EntryIndex
  <2>2. nextEntry = 1 /\ program = "down" /\ ~denied
    OBVIOUS
  <2> HIDE DEF FrontInit, SettingsInit, NoTokens
  <2>3. \A i \in DOMAIN Registries : i < nextEntry => Authorized(i)
    BY <2>1, <2>2
  <2>4. program \notin {"loading", "serving"} /\ ~denied
    BY <2>2
  <2> QED BY <2>2, <2>3, <2>4 DEF AuthInv
<1>3. TokenInv
  BY DEF TokenInv, TokenStates
<1>4. EntryInv
  BY DEF EntryInv
<1>5. KeptInv
  BY DEF KeptInv, Kept
<1>6. CacheInv
  BY DEF CacheInv
<1> QED BY <1>1, <1>2, <1>3, <1>4, <1>5, <1>6 DEF FrontInv

\* Only the start of the program configures it.
LEMMA SettingsStep ==
  ASSUME SettingsInv, [FrontNext]_vars
  PROVE SettingsInv'
<1>1. CASE Starts
  BY <1>1 DEF Starts, ConfiguresFromFlags, ConfiguresFromFile, SettingsInv
<1>2. CASE ProcessEnds
  BY <1>2 DEF ProcessEnds, SettingsInv
<1>3. CASE EndsBeforeItBegan \/ PreparesImagePath
  BY <1>3 DEF EndsBeforeItBegan, EndsAtOnce, PreparesImagePath, GetsReady, SettingsInv
<1>4. CASE program' # "configured"
  BY <1>4 DEF SettingsInv
<1>5. CASE UNCHANGED settingsVars
  BY <1>5 DEF settingsVars, SettingsInv
<1>6. CASE BeginsPreload \/ SkipsPreload \/ EndsPreload
  BY <1>2, <1>4, <1>6 DEF BeginsPreload, SkipsPreload, EndsPreload, ProgramGoes
<1>7. CASE EndsAuthorizing \/ Loads
  BY <1>4, <1>7 DEF EndsAuthorizing, Loads, ProgramGoes
<1>8. CASE RunsOffline \/ PreloadFails \/ FailsToAuthorize \/ FailsToLoad \/ Dies
  BY <1>2, <1>8 DEF RunsOffline, PreloadFails, FailsToAuthorize, FailsToLoad, Dies
<1>9. CASE \E r \in Requests : ServesFromCache(r) \/ PullsAndServes(r) \/ FailsToPull(r)
  BY <1>5, <1>9 DEF ServesFromCache, PullsAndServes, FailsToPull
<1>10. CASE PreloadsLine \/ Authorizes \/ Prunes \/ RefreshesTokens \/ UNCHANGED vars
  BY <1>5, <1>10 DEF PreloadsLine, Authorizes, Prunes, RefreshesTokens, vars
<1> QED BY <1>1, <1>3, <1>6, <1>7, <1>8, <1>9, <1>10 DEF FrontNext

\* A token is none only before the provider is initialized.
LEMMA TokenStep ==
  ASSUME TokenInv, [FrontNext]_vars
  PROVE TokenInv'
<1>1. CASE UNCHANGED tokens
  BY <1>1 DEF TokenInv
<1>2. CASE ProcessEnds
  BY <1>2 DEF ProcessEnds, TokensAreGone, TokenInv, TokenStates
<1>3. CASE InitializesProvider \/ RefreshesTokens
  BY <1>3 DEF InitializesProvider, RefreshesTokens, Refreshes, RefreshFails, TokenInv, TokenStates
<1>4. CASE RunsOffline \/ PreloadFails \/ FailsToAuthorize \/ FailsToLoad \/ Dies
  BY <1>2, <1>4 DEF RunsOffline, PreloadFails, FailsToAuthorize, FailsToLoad, Dies
<1>5. CASE EndsPreload
  BY <1>1, <1>2, <1>5 DEF EndsPreload, upstreamVars
<1>6. CASE Authorizes
  BY <1>1, <1>3, <1>6 DEF Authorizes, SkipsEntry
<1>7. CASE \E r \in Requests : ServesFromCache(r) \/ PullsAndServes(r) \/ FailsToPull(r)
  BY <1>1, <1>7 DEF ServesFromCache, PullsAndServes, FailsToPull, upstreamVars
<1>8. CASE \/ Starts \/ EndsBeforeItBegan \/ PreparesImagePath \/ BeginsPreload \/ SkipsPreload
           \/ PreloadsLine \/ EndsAuthorizing \/ Loads \/ Prunes \/ UNCHANGED vars
  BY <1>1, <1>8 DEF Starts, EndsBeforeItBegan, PreparesImagePath, BeginsPreload, SkipsPreload,
     PreloadsLine, EndsAuthorizing, Loads, Prunes, vars, upstreamVars
<1> QED BY <1>3, <1>4, <1>5, <1>6, <1>7, <1>8 DEF FrontNext

\* A provider that is initialized stays so.
LEMMA StaysInitialized ==
  ASSUME TokenInv, InitializesProvider \/ RefreshesTokens, NEW p \in Providers, Initialized(p)
  PROVE Initialized(p)'
<1>1. CASE InitializesProvider
  BY <1>1 DEF InitializesProvider, TokenInv, Initialized
<1>2. CASE RefreshesTokens
  BY <1>2 DEF RefreshesTokens, Refreshes, RefreshFails, TokenInv, Initialized
<1> QED BY <1>1, <1>2

\* What the end of the process leaves of the loop over the providers.
LEMMA AuthEnds ==
  ASSUME AuthInv, ProcessEnds, denied' = denied
  PROVE AuthInv'
<1>1. nextEntry' = 1 /\ program' = "down"
  BY DEF ProcessEnds, TokensAreGone
<1>2. \A i \in DOMAIN Registries : ~(i < nextEntry')
  BY <1>1, EntryIndex
<1> QED BY <1>1, <1>2 DEF AuthInv

\* The providers of all entries are initialized before the load, and stay so.
LEMMA AuthStep ==
  ASSUME AuthInv, TokenInv, [FrontNext]_vars
  PROVE AuthInv'
<1>1. CASE /\ UNCHANGED <<upstreamVars, denied>>
           /\ program' \in {program, "configured", "ready", "preloading", "authorizing"}
  BY <1>1 DEF AuthInv, Authorized, Initialized, upstreamVars
<1>2. CASE RunsOffline \/ PreloadFails \/ FailsToAuthorize \/ FailsToLoad \/ Dies
  <2>1. ProcessEnds /\ denied' = denied
    BY <1>2 DEF RunsOffline, PreloadFails, FailsToAuthorize, FailsToLoad, Dies
  <2> QED BY <2>1, AuthEnds DEF AuthInv
<1>4. CASE EndsPreload
  <2>1. CASE ProcessEnds /\ denied' = denied
    BY <2>1, AuthEnds DEF AuthInv
  <2>2. CASE program' = "authorizing" /\ UNCHANGED <<upstreamVars, denied>>
    BY <1>1, <2>2
  <2> QED BY <1>4, <2>1, <2>2 DEF EndsPreload, ProgramGoes, frontVars
<1>5. CASE Authorizes
  <2>1. program = "authorizing" /\ program' = program /\ denied' = denied
    BY <1>5 DEF Authorizes, settingsVars, frontVars
  <2>2. /\ nextEntry' = nextEntry + 1 /\ nextEntry \in DOMAIN Registries
        /\ SkipsEntry \/ InitializesProvider
    BY <1>5 DEF Authorizes, SkipsEntry, InitializesProvider, AtEntry
  <2>3. nextEntry \in Nat \ {0}
    BY DEF AuthInv
  <2>4. \A i \in DOMAIN Registries : Authorized(i) => Authorized(i)'
    <3>1. CASE SkipsEntry
      BY <3>1 DEF SkipsEntry, Authorized, Initialized
    <3>2. CASE InitializesProvider
      BY <3>2, StaysInitialized DEF Authorized
    <3> QED BY <2>2, <3>1, <3>2
  <2>5. Registries[nextEntry].provider # NoProvider =>
          /\ Registries[nextEntry].provider \in Providers
          /\ tokens'[Registries[nextEntry].provider] # "none"
    <3>1. CASE SkipsEntry
      BY <3>1 DEF SkipsEntry, Initialized, Entry
    <3>2. CASE InitializesProvider
      BY <3>2 DEF InitializesProvider, Entry, TokenInv
    <3> QED BY <2>2, <3>1, <3>2
  <2>6. ASSUME NEW i \in DOMAIN Registries, i < nextEntry'
        PROVE Authorized(i)'
    <3>1. i \in Nat
      BY EntryIndex
    <3>2. i < nextEntry \/ i = nextEntry
      BY <2>2, <2>3, <2>6, <3>1
    <3>3. i < nextEntry => Authorized(i)
      BY DEF AuthInv
    <3>4. ASSUME i = nextEntry PROVE Authorized(i)'
      BY <2>5, <3>4 DEF Authorized, Initialized
    <3> QED BY <2>4, <3>2, <3>3, <3>4
  <2> QED BY <2>1, <2>2, <2>3, <2>6 DEF AuthInv
<1>6. CASE EndsAuthorizing
  <2>1. nextEntry \notin DOMAIN Registries /\ nextEntry \in Nat \ {0}
    BY <1>6 DEF EndsAuthorizing, AtEntry, AuthInv
  <2>2. DOMAIN Registries = 1..Len(Registries) /\ Len(Registries) \in Nat
    BY UpstreamAssumption
  <2>3. \A i \in DOMAIN Registries : i < nextEntry
    BY <2>1, <2>2
  <2>4. \A i \in DOMAIN Registries : Authorized(i)
    BY <2>3 DEF AuthInv
  <2>5. UNCHANGED <<nextEntry, tokens, denied>>
    BY <1>6 DEF EndsAuthorizing, upstreamVars, frontVars
  <2> QED BY <2>4, <2>5 DEF AuthInv, Authorized, Initialized
<1>7. CASE Loads
  <2>1. program = "loading" /\ UNCHANGED <<nextEntry, tokens, denied>>
    BY <1>7 DEF Loads, ProgramGoes, upstreamVars
  <2> QED BY <2>1 DEF AuthInv, Authorized, Initialized
<1>8. CASE RefreshesTokens
  <2>1. UNCHANGED <<program, nextEntry, denied>>
    BY <1>8 DEF RefreshesTokens, settingsVars, frontVars, Refreshes, RefreshFails
  <2>2. \A i \in DOMAIN Registries : Authorized(i) => Authorized(i)'
    BY <1>8, StaysInitialized DEF Authorized
  <2> QED BY <2>1, <2>2 DEF AuthInv
<1>9. ASSUME NEW r \in Requests, FailsToPull(r) PROVE AuthInv'
  <2>1. program = "serving" /\ UNCHANGED <<program, nextEntry, tokens>>
    BY <1>9 DEF FailsToPull, Handles, settingsVars, upstreamVars
  <2>2. \A i \in DOMAIN Registries : Authorized(i)
    BY <2>1 DEF AuthInv
  <2>3. \A name : "noToken" \notin ConfigFor(name)
    BY <2>2, AuthorizedHasToken
  <2>4. denied' => denied
    BY <1>9, <2>3 DEF FailsToPull
  <2>5. ~denied'
    BY <2>4 DEF AuthInv
  <2> QED BY <2>1, <2>5 DEF AuthInv, Authorized, Initialized
<1>10. CASE \E r \in Requests : ServesFromCache(r) \/ PullsAndServes(r)
  BY <1>1, <1>10 DEF ServesFromCache, PullsAndServes, settingsVars
<1>11. CASE Starts
  BY <1>1, <1>11 DEF Starts, ConfiguresFromFlags, ConfiguresFromFile, frontVars
<1>12. CASE EndsBeforeItBegan
  BY <1>12 DEF EndsBeforeItBegan, EndsAtOnce, AuthInv, Authorized, Initialized, upstreamVars, frontVars
<1>13. CASE PreparesImagePath
  BY <1>1, <1>13 DEF PreparesImagePath, GetsReady
<1>14. CASE BeginsPreload \/ SkipsPreload
  BY <1>1, <1>14 DEF BeginsPreload, SkipsPreload, ProgramGoes, frontVars
<1>15. CASE PreloadsLine \/ Prunes
  BY <1>1, <1>15 DEF PreloadsLine, Prunes, settingsVars
<1>16. CASE UNCHANGED vars
  BY <1>1, <1>16 DEF vars, settingsVars, frontVars
<1> QED BY <1>2, <1>4, <1>5, <1>6, <1>7, <1>8, <1>9, <1>10, <1>11, <1>12, <1>13, <1>14,
           <1>15, <1>16 DEF FrontNext

\* The files are those of a directory in use.
LEMMA Places == Place \in {"lasting", "temporary"}
BY DEF Place

\* Every entry has a key of its image.
LEMMA EntryStep ==
  ASSUME EntryInv, KeptInv, [FrontNext]_vars
  PROVE EntryInv'
<1>1. CASE cache' \subseteq cache
  BY <1>1 DEF EntryInv
<1>2. CASE ProcessEnds
  BY <1>1, <1>2 DEF ProcessEnds
<1>3. CASE Loads
  <2>1. ASSUME NEW e \in cache'
        PROVE e.image \in ImageUrls /\ \E q \in FromUrl(e.image) : e.key \in KeysOf(q)
    <3>1. PICK u \in files[Place] : \E q \in FromUrl(u) : e \in Entries(q, u)
      BY <1>3, <2>1 DEF Loads
    <3>2. e.image = u /\ \E q \in FromUrl(u) : e.key \in KeysOf(q)
      BY <3>1 DEF Entries
    <3>3. u \in ImageUrls
      BY <3>1, Places DEF KeptInv
    <3> QED BY <3>1, <3>2, <3>3
  <2> QED BY <2>1 DEF EntryInv
<1>4. ASSUME NEW r \in Requests, ServesFromCache(r)
      PROVE EntryInv'
  <2>1. PICK p \in Asked(r) : \E e \in Found(p) :
          cache' = Put(cache, {[latest |-> IsLatest(p), key |-> e.key, image |-> e.image]})
    BY <1>4 DEF ServesFromCache
  <2>2. PICK e \in Found(p) :
          cache' = Put(cache, {[latest |-> IsLatest(p), key |-> e.key, image |-> e.image]})
    BY <2>1
  <2>3. e \in cache
    BY FoundIsEntry
  <2>4. \A x \in cache' : x \in cache \/ (x.key = e.key /\ x.image = e.image)
    BY <2>2 DEF Put
  <2> QED BY <2>3, <2>4 DEF EntryInv
<1>5. ASSUME NEW r \in Requests, PullsAndServes(r)
      PROVE EntryInv'
  <2>1. PICK p \in Asked(r) : cache' = cache \/ cache' = Pulled(p)
    BY <1>5 DEF PullsAndServes
  <2>2. Handles(r)
    BY <1>5 DEF PullsAndServes
  <2>3. p \in PullRequestType
    BY <2>2, AskedTyped
  <2>4. Url(p) \in ImageUrls /\ KeysOf(p) = KeysOf(Spelled(Url(p)))
    BY <2>3, UrlTyped, KeysOfSpelled
  <2>5. \A x \in cache' : x \in cache \/ (x.key \in KeysOf(p) /\ x.image = Url(p))
    BY <2>1 DEF Pulled, Put, Entries
  <2> QED BY <2>4, <2>5 DEF EntryInv
<1>6. CASE Prunes
  BY <1>1, <1>6 DEF Prunes
<1>7. CASE RunsOffline \/ PreloadFails \/ FailsToAuthorize \/ FailsToLoad \/ Dies
  BY <1>2, <1>7 DEF RunsOffline, PreloadFails, FailsToAuthorize, FailsToLoad, Dies
<1>8. CASE EndsPreload
  BY <1>1, <1>2, <1>8 DEF EndsPreload, frontVars
<1>9. CASE \E r \in Requests : FailsToPull(r)
  BY <1>1, <1>9 DEF FailsToPull
<1>10. CASE \/ Starts \/ EndsBeforeItBegan \/ PreparesImagePath \/ BeginsPreload \/ SkipsPreload
            \/ PreloadsLine \/ Authorizes \/ EndsAuthorizing \/ RefreshesTokens \/ UNCHANGED vars
  BY <1>1, <1>10 DEF Starts, EndsBeforeItBegan, PreparesImagePath, BeginsPreload, SkipsPreload,
     PreloadsLine, Authorizes, EndsAuthorizing, RefreshesTokens, vars, frontVars
<1> QED BY <1>3, <1>4, <1>5, <1>6, <1>7, <1>8, <1>9, <1>10 DEF FrontNext

\* What is kept when a request is answered.
LEMMA RemembersKept ==
  ASSUME NEW u, NEW p, Remembers(u, p)
  PROVE Kept' = KeptWith(u, p)
BY DEF Remembers, Kept, KeptWith, history

\* Writing the file of an image, and forgetting what is kept for the images that
\* it takes the file from.
LEMMA WrittenKeeps ==
  ASSUME KeptInv, NEW u \in ImageUrls, NEW p \in PullRequestType,
         Plain(p) /\ Place = "lasting" => Names(u, p),
         files' = Written(u), Remembers(u, p)
  PROVE KeptInv'
<1>0. Kept' = KeptWith(u, p)
  BY RemembersKept
<1>1. files' \in [{"lasting", "temporary"} -> SUBSET ImageUrls]
  BY Places DEF KeptInv, Written
<1>2. CASE Place = "temporary"
  <2>1. files'["lasting"] = files["lasting"] /\ Kept' = Kept
    BY <1>0, <1>2 DEF KeptInv, Written, KeptWith
  <2> QED BY <1>1, <2>1 DEF KeptInv
<1>3. CASE Place = "lasting"
  <2>1. files'["lasting"] = {v \in files["lasting"] : ~SameFile(v, u)} \cup {u}
        \/ files'["lasting"] = {v \in files["lasting"] : ~SameFile(u, v)} \cup {u}
    BY <1>3 DEF KeptInv, Written, SameFile
  <2>3. u \in files'["lasting"]
    BY <2>1
  <2>4. Kept' \subseteq Kept \cup {p} /\ (p \in Kept' => p \in Kept \/ Plain(p))
    BY <1>0, <1>3 DEF KeptWith
  <2>5. ASSUME NEW x \in Kept'
        PROVE \E v \in files'["lasting"] : Names(v, x)
    <3>1. CASE x \in Kept \ LosesFile(u)
      <4>1. PICK v \in files["lasting"] : Names(v, x)
        BY <3>1 DEF KeptInv
      <4>2. CASE Names(u, x)
        BY <2>3, <4>2
      <4>3. CASE ~Names(u, x)
        <5>1. PICK w \in files["lasting"] : Names(w, x) /\ ~SameFile(u, w)
          BY <3>1, <4>1, <4>3 DEF LosesFile, Kept
        <5>2. w \in files'["lasting"]
          BY <2>1, <5>1 DEF SameFile
        <5> QED BY <5>1, <5>2
      <4> QED BY <4>2, <4>3
    <3>2. CASE x = p /\ Plain(p)
      BY <1>3, <2>3, <3>2
    <3> QED BY <1>0, <1>3, <3>1, <3>2 DEF KeptWith
  <2> QED BY <1>1, <2>4, <2>5 DEF KeptInv
<1> QED BY <1>2, <1>3, Places

\* The keys an image is sought by, of an entry found for a plain request, name it.
LEMMA FoundIsNamed ==
  ASSUME EntryInv, NEW p \in PullRequestType, NEW e \in Found(p)
  PROVE e.image \in ImageUrls /\ (Plain(p) => Names(e.image, p))
<1>1. e \in cache /\ e.key \in Sought(p)
  BY FoundIsEntry
<1>2. PICK q \in {Spelled(e.image)} \cup FromUrl(e.image) : e.key \in KeysOf(q)
  BY <1>1 DEF EntryInv
<1> QED BY <1>1, <1>2, PlainNames DEF EntryInv

\* What is kept has a file, under one of the names it is found by.
LEMMA KeptStep ==
  ASSUME EntryInv, KeptInv, [FrontNext]_vars
  PROVE KeptInv'
<1>1. CASE UNCHANGED <<files, history>>
  BY <1>1 DEF KeptInv, Kept, history
<1>2. CASE ProcessEnds /\ UNCHANGED history
  <2>1. files'["lasting"] = files["lasting"]
        /\ files' \in [{"lasting", "temporary"} -> SUBSET ImageUrls]
    BY <1>2 DEF ProcessEnds, KeptInv
  <2> QED BY <1>2, <2>1 DEF KeptInv, Kept, history
<1>3. CASE PreparesImagePath
  <2>1. files'["lasting"] = files["lasting"]
        /\ files' \in [{"lasting", "temporary"} -> SUBSET ImageUrls]
    BY <1>3, FrontAssumption DEF PreparesImagePath, KeptInv
  <2> QED BY <1>3, <2>1 DEF PreparesImagePath, KeptInv, Kept, history
<1>4. CASE PreloadsLine
  <2>1. PICK p \in FromUrl(PreloadList[nextLine]) :
          files' = IF \E u \in files[Place] : SameFile(u, Url(p)) THEN files ELSE Written(Url(p))
    BY <1>4 DEF PreloadsLine
  <2>2. PreloadList[nextLine] \in UrlType
    BY <1>4, FrontAssumption DEF PreloadsLine
  <2>3. Url(p) \in ImageUrls
    BY <2>2, FromUrlTyped, UrlTyped
  <2>4. files' \in [{"lasting", "temporary"} -> SUBSET ImageUrls]
    BY <2>1, <2>3, Places DEF KeptInv, Written
  <2>5. files["lasting"] \subseteq files'["lasting"]
    <3>1. \A u, v : SameFile(u, v) <=> SameFile(v, u)
      BY DEF SameFile
    <3> QED BY <2>1, <3>1 DEF KeptInv, Written
  <2> QED BY <1>4, <2>4, <2>5 DEF PreloadsLine, KeptInv, Kept, history
<1>5. ASSUME NEW r \in Requests, ServesFromCache(r)
      PROVE KeptInv'
  <2>1. PICK p \in Asked(r) :
          \E e \in Found(p) : files' = Written(e.image) /\ Remembers(e.image, p)
    BY <1>5 DEF ServesFromCache
  <2>2. PICK e \in Found(p) : files' = Written(e.image) /\ Remembers(e.image, p)
    BY <2>1
  <2>3. p \in PullRequestType
    BY <1>5, AskedTyped DEF ServesFromCache
  <2> QED BY <2>2, <2>3, FoundIsNamed, WrittenKeeps
<1>6. ASSUME NEW r \in Requests, PullsAndServes(r)
      PROVE KeptInv'
  <2>1. PICK p \in Asked(r) : files' = Written(Url(p)) /\ Remembers(Url(p), p)
    BY <1>6 DEF PullsAndServes
  <2>2. p \in PullRequestType
    BY <1>6, AskedTyped DEF PullsAndServes
  <2> QED BY <2>1, <2>2, UrlTyped, PulledIsNamed, WrittenKeeps
<1>7. CASE Prunes
  <2>1. PICK e \in cache :
          /\ files' = Removed(e.image)
          /\ Kept' = IF Place = "temporary" THEN Kept
                     ELSE {p \in Kept : Digest(p.ref) # Digest(e.image.ref)}
    BY <1>7 DEF Prunes, Kept, history
  <2>2. files' \in [{"lasting", "temporary"} -> SUBSET ImageUrls]
    BY <2>1, Places DEF KeptInv, Removed
  <2>3. CASE Place = "temporary"
    <3>1. files'["lasting"] = files["lasting"] /\ Kept' = Kept
      BY <2>1, <2>3 DEF KeptInv, Removed
    <3> QED BY <2>2, <3>1 DEF KeptInv
  <2>4. CASE Place = "lasting"
    <3>1. \A v \in files["lasting"] : v \in files'["lasting"] \/ Digest(v.ref) = Digest(e.image.ref)
      BY <2>1, <2>4 DEF KeptInv, Removed, SameFile
    <3>2. Kept' = {p \in Kept : Digest(p.ref) # Digest(e.image.ref)}
      BY <2>1, <2>4
    <3>3. ASSUME NEW p \in Kept'
          PROVE \E v \in files'["lasting"] : Names(v, p)
      <4>1. p \in Kept /\ Digest(p.ref) # Digest(e.image.ref)
        BY <3>2
      <4>2. PICK v \in files["lasting"] : Names(v, p)
        BY <4>1 DEF KeptInv
      <4>3. Digest(p.ref) = Digest(v.ref)
        BY <4>2, NamesDigest DEF KeptInv
      <4> QED BY <3>1, <4>1, <4>2, <4>3
    <3> QED BY <2>2, <3>2, <3>3 DEF KeptInv
  <2> QED BY <2>3, <2>4, Places
<1>8. CASE RunsOffline \/ PreloadFails \/ FailsToAuthorize \/ FailsToLoad \/ Dies
  BY <1>2, <1>8 DEF RunsOffline, PreloadFails, FailsToAuthorize, FailsToLoad, Dies
<1>9. CASE EndsPreload
  BY <1>1, <1>2, <1>9 DEF EndsPreload, frontVars, history
<1>10. CASE \E r \in Requests : FailsToPull(r)
  BY <1>1, <1>10 DEF FailsToPull
<1>11. CASE \/ Starts \/ EndsBeforeItBegan \/ BeginsPreload \/ SkipsPreload
            \/ Authorizes \/ EndsAuthorizing \/ Loads \/ RefreshesTokens \/ UNCHANGED vars
  BY <1>1, <1>11 DEF Starts, EndsBeforeItBegan, BeginsPreload, SkipsPreload,
     Authorizes, EndsAuthorizing, Loads, RefreshesTokens, vars, frontVars, history
<1> QED BY <1>3, <1>4, <1>5, <1>6, <1>7, <1>8, <1>9, <1>10, <1>11 DEF FrontNext

\* Putting entries takes no key from the cache.
LEMMA PutKeeps ==
  ASSUME NEW new, NEW p, Has(cache, p) \/ Has(new, p)
  PROVE Has(Put(cache, new), p)
<1>1. \A e \in cache : e \in Put(cache, new) \/ \E n \in new : n.key = e.key
  BY DEF Put
<1>2. new \subseteq Put(cache, new)
  BY DEF Put
<1> QED BY <1>1, <1>2 DEF Has

\* What is kept is found while the server runs: the load enters all files, requests
\* take no key away, and a prune takes those of its digest.
LEMMA CacheStep ==
  ASSUME EntryInv, KeptInv, CacheInv, [FrontNext]_vars
  PROVE CacheInv'
<1>1. CASE UNCHANGED <<program, config, cache, history>>
  BY <1>1 DEF Kept, history, CacheInv, Place, IsOn, Has
<1>2. CASE program' # "serving"
  BY <1>2 DEF CacheInv
<1>3. CASE Loads
  <2>1. SUFFICES ASSUME Place = "lasting", NEW p \in Kept
                 PROVE Has(cache', p)
    BY <1>3 DEF Loads, ProgramGoes, CacheInv, Place, IsOn, Kept, history
  <2>2. PICK u \in files["lasting"] : Names(u, p)
    BY DEF KeptInv
  <2>3. PICK q \in FromUrl(u) : KeysOf(q) \cap Sought(p) # {}
    BY <2>2 DEF Names, Sought
  <2>4. PICK k \in KeysOf(q) : k \in Sought(p)
    BY <2>3
  <2>5. [latest |-> IsLatest(q), key |-> k, image |-> u] \in Entries(q, u)
    BY DEF Entries
  <2>6. Entries(q, u) \subseteq cache'
    BY <1>3, <2>1 DEF Loads
  <2> QED BY <2>4, <2>5, <2>6 DEF Has
<1>4. ASSUME NEW r \in Requests, ServesFromCache(r)
      PROVE CacheInv'
  <2>1. PICK p \in Asked(r) : \E e \in Found(p) :
          /\ cache' = Put(cache, {[latest |-> IsLatest(p), key |-> e.key, image |-> e.image]})
          /\ Kept' = KeptWith(e.image, p)
    BY <1>4, RemembersKept DEF ServesFromCache
  <2>2. PICK e \in Found(p) :
          /\ cache' = Put(cache, {[latest |-> IsLatest(p), key |-> e.key, image |-> e.image]})
          /\ Kept' = KeptWith(e.image, p)
    BY <2>1
  <2>3. Kept' \subseteq Kept \cup {p}
    BY <2>2 DEF KeptWith
  <2>4. Has({[latest |-> IsLatest(p), key |-> e.key, image |-> e.image]}, p)
    BY FoundIsEntry DEF Has
  <2>5. program = "serving" /\ UNCHANGED <<program, config>>
    BY <1>4 DEF ServesFromCache, Handles, settingsVars
  <2>6. SUFFICES ASSUME Place = "lasting", NEW x \in Kept'
                 PROVE Has(cache', x)
    BY <2>5 DEF CacheInv, Place, IsOn
  <2>7. x = p \/ Has(cache, x)
    BY <2>3, <2>5, <2>6 DEF CacheInv
  <2> QED BY <2>2, <2>4, <2>7, PutKeeps
<1>5. ASSUME NEW r \in Requests, PullsAndServes(r)
      PROVE CacheInv'
  <2>1. PICK p \in Asked(r) :
          /\ cache' = IF Forced(p) /\ FromCache(Url(p)) # {} THEN cache ELSE Pulled(p)
          /\ Kept' = KeptWith(Url(p), p)
    BY <1>5, RemembersKept DEF PullsAndServes
  <2>2. Kept' \subseteq Kept \cup {p}
    BY <2>1 DEF KeptWith
  <2>3. Has(Entries(p, Url(p)), p)
    <3>1. [latest |-> IsLatest(p), key |-> Url(p), image |-> Url(p)] \in Entries(p, Url(p))
      BY DEF Entries, KeysOf
    <3> QED BY <3>1 DEF Has, Sought
  <2>4. FromCache(Url(p)) # {} => Has(cache, p)
    BY DEF FromCache, Has, Sought
  <2>5. program = "serving" /\ UNCHANGED <<program, config>>
    BY <1>5 DEF PullsAndServes, Handles, settingsVars
  <2>6. SUFFICES ASSUME Place = "lasting", NEW x \in Kept'
                 PROVE Has(cache', x)
    BY <2>5 DEF CacheInv, Place, IsOn
  <2>7. x = p \/ Has(cache, x)
    BY <2>2, <2>5, <2>6 DEF CacheInv
  <2>8. CASE cache' = Pulled(p)
    BY <2>3, <2>7, <2>8, PutKeeps DEF Pulled
  <2>9. CASE cache' = cache /\ FromCache(Url(p)) # {}
    BY <2>4, <2>7, <2>9
  <2> QED BY <2>1, <2>8, <2>9
<1>6. CASE Prunes
  <2>1. PICK e \in cache :
          /\ \E q \in FromUrl(e.image) :
               cache' = {x \in cache : x.latest # IsLatest(q) \/ x.key \notin KeysOf(q)}
          /\ Kept' = IF Place = "temporary" THEN Kept
                     ELSE {p \in Kept : Digest(p.ref) # Digest(e.image.ref)}
    BY <1>6 DEF Prunes, Kept, history
  <2>2. PICK q \in FromUrl(e.image) :
          cache' = {x \in cache : x.latest # IsLatest(q) \/ x.key \notin KeysOf(q)}
    BY <2>1
  <2>3. program = "serving" /\ UNCHANGED <<program, config>>
    BY <1>6 DEF Prunes, settingsVars
  <2>4. SUFFICES ASSUME Place = "lasting", NEW p \in Kept'
                 PROVE Has(cache', p)
    BY <2>3 DEF CacheInv, Place, IsOn
  <2>5. p \in Kept /\ Digest(p.ref) # Digest(e.image.ref)
    BY <2>1, <2>4
  <2>6. PICK x \in cache : x.key \in Sought(p)
    BY <2>3, <2>4, <2>5 DEF CacheInv, Has
  <2>7. Digest(x.key.ref) = Digest(p.ref)
    BY <2>6, SoughtRef
  <2>8. \A k \in KeysOf(q) : Digest(k.ref) = Digest(e.image.ref)
    BY KeyDigest DEF EntryInv
  <2>9. x \in cache'
    BY <2>2, <2>5, <2>7, <2>8
  <2> QED BY <2>6, <2>9 DEF Has
<1>7. CASE RunsOffline \/ PreloadFails \/ FailsToAuthorize \/ FailsToLoad \/ Dies
  BY <1>2, <1>7 DEF RunsOffline, PreloadFails, FailsToAuthorize, FailsToLoad, Dies, ProcessEnds
<1>8. CASE EndsBeforeItBegan \/ PreparesImagePath
  BY <1>2, <1>8 DEF EndsBeforeItBegan, EndsAtOnce, PreparesImagePath, GetsReady
<1>9. CASE Starts
  BY <1>2, <1>9 DEF Starts, ConfiguresFromFlags, ConfiguresFromFile
<1>10. CASE BeginsPreload \/ SkipsPreload \/ EndsPreload \/ EndsAuthorizing
  BY <1>2, <1>10 DEF BeginsPreload, SkipsPreload, EndsPreload, EndsAuthorizing, ProgramGoes, ProcessEnds
<1>11. CASE PreloadsLine
  BY <1>2, <1>11 DEF PreloadsLine, settingsVars, history
<1>12. CASE \E r \in Requests : FailsToPull(r)
  BY <1>1, <1>12 DEF FailsToPull, settingsVars
<1>13. CASE Authorizes \/ RefreshesTokens \/ UNCHANGED vars
  BY <1>1, <1>13 DEF Authorizes, RefreshesTokens, vars, settingsVars, frontVars, history
<1> QED BY <1>3, <1>4, <1>5, <1>6, <1>7, <1>8, <1>9, <1>10, <1>11, <1>12, <1>13 DEF FrontNext

\* What is in lower case stays as it is when it is put in lower case.
LEMMA LowerTwice ==
  ASSUME NEW u \in ImageUrls
  PROVE  Lower(Lower(u.remote)) = Lower(u.remote) /\ LowerAll(LowerAll(u.repo)) = LowerAll(u.repo)
<1>1. u.remote \in WordType /\ u.repo \in Seq(WordType)
  BY DEF ImageUrls, UrlType
<1>2. \A i \in DOMAIN u.repo : u.repo[i] \in WordType
  BY <1>1
<1>3. LowerAll(u.repo) \in Seq(WordType)
  BY <1>1, LowerAllIsSeq
<1>4. DOMAIN LowerAll(u.repo) = DOMAIN u.repo /\ \A i \in DOMAIN u.repo : ~LowerAll(u.repo)[i].capitals
  BY <1>2, LowerIsWord DEF LowerAll
<1> QED BY <1>1, <1>3, <1>4, LowerIsWord, LowerFixed, LowerAllFixed

\* An entry whose key is sought holds the image that is asked for.
LEMMA SoughtIsImage ==
  ASSUME EntryInv, NEW pr, NEW e \in cache, e.key \in Sought(pr)
  PROVE  IsImageOf(e.image, pr)
<1>1. e.image \in ImageUrls
  BY DEF EntryInv
<1>2. PICK q \in {Spelled(e.image)} \cup FromUrl(e.image) : e.key \in KeysOf(q)
  BY DEF EntryInv
<1>3. e.image.ref \in Refs /\ Lower(e.image.ref) = e.image.ref
  BY <1>1, LowerFixed DEF ImageUrls, UrlType, Refs
<1>4. q.ref = e.image.ref
  BY <1>2, <1>3 DEF Spelled, FromUrl, Request
<1>5. e.key.ref = q.ref \/ e.key.ref = Digest(q.ref)
  BY <1>2 DEF KeysOf, Url, UrlWithDigest, Named
<1>6. Digest(e.key.ref) = Digest(e.image.ref)
  BY <1>3, <1>4, <1>5, DigestIsRef
<1>7. e.key.remote = q.remote /\ e.key.repo = q.repo
  BY <1>2, KeyName
<1>8. \/ q.remote = e.image.remote /\ q.repo = e.image.repo
      \/ q.remote = Lower(e.image.remote) /\ q.repo = LowerAll(e.image.repo)
  BY <1>2 DEF Spelled, FromUrl, Request
<1>9. Lower(e.image.remote) = Lower(e.key.remote) /\ LowerAll(e.image.repo) = LowerAll(e.key.repo)
  BY <1>1, <1>7, <1>8, LowerTwice
<1>10. e.key.ref = pr.ref
  BY SoughtRef
<1> QED BY <1>6, <1>9, <1>10 DEF IsImageOf

-----------------------------------------------------------------------------
(* Names that an air-gapped server does not have.                          *)

\* An air-gapped server pulls nothing but a latest it has, and that changes no entry.
LEMMA AirGappedPull ==
  ASSUME IsOn("airGapped"), NEW r \in Requests, PullsAndServes(r)
  PROVE  cache' = cache
<1>1. PICK p \in Asked(r) :
        NeedsPull(p) /\ cache' = IF Forced(p) /\ FromCache(Url(p)) # {} THEN cache ELSE Pulled(p)
  BY DEF PullsAndServes
<1>2. FromCache(Url(p)) # {}
  BY <1>1 DEF NeedsPull, Refused
<1>3. Found(p) # {}
  BY <1>2 DEF Found
<1> QED BY <1>1, <1>2, <1>3 DEF NeedsPull

\* A hit puts an entry back under the key it had.
LEMMA HitKeepsNames ==
  ASSUME NEW r \in Requests, ServesFromCache(r), NEW e \in cache'
  PROVE  \E o \in cache : o.key = e.key
<1>1. PICK p \in Asked(r) : \E f \in Found(p) :
        cache' = Put(cache, {[latest |-> IsLatest(p), key |-> f.key, image |-> f.image]})
  BY DEF ServesFromCache
<1>2. PICK f \in Found(p) :
        cache' = Put(cache, {[latest |-> IsLatest(p), key |-> f.key, image |-> f.image]})
  BY <1>1
<1>3. f \in cache
  BY FoundIsEntry
<1> QED BY <1>2, <1>3 DEF Put

\* Nothing else that an air-gapped server does adds an entry.
LEMMA AirGappedStep ==
  ASSUME [FrontNext]_vars, program = "serving", program' = "serving", IsOn("airGapped"), NEW e \in cache'
  PROVE  \E o \in cache : o.key = e.key
<1>1. CASE UNCHANGED cache
  BY <1>1
<1>2. CASE \E r \in Requests : ServesFromCache(r) \/ PullsAndServes(r) \/ FailsToPull(r)
  BY <1>1, <1>2, HitKeepsNames, AirGappedPull DEF FailsToPull
<1>3. CASE Prunes
  BY <1>3 DEF Prunes
<1>4. CASE RunsOffline \/ PreloadFails \/ FailsToAuthorize \/ FailsToLoad \/ Dies
  BY <1>4 DEF RunsOffline, PreloadFails, FailsToAuthorize, FailsToLoad, Dies, ProcessEnds
<1>5. CASE Starts \/ EndsBeforeItBegan \/ PreparesImagePath
  BY <1>1, <1>5 DEF Starts, EndsBeforeItBegan, PreparesImagePath, frontVars
<1>6. CASE BeginsPreload \/ SkipsPreload \/ EndsPreload \/ EndsAuthorizing \/ PreloadsLine \/ Loads
  BY <1>6 DEF BeginsPreload, SkipsPreload, EndsPreload, EndsAuthorizing, PreloadsLine, Loads,
       ProgramGoes
<1>7. CASE Authorizes \/ RefreshesTokens \/ UNCHANGED vars
  BY <1>1, <1>7 DEF Authorizes, RefreshesTokens, vars, frontVars
<1> QED BY <1>2, <1>3, <1>4, <1>5, <1>6, <1>7 DEF FrontNext

-----------------------------------------------------------------------------
(* The theorems.                                                           *)

\* FrontInv holds throughout.
THEOREM FrontAlwaysInv == FrontSpec => []FrontInv
<1>1. FrontInit => FrontInv
  BY FrontInitInv
<1>2. FrontInv /\ [FrontNext]_vars => FrontInv'
  BY SettingsStep, AuthStep, TokenStep, EntryStep, KeptStep, CacheStep DEF FrontInv
<1> QED BY <1>1, <1>2, PTL DEF FrontSpec

\* Whatever flags and file are given, an option is the flag's, or else the file's,
\* or else its default, as cmdline.Parse and config.Merge document it.
THEOREM PrecedenceAlwaysHolds == FrontSpec => []PrecedenceHolds
<1>1. FrontInv => PrecedenceHolds
  BY SettingsInvImplies DEF FrontInv
<1> QED BY <1>1, FrontAlwaysInv, PTL

\* For any list of registries, no request finds a provider that Serve has not
\* initialized.
THEOREM ServingPullsAlwaysHaveToken == FrontSpec => []ServingPullsHaveToken
<1>1. FrontInv => ServingPullsHaveToken
  BY DEF FrontInv, AuthInv, ServingPullsHaveToken
<1> QED BY <1>1, FrontAlwaysInv, PTL

\* For any names, files and settings, what was answered under a plain name is found
\* under it again, after any restarts, until it is pruned, or unless a request wrote
\* its file anew as one of its other names, which do not read back as this one.
THEOREM AnsweredAlwaysStaysCached == FrontSpec => []AnsweredStaysCached
<1>1. FrontInv => AnsweredStaysCached
  BY FoundHas DEF FrontInv, CacheInv, AnsweredStaysCached, Kept
<1> QED BY <1>1, FrontAlwaysInv, PTL

\* For any names, requests and settings, an air-gapped server comes to answer for no
\* name it did not have, by whatever spelling it is asked (IsCached, GetManifest).
THEOREM AirGappedNeverAddsNames == FrontSpec => AirGappedAddsNoName
<1> DEFINE Keeps == program = "serving" /\ program' = "serving" /\ IsOn("airGapped") =>
                      \A e \in cache' : \/ \E o \in cache : o.key = e.key
                                       \/ (IsOn("alwaysPullLatest") /\ e.key.ref.sha)
<1>1. ASSUME [FrontNext]_vars PROVE [Keeps]_vars
  BY <1>1, AirGappedStep
<1>2. [FrontNext]_vars => [Keeps]_vars
  BY <1>1
<1>3. AirGappedAddsNoName <=> [][Keeps]_vars
  BY DEF AirGappedAddsNoName
<1> HIDE DEF Keeps
<1> QED BY <1>2, <1>3, PTL DEF FrontSpec

\* For any names, requests, settings and restarts, what a request is answered with
\* from the cache is the image it names, in one of the two spellings of Docker Hub,
\* with the digest that its tag stands for (getManifestFromCache).
THEOREM RequestsFindWhatTheyAskFor == FrontSpec => []FoundIsWhatWasAsked
<1>1. FrontInv => FoundIsWhatWasAsked
  BY FoundIsEntry, SoughtIsImage DEF FrontInv, FoundIsWhatWasAsked
<1> QED BY <1>1, FrontAlwaysInv, PTL
=============================================================================
