------------------------------ MODULE Upstream ------------------------------
(***************************************************************************)
(* Access to the upstream registries: the options that ConfigFor of        *)
(* impl/config finds for a registry, and the tokens of the providers of    *)
(* impl/auth, each fetched once when the server starts and refreshed by a  *)
(* goroutine of its own.                                                   *)
(*                                                                         *)
(* Of a token only its presence is kept, and whether the last attempt to   *)
(* refresh it failed; of options, whether they carry a token.  When a      *)
(* refresh is made, and how old a token may get before it, is left out:    *)
(* it depends on the goroutine being run in time.                          *)
(***************************************************************************)
EXTENDS Naturals, Sequences

CONSTANTS
  Registries,   \* config.Registries, in the order of the file
  Providers,    \* the providers there are
  NoProvider    \* the field is empty

\* fileOpts: the entry has an opts of its own; certs: it names a CA or a key pair.
RegistryEntries ==
  [name : {r.name : r \in {Registries[i] : i \in DOMAIN Registries}},
   provider : STRING, static : BOOLEAN, fileOpts : BOOLEAN, certs : BOOLEAN]

ASSUME UpstreamAssumption ==
  /\ Registries \in Seq(RegistryEntries)
  /\ Providers \subseteq STRING /\ NoProvider \in STRING \ Providers

VARIABLES
  nextEntry, \* the entry at which the loop of Serve over the providers is
  tokens     \* tokenProviders: what each provider has of a token

upstreamVars == <<nextEntry, tokens>>

\* A provider that is not initialized has none.
TokenStates == {"none", "fresh", "old"}
Initialized(p) == tokens[p] # "none"

NoTokens ==
  /\ nextEntry = 1
  /\ tokens = [p \in Providers |-> "none"]
TokensAreGone ==
  /\ nextEntry' = 1
  /\ tokens' = [p \in Providers |-> "none"]

-----------------------------------------------------------------------------
\* The first entry with that name, if there is one.
EntriesFor(name) ==
  {Registries[i] : i \in {j \in DOMAIN Registries :
     Registries[j].name = name /\ \A k \in 1..(j - 1) : Registries[k].name # name}}

\* What ConfigFor may come back with: options with or without a token, or the
\* error that there is no token, or that a certificate cannot be read.  Options
\* from the file win over a static token.
ConfigFor(name) ==
  IF EntriesFor(name) = {} THEN {"plain"}
  ELSE UNION {
    LET token == IF r.static THEN IF r.fileOpts THEN "plain" ELSE "token"
                 ELSE IF r.provider = NoProvider THEN "plain"
                 ELSE IF r.provider \in Providers /\ Initialized(r.provider) THEN "token"
                 ELSE "noToken"
    IN {token} \cup (IF r.certs /\ ~r.fileOpts /\ token # "noToken" THEN {"noCerts"} ELSE {})
    : r \in EntriesFor(name)}
Opened == {"plain", "token"}

-----------------------------------------------------------------------------
AtEntry == nextEntry \in DOMAIN Registries
Entry == Registries[nextEntry]

\* The loop of Serve: an entry without provider, or whose provider has been
\* initialized by an earlier entry.
SkipsEntry ==
  /\ AtEntry
  /\ \/ Entry.provider = NoProvider
     \/ Entry.provider \in Providers /\ Initialized(Entry.provider)
  /\ nextEntry' = nextEntry + 1
  /\ UNCHANGED tokens

\* auth.Init: the first token, and the refresher.
InitializesProvider ==
  /\ AtEntry /\ Entry.provider \in Providers /\ ~Initialized(Entry.provider)
  /\ tokens' = [tokens EXCEPT ![Entry.provider] = "fresh"]
  /\ nextEntry' = nextEntry + 1

\* The provider is unknown, or gives no token: Serve returns an error.
CannotAuthorize ==
  AtEntry /\ Entry.provider # NoProvider /\ ~(Entry.provider \in Providers /\ Initialized(Entry.provider))

\* tokenRefresher: the ticker has fired, and there is a new token ...
Refreshes(p) ==
  /\ Initialized(p)
  /\ tokens' = [tokens EXCEPT ![p] = "fresh"]
  /\ UNCHANGED nextEntry

\* ... or none: the old token is used until the next tick, whether or not the
\* upstream still accepts it.
RefreshFails(p) ==
  /\ Initialized(p)
  /\ tokens' = [tokens EXCEPT ![p] = "old"]
  /\ UNCHANGED nextEntry
=============================================================================
