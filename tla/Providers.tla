------------------------------ MODULE Providers ------------------------------
(***************************************************************************)
(* Which tokens a process of the FTS REST server accepts                   *)
(* (src/shared/patches/fts/middleware.py and openidconnect.py).  It reads  *)
(* the providers from the database and asks each for its discovery         *)
(* document once, while it starts; what did not answer by then is missing  *)
(* until it starts again.  Apache runs several such processes, which share *)
(* nothing but the database: this is one of them.  A process that is       *)
(* killed while it starts has only read, so it is one that starts later.   *)
(*                                                                         *)
(* The database, the providers and PyOIDC's keyjar are external.           *)
(***************************************************************************)
EXTENDS Integers, FiniteSets

CONSTANTS
  Url,           (* the issuer URLs, in any spelling                        *)
  Discovered,    (* the issuer that the discovery document at a URL names   *)
  MaxGeneration, (* bound: keys of a provider, one after another            *)
  NamesAlg,      (* the generations of keys whose JWK names an algorithm    *)
  NoClient       (* no client is registered                                 *)

Issuer == {Discovered[u] : u \in Url}
Generation == 1 .. MaxGeneration
Key == [issuer : Issuer, generation : Generation]

ASSUME ProvidersAssumption ==
  /\ Discovered \in [Url -> Url]
  /\ \A u \in Url : Discovered[Discovered[u]] = Discovered[u]
  /\ MaxGeneration \in Nat \ {0}
  /\ NamesAlg \subseteq Generation
  /\ NoClient \notin [keys : SUBSET Key, fresh : BOOLEAN]

VARIABLES
  table,      (* t_token_provider: the issuers stored                       *)
  up,         (* the issuers that answer requests                           *)
  generation, (* the current key of each issuer                             *)
  pc,         (* how far the process is                                     *)
  providers,  (* app.config["fts3.Providers"]: the issuers as they are stored *)
  todo,       (* the providers read and not yet registered                  *)
  clients     (* OIDCmanager.clients: the keys of each, and whether they    *)
              (* are younger than JWKCacheSeconds                           *)

vars == <<table, up, generation, pc, providers, todo, clients>>
process == <<pc, providers, todo, clients>>
world == <<table, up, generation>>

Client == [keys : SUBSET Key, fresh : BOOLEAN]
Registered(i) == clients[i] # NoClient

(* What an issuer publishes: its key and, after a rotation, the one before. *)
Published(i) ==
  {[issuer |-> i, generation |-> g] : g \in {generation[i] - 1, generation[i]} \cap Generation}

Init ==
  /\ table \in SUBSET Url
  /\ up \in SUBSET Issuer
  /\ generation = [i \in Issuer |-> 1]
  /\ pc = "down" /\ providers = {} /\ todo = {} /\ clients = [i \in Issuer |-> NoClient]

----------------------------------------------------------------------------
(* The start of the process: create_app and OIDCmanager.setup. *)

(* Mutant: requests are served while providers are still registered. *)
LoadedServing(rows) ==
  /\ pc = "down"
  /\ providers' = rows /\ todo' = rows
  /\ pc' = "serving"
  /\ UNCHANGED <<clients, world>>

(* Without providers, OpenID Connect is disabled. *)
Loaded(rows) ==
  /\ pc = "down"
  /\ providers' = rows /\ todo' = rows
  /\ pc' = IF rows = {} THEN "serving" ELSE "configuring"
  /\ UNCHANGED <<clients, world>>

Load == Loaded(table)

(* The query fails, or the connection breaks while the rows are read: the  *)
(* exception is logged, and what was read so far is used.                  *)
LoadFails == \E rows \in SUBSET table \ {table} : Loaded(rows)

(* A client is registered under the issuer that the provider names, which  *)
(* may not be the URL of the row.  Its keyjar is empty.                    *)
Configure(u) ==
  /\ pc = "configuring" /\ u \in todo
  /\ Discovered[u] \in up
  /\ clients' = [clients EXCEPT ![Discovered[u]] = [keys |-> {}, fresh |-> FALSE]]
  /\ todo' = todo \ {u}
  /\ UNCHANGED <<pc, providers, world>>

(* Mutant: the exception ends the loop over the providers. *)
ConfigureAborts(u) ==
  /\ pc = "configuring" /\ u \in todo
  /\ Discovered[u] \notin up
  /\ todo' = {}
  /\ UNCHANGED <<pc, providers, clients, world>>

(* The provider does not answer: it is logged and left out. *)
ConfigureFails(u) ==
  /\ pc = "configuring" /\ u \in todo
  /\ Discovered[u] \notin up
  /\ todo' = todo \ {u}
  /\ UNCHANGED <<pc, providers, clients, world>>

(* Mutant: keys are not asked for again once there are some. *)
CachedForEver(i) ==
  IF clients[i].keys = {} /\ i \in up THEN [keys |-> Published(i), fresh |-> TRUE]
  ELSE clients[i]

(* The keyjar: keys that are missing or older than the cache time are      *)
(* asked for; when that fails those at hand are used, until the next time. *)
Cached(i) ==
  IF ~clients[i].fresh /\ i \in up THEN [keys |-> Published(i), fresh |-> TRUE]
  ELSE clients[i]

(* All are registered: the cache time is set, then the keys are retrieved, *)
(* and the process serves requests.                                        *)
RetrieveKeys ==
  /\ pc = "configuring" /\ todo = {}
  /\ clients' = [i \in Issuer |-> IF Registered(i) THEN Cached(i) ELSE NoClient]
  /\ pc' = "serving"
  /\ UNCHANGED <<providers, todo, world>>

----------------------------------------------------------------------------
(* Requests. *)

(* A token: the claim iss as it is, the key it is signed with, and whether *)
(* its header names that key.                                              *)
Token == [iss : Url, key : Key, kid : BOOLEAN]

(* Mutant: if no filter matches, the keys of any provider will do. *)
FilteredAny(keys, token) ==
  LET match == {k \in keys : (token.kid /\ k = token.key) \/ k.generation \in NamesAlg}
  IN  IF match = {} THEN Key ELSE match

(* filter_provider_keys: by key id or algorithm, all keys if none matches. *)
Filtered(keys, token) ==
  LET match == {k \in keys : (token.kid /\ k = token.key) \/ k.generation \in NamesAlg}
  IN  IF match = {} THEN keys ELSE match

(* token_issuer_supported: no normalisation of the issuer. *)
Supported(iss) == pc = "serving" /\ iss \in Issuer /\ Registered(iss)

(* The signature is that of one of the keys. *)
Verified(token) ==
  Supported(token.iss) /\ token.key \in Filtered(Cached(token.iss).keys, token)

(* The server then looks the provider up under the claim iss as it is,      *)
(* which must be the spelling that is stored (middleware.py:70-72, 83-85). *)
Accepts(token) == Verified(token) /\ token.iss \in providers

(* A request with a token, of which only the cached keys remain. *)
Request(token) ==
  /\ Supported(token.iss)
  /\ clients' = [clients EXCEPT ![token.iss] = Cached(token.iss)]
  /\ UNCHANGED <<pc, providers, todo, world>>

(* JWKCacheSeconds have passed since the keys were retrieved. *)
KeysAge(i) ==
  /\ Registered(i) /\ clients[i].fresh
  /\ clients' = [clients EXCEPT ![i] = [keys |-> clients[i].keys, fresh |-> FALSE]]
  /\ UNCHANGED <<pc, providers, todo, world>>

(* Apache ends a process after maximum-requests, or is restarted. *)
Recycle ==
  /\ pc = "serving"
  /\ pc' = "down" /\ providers' = {} /\ todo' = {} /\ clients' = [i \in Issuer |-> NoClient]
  /\ UNCHANGED world

----------------------------------------------------------------------------
(* The operators and the providers. *)

StoreRow(u) ==
  /\ table' = IF u \in table THEN table \ {u} ELSE table \cup {u}
  /\ UNCHANGED <<up, generation, process>>

Switch(i) ==
  /\ up' = IF i \in up THEN up \ {i} ELSE up \cup {i}
  /\ UNCHANGED <<table, generation, process>>

Rotate(i) ==
  /\ generation[i] < MaxGeneration
  /\ generation' = [generation EXCEPT ![i] = generation[i] + 1]
  /\ UNCHANGED <<table, up, process>>

Next ==
  \/ Load \/ LoadFails \/ RetrieveKeys \/ Recycle
  \/ \E u \in Url : Configure(u) \/ ConfigureFails(u) \/ StoreRow(u)
  \/ \E token \in Token : Request(token)
  \/ \E i \in Issuer : KeysAge(i) \/ Switch(i) \/ Rotate(i)

Spec == Init /\ [][Next]_vars

(* The process starts by itself, a query that is repeated does not fail    *)
(* every time, and time passes.  Nothing makes providers answer, requests  *)
(* come or Apache restart.                                                 *)
FairSpec ==
  /\ Spec
  /\ WF_vars(\E u \in Url : Configure(u) \/ ConfigureFails(u))
  /\ WF_vars(Load \/ LoadFails) /\ SF_vars(Load) /\ WF_vars(RetrieveKeys)
  /\ \A i \in Issuer : WF_vars(KeysAge(i))

----------------------------------------------------------------------------

TypeOK ==
  /\ table \in SUBSET Url
  /\ up \in SUBSET Issuer
  /\ generation \in [Issuer -> Generation]
  /\ pc \in {"down", "configuring", "serving"}
  /\ providers \in SUBSET Url
  /\ todo \in SUBSET Url /\ (todo # {} => pc = "configuring")
  /\ clients \in [Issuer -> Client \cup {NoClient}]

(* A token is verified only if its issuer has published the key it is      *)
(* signed with, although filter_provider_keys falls back to all keys: a    *)
(* key of another provider, or one not published yet, is never enough.     *)
VerifiedByIssuer ==
  \A token \in Token : Verified(token) =>
    /\ token.key.issuer = token.iss
    /\ token.key.generation <= generation[token.iss]

Current(i) == [iss |-> i, key |-> [issuer |-> i, generation |-> generation[i]], kid |-> TRUE]

(* A provider that is stored as its tokens spell it, and answers, is        *)
(* accepted by a process that is recycled now and then, in whatever other   *)
(* spellings it is stored besides, and whether or not others answer.  One   *)
(* that is stored only in another spelling is never accepted.               *)
ProviderAccepted ==
  \A i \in Issuer :
    /\ <>[](i \in table \cap up)
    /\ []<>(pc = "down")
    => []<>Accepts(Current(i))

(* A process that knows a provider follows the rotation of its keys by     *)
(* itself: sooner or later it verifies the tokens signed with the new key. *)
RotationFollowed ==
  \A i \in Issuer :
    <>[](i \in up /\ Supported(i)) => <>[]Verified(Current(i))
=============================================================================
