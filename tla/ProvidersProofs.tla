--------------------------- MODULE ProvidersProofs ---------------------------
(***************************************************************************)
(* Providers keeps its types, and verifies a token only with a key that its *)
(* issuer has published, for any URLs, spellings and numbers of keys.  The *)
(* second rests on what a keyjar holds: KeysPublished.                     *)
(***************************************************************************)
EXTENDS Providers, TLAPS

(* The keys of a client are keys its issuer has published. *)
Sound(client, i) ==
  \A k \in client.keys : k.issuer = i /\ k.generation <= generation[i]
KeysPublished == \A i \in Issuer : Registered(i) => Sound(clients[i], i)

LEMMA DiscoveredIssuer == \A u \in Url : Discovered[u] \in Issuer /\ Discovered[u] \in Url
BY ProvidersAssumption DEF Issuer

(* What an issuer publishes are its own keys, none from the future. *)
LEMMA PublishedSound ==
  ASSUME TypeOK, NEW i \in Issuer
  PROVE  /\ Published(i) \in SUBSET Key
         /\ \A k \in Published(i) : k.issuer = i /\ k.generation <= generation[i]
<1>1. generation[i] \in Int
  BY ProvidersAssumption DEF TypeOK, Generation
<1> QED BY <1>1, ProvidersAssumption DEF Published, Key, Generation

(* Asking for the keys keeps a client well formed and sound. *)
LEMMA CachedSound ==
  ASSUME TypeOK, NEW i \in Issuer, Registered(i)
  PROVE  /\ Cached(i) \in Client
         /\ KeysPublished => Sound(Cached(i), i)
<1>1. clients[i] \in Client
  BY DEF TypeOK, Registered
<1>2. CASE ~clients[i].fresh /\ i \in up
  <2>1. Cached(i) = [keys |-> Published(i), fresh |-> TRUE]
    BY <1>2 DEF Cached
  <2> QED BY <2>1, PublishedSound DEF Client, Sound
<1>3. CASE ~(~clients[i].fresh /\ i \in up)
  <2>1. Cached(i) = clients[i]
    BY <1>3 DEF Cached
  <2> QED BY <2>1, <1>1 DEF KeysPublished
<1> QED BY <1>2, <1>3

LEMMA TypeInit == Init => TypeOK
BY ProvidersAssumption DEF Init, TypeOK, Generation

(* Each step keeps the types. *)
LEMMA TypeStep == TypeOK /\ [Next]_vars => TypeOK'
<1> SUFFICES ASSUME TypeOK, [Next]_vars PROVE TypeOK'
  OBVIOUS
<1> USE DEF TypeOK, world, process
<1>1. ASSUME NEW rows \in SUBSET Url, Loaded(rows) PROVE TypeOK'
  BY <1>1 DEF Loaded
<1>2. CASE Load
  BY <1>2, <1>1 DEF Load
<1>3. CASE LoadFails
  BY <1>3, <1>1 DEF LoadFails
<1>4. CASE RetrieveKeys
  <2>1. \A i \in Issuer :
          (IF Registered(i) THEN Cached(i) ELSE NoClient) \in Client \cup {NoClient}
    BY CachedSound
  <2> QED BY <1>4, <2>1 DEF RetrieveKeys
<1>5. CASE Recycle
  BY <1>5 DEF Recycle
<1>6. ASSUME NEW u \in Url, Configure(u) PROVE TypeOK'
  <2>1. [keys |-> {}, fresh |-> FALSE] \in Client
    BY DEF Client
  <2> QED BY <1>6, <2>1 DEF Configure
<1>7. ASSUME NEW u \in Url, ConfigureFails(u) PROVE TypeOK'
  BY <1>7 DEF ConfigureFails
<1>8. ASSUME NEW u \in Url, StoreRow(u) PROVE TypeOK'
  BY <1>8 DEF StoreRow
<1>9. ASSUME NEW token \in Token, Request(token) PROVE TypeOK'
  <2>1. token.iss \in Issuer /\ Registered(token.iss)
    BY <1>9 DEF Request, Supported
  <2>2. Cached(token.iss) \in Client
    BY <2>1, CachedSound
  <2> QED BY <1>9, <2>2 DEF Request
<1>10. ASSUME NEW i \in Issuer, KeysAge(i) PROVE TypeOK'
  <2>1. [keys |-> clients[i].keys, fresh |-> FALSE] \in Client
    BY <1>10 DEF KeysAge, Registered, Client
  <2> QED BY <1>10, <2>1 DEF KeysAge
<1>11. ASSUME NEW i \in Issuer, Switch(i) PROVE TypeOK'
  BY <1>11 DEF Switch
<1>12. ASSUME NEW i \in Issuer, Rotate(i) PROVE TypeOK'
  BY <1>12, ProvidersAssumption DEF Rotate, Generation
<1>13. CASE UNCHANGED vars
  BY <1>13 DEF vars
<1> QED
  BY <1>2, <1>3, <1>4, <1>5, <1>6, <1>7, <1>8, <1>9, <1>10, <1>11, <1>12, <1>13 DEF Next

(* Providers keeps its types: a process registers providers only while it  *)
(* is configured, and a client is a set of keys of some age (openidconnect *)
(* .py:26-48).                                                             *)
THEOREM ProvidersTypeCorrect == Spec => []TypeOK
BY TypeInit, TypeStep, PTL DEF Spec

LEMMA KeysInit == Init => KeysPublished
BY DEF Init, KeysPublished, Registered

(* Each step keeps the keyjars sound: keys are only added by asking their  *)
(* issuer, and issuers go on to later keys only.                           *)
LEMMA KeysStep == TypeOK /\ KeysPublished /\ [Next]_vars => KeysPublished'
<1> SUFFICES ASSUME TypeOK, KeysPublished, [Next]_vars PROVE KeysPublished'
  OBVIOUS
<1>1. CASE UNCHANGED <<clients, generation>>
  BY <1>1 DEF KeysPublished, Registered, Sound
<1>2. CASE RetrieveKeys
  <2> SUFFICES ASSUME NEW i \in Issuer, Registered(i)' PROVE Sound(clients[i], i)'
    BY DEF KeysPublished
  <2>1. Registered(i) /\ clients'[i] = Cached(i)
    BY <1>2 DEF RetrieveKeys, Registered
  <2>2. generation' = generation
    BY <1>2 DEF RetrieveKeys, world
  <2> QED BY <2>1, <2>2, CachedSound DEF Sound
<1>3. CASE Recycle
  BY <1>3 DEF Recycle, KeysPublished, Registered
<1>4. ASSUME NEW u \in Url, Configure(u) PROVE KeysPublished'
  BY <1>4, DiscoveredIssuer DEF Configure, KeysPublished, Registered, Sound, TypeOK, world
<1>5. ASSUME NEW token \in Token, Request(token) PROVE KeysPublished'
  <2>1. token.iss \in Issuer /\ Registered(token.iss)
    BY <1>5 DEF Request, Supported
  <2>2. Sound(Cached(token.iss), token.iss)
    BY <2>1, CachedSound
  <2> QED BY <1>5, <2>1, <2>2 DEF Request, KeysPublished, Registered, Sound, TypeOK, world
<1>6. ASSUME NEW i \in Issuer, KeysAge(i) PROVE KeysPublished'
  BY <1>6 DEF KeysAge, KeysPublished, Registered, Sound, TypeOK, world
<1>7. ASSUME NEW i \in Issuer, Rotate(i) PROVE KeysPublished'
  <2>1. \A j \in Issuer : generation[j] \in Int /\ generation'[j] \in Int
                          /\ generation[j] <= generation'[j]
    BY <1>7 DEF Rotate, TypeOK, Generation
  <2>2. \A j \in Issuer : Registered(j) => clients[j] \in Client
    BY DEF TypeOK, Registered
  <2>3. clients' = clients
    BY <1>7 DEF Rotate, process
  <2>4. \A k \in Key : k.generation \in Int
    BY DEF Key, Generation
  <2> QED BY <2>1, <2>2, <2>3, <2>4 DEF KeysPublished, Registered, Sound, Client
<1> QED
  BY <1>1, <1>2, <1>3, <1>4, <1>5, <1>6, <1>7
  DEF Next, vars, Load, LoadFails, Loaded, ConfigureFails, StoreRow, Switch, world, process

(* filter_provider_keys never returns more than the keys of the issuer. *)
LEMMA FilteredKeys == \A keys, token : Filtered(keys, token) \subseteq keys
BY DEF Filtered

LEMMA SoundVerifies == TypeOK /\ KeysPublished => VerifiedByIssuer
<1> SUFFICES ASSUME TypeOK, KeysPublished, NEW token \in Token, Verified(token)
             PROVE  token.key.issuer = token.iss /\ token.key.generation <= generation[token.iss]
  BY DEF VerifiedByIssuer
<1>1. token.iss \in Issuer /\ Registered(token.iss)
  BY DEF Verified, Supported
<1>2. token.key \in Cached(token.iss).keys
  BY FilteredKeys DEF Verified
<1> QED BY <1>1, <1>2, CachedSound DEF Sound

(* A token is verified only with a key that its issuer has published       *)
(* (openidconnect.py:83-101), for any providers, spellings and rotations.  *)
THEOREM VerifiedCorrect == Spec => []VerifiedByIssuer
<1>1. Init => KeysPublished
  BY KeysInit
<1>2. TypeOK /\ KeysPublished /\ [Next]_vars => KeysPublished'
  BY KeysStep
<1>3. TypeOK /\ KeysPublished => VerifiedByIssuer
  BY SoundVerifies
<1> QED BY <1>1, <1>2, <1>3, ProvidersTypeCorrect, PTL DEF Spec
=============================================================================
