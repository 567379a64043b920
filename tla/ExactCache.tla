------------------------------ MODULE ExactCache ------------------------------
(***************************************************************************)
(* cache/exact.ts over storage/repos/cache.ts: answers kept in the database *)
(* under the fingerprint of their request.  The fingerprint covers the     *)
(* model of the IR and the conversation but not the client's protocol, so  *)
(* requests of two protocols share an entry and replace each other's.  The *)
(* columns that only count hits are left out.                              *)
(***************************************************************************)
EXTENDS Integers

CONSTANTS Fingerprints,
          Protocols,    \* client protocols
          Responses,
          NoEntry,
          TtlMs         \* defaultTtlSeconds

Entry == [protocol: Protocols, response: Responses, expiresAt: Nat]

ASSUME CacheConfig == NoEntry \notin Entry /\ TtlMs \in Nat \ {0}

VARIABLE exact   \* cache_entries

CacheTypeOK == exact \in [Fingerprints -> Entry \cup {NoEntry}]

Empty == [f \in Fingerprints |-> NoEntry]

(* getByFingerprint *)
Live(f, t) == exact[f] # NoEntry /\ exact[f].expiresAt > t

(* mutant: the protocol is not compared *)
Hits_AnyProtocol(f, protocol, stream, t) == ~stream /\ Live(f, t)

(* lookup() *)
Hits(f, protocol, stream, t) ==
    ~stream /\ Live(f, t) /\ exact[f].protocol = protocol

(* put(): an entry that is there is replaced, expired or not. *)
Put(f, protocol, response, t) ==
    exact' = [exact EXCEPT ![f] = [protocol |-> protocol, response |-> response,
                                   expiresAt |-> t + TtlMs]]

(* clear() *)
Clear == exact' = Empty

(* prune() *)
Prune(t) == exact' = [f \in Fingerprints |-> IF Live(f, t) THEN exact[f] ELSE NoEntry]
=============================================================================
