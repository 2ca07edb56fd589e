------------------------------ MODULE DataKeys ------------------------------
(***************************************************************************)
(* Envelope encryption in one backend process.  A secret is encrypted with *)
(* a data key that the key provider (Cloud KMS, or a local master key) has *)
(* wrapped, and the envelope carries the wrapped key.  The process keeps   *)
(* one data key to encrypt with, and the data keys it unwrapped, for five  *)
(* minutes; handlers encrypt and decrypt concurrently.                     *)
(*                                                                         *)
(* Data keys are Buffers in memory, which the caches and the handlers      *)
(* share, and which clearing the caches fills with zeros in place.  A key  *)
(* is named by the buffer it was generated into, and a wrapped key by the  *)
(* key the provider finds in it.                                           *)
(***************************************************************************)
EXTENDS Integers, Sequences

CONSTANTS
    Workers,     \* calls of encrypt or decrypt that can be in flight at once
    None,        \* null: nothing cached, nothing returned
    KeyTtl,      \* DEK_CACHE_TTL_MS, in ticks
    MaxKeyCall,  \* bound: ticks a call of the key provider takes
    MaxClock,    \* bound: ticks that pass
    MaxBuffers,  \* bound: buffers allocated for keys
    MaxClears    \* bound: calls of clearKeyCache

ASSUME KeyAssumption ==
    /\ KeyTtl \in Nat \ {0}
    /\ {MaxKeyCall, MaxClock, MaxBuffers, MaxClears} \subseteq Nat

Buffers == 1..MaxBuffers
Keys    == Buffers
Zeros   == 0                    \* what a buffer holds after fill(0)
Ticks   == 0..MaxClock

VARIABLES
    memory,       \* the content of each buffer allocated so far
    currentDek,   \* the key to encrypt with, or None
    unwrapCache,  \* per wrapped key its unwrapped copy, or None
    h,            \* the calls of encrypt and decrypt
    envelopes,    \* the envelopes in the database
    now,
    result,       \* what encrypt or decrypt did in the last step, if it ended
    \* History: when each key was generated, and the calls of clearKeyCache.
    born, clears

cacheVars == <<currentDek, unwrapCache>>
history   == <<born, clears>>
vars == <<memory, cacheVars, h, envelopes, now, result, history>>

(* An envelope: the wrapped key it carries, the key its text is encrypted    *)
(* with, and whether the caches were cleared while the call had it in hand.  *)
Envelope == [wrapped: Keys, key: Keys \cup {Zeros}, cleared: BOOLEAN]

Stages == {"idle", "wrap", "encrypt", "unwrap", "decrypt"}
Call == [stage: Stages, buffer: Buffers \cup {0}, wrapped: Keys \cup {0},
         envelope: Envelope \cup {None}, since: Ticks, cleared: BOOLEAN]
Idle == [stage |-> "idle", buffer |-> 0, wrapped |-> 0, envelope |-> None,
         since |-> 0, cleared |-> FALSE]

TypeOK ==
    /\ memory \in Seq(Keys \cup {Zeros}) /\ Len(memory) <= MaxBuffers
    /\ currentDek = None \/ currentDek \in [buffer: DOMAIN memory, wrapped: DOMAIN memory,
                                            createdAt: Ticks]
    /\ unwrapCache \in [Keys -> [buffer: DOMAIN memory, createdAt: Ticks] \cup {None}]
    /\ h \in [Workers -> Call] /\ \A w \in Workers : h[w].buffer <= Len(memory)
    /\ envelopes \subseteq Envelope
    /\ now \in Ticks /\ born \in [Keys -> Ticks] /\ clears \in 0..MaxClears
    /\ result = None \/ result.envelope \in envelopes

-----------------------------------------------------------------------------
Init ==
    /\ memory = <<>>
    /\ currentDek = None
    /\ unwrapCache = [k \in Keys |-> None]
    /\ h = [w \in Workers |-> Idle]
    /\ envelopes = {}
    /\ now = 0 /\ result = None
    /\ born = [k \in Keys |-> 0] /\ clears = 0

At(w, stage) == h[w].stage = stage
GoTo(w, call) == h' = [h EXCEPT ![w] = call]

\* Mutant: the time a cached key was stored is forgotten.
FreshForever(entry) == entry # None

Fresh(entry) == IF entry = None THEN FALSE ELSE now - entry.createdAt < KeyTtl

(* Time passes during calls of the provider only.                            *)
Tick ==
    /\ now < MaxClock
    /\ \A w \in Workers : \/ At(w, "idle")
                          \/ h[w].stage \in {"wrap", "unwrap"} /\ now - h[w].since < MaxKeyCall
    /\ now' = now + 1
    /\ result' = None
    /\ UNCHANGED <<memory, cacheVars, h, envelopes, history>>

Holding(stage, buffer, wrapped, envelope) ==
    [stage |-> stage, buffer |-> buffer, wrapped |-> wrapped, envelope |-> envelope,
     since |-> now, cleared |-> FALSE]

-----------------------------------------------------------------------------
(* encrypt: with the cached key, or one of its own that the provider has to  *)
(* wrap first.  Calls that find no fresh key each generate one.              *)
EncryptCached(w) ==
    /\ At(w, "idle") /\ Fresh(currentDek)
    /\ GoTo(w, Holding("encrypt", currentDek.buffer, currentDek.wrapped, None))
    /\ result' = None
    /\ UNCHANGED <<memory, cacheVars, envelopes, now, history>>

GenerateKey(w) ==
    LET k == Len(memory) + 1
    IN /\ At(w, "idle") /\ ~ Fresh(currentDek)
       /\ k \in Buffers
       /\ memory' = Append(memory, k)
       /\ born' = [born EXCEPT ![k] = now]
       /\ GoTo(w, Holding("wrap", k, k, None))
       /\ result' = None
       /\ UNCHANGED <<cacheVars, envelopes, now, clears>>

\* Mutant: a key cached meanwhile is used, with the wrapped key of this call.
StoreFirstKey(w) ==
    /\ At(w, "wrap")
    /\ currentDek' = IF Fresh(currentDek) THEN currentDek
                     ELSE [buffer |-> h[w].buffer, wrapped |-> h[w].wrapped, createdAt |-> now]
    /\ GoTo(w, [h[w] EXCEPT !.stage = "encrypt", !.buffer = currentDek'.buffer])
    /\ result' = None
    /\ UNCHANGED <<memory, unwrapCache, envelopes, now, history>>

\* Mutant: the wrapped key is looked up as if it were a buffer.
StoreUnnumbered(w) ==
    /\ At(w, "wrap")
    /\ currentDek' = [buffer |-> h[w].buffer + 1, wrapped |-> h[w].wrapped, createdAt |-> now]
    /\ GoTo(w, [h[w] EXCEPT !.stage = "encrypt"])
    /\ result' = None
    /\ UNCHANGED <<memory, unwrapCache, envelopes, now, history>>

(* wrapDek returned: the key replaces whatever is cached by now.             *)
StoreKey(w) ==
    /\ At(w, "wrap")
    /\ currentDek' = [buffer |-> h[w].buffer, wrapped |-> h[w].wrapped, createdAt |-> now]
    /\ GoTo(w, [h[w] EXCEPT !.stage = "encrypt"])
    /\ result' = None
    /\ UNCHANGED <<memory, unwrapCache, envelopes, now, history>>

(* The rest of encrypt, once it has been resumed with the key.               *)
Encrypt(w) ==
    /\ At(w, "encrypt")
    /\ LET e == [wrapped |-> h[w].wrapped, key |-> memory[h[w].buffer],
                 cleared |-> h[w].cleared]
       IN /\ envelopes' = envelopes \cup {e}
          /\ result' = [call |-> "encrypt", envelope |-> e,
                        keyAge |-> now - born[h[w].wrapped]]
    /\ GoTo(w, Idle)
    /\ UNCHANGED <<memory, cacheVars, now, history>>

-----------------------------------------------------------------------------
(* decrypt: the wrapped key in the envelope is unwrapped, or was.            *)
DecryptCached(w, e) ==
    /\ At(w, "idle") /\ Fresh(unwrapCache[e.wrapped])
    /\ GoTo(w, Holding("decrypt", unwrapCache[e.wrapped].buffer, e.wrapped, e))
    /\ result' = None
    /\ UNCHANGED <<memory, cacheVars, envelopes, now, history>>

AskUnwrap(w, e) ==
    /\ At(w, "idle") /\ ~ Fresh(unwrapCache[e.wrapped])
    /\ GoTo(w, Holding("unwrap", 0, e.wrapped, e))
    /\ result' = None
    /\ UNCHANGED <<memory, cacheVars, envelopes, now, history>>

\* Mutant: the unwrapped key is the key to use for every envelope.
StoreForAll(w) ==
    LET b == Len(memory) + 1
    IN /\ At(w, "unwrap")
       /\ b \in Buffers
       /\ memory' = Append(memory, h[w].wrapped)
       /\ unwrapCache' = [k \in Keys |-> [buffer |-> b, createdAt |-> now]]
       /\ GoTo(w, [h[w] EXCEPT !.stage = "decrypt", !.buffer = b])
       /\ result' = None
       /\ UNCHANGED <<currentDek, envelopes, now, history>>

(* unwrapDek returned: a copy of the key, in a buffer of its own.            *)
StoreUnwrapped(w) ==
    LET b == Len(memory) + 1
    IN /\ At(w, "unwrap")
       /\ b \in Buffers
       /\ memory' = Append(memory, h[w].wrapped)
       /\ unwrapCache' = [unwrapCache EXCEPT ![h[w].wrapped] = [buffer |-> b, createdAt |-> now]]
       /\ GoTo(w, [h[w] EXCEPT !.stage = "decrypt", !.buffer = b])
       /\ result' = None
       /\ UNCHANGED <<currentDek, envelopes, now, history>>

(* The rest of decrypt: the authentication tag tells a wrong key.            *)
Decrypt(w) ==
    /\ At(w, "decrypt")
    /\ result' = [call |-> "decrypt", envelope |-> h[w].envelope,
                  cleared |-> h[w].cleared,
                  ok |-> memory[h[w].buffer] = h[w].envelope.key]
    /\ GoTo(w, Idle)
    /\ UNCHANGED <<memory, cacheVars, envelopes, now, history>>

-----------------------------------------------------------------------------
(* The provider fails, and the call throws.                                  *)
FailKeyCall(w) ==
    /\ h[w].stage \in {"wrap", "unwrap"}
    /\ GoTo(w, Idle)
    /\ result' = None
    /\ UNCHANGED <<memory, cacheVars, envelopes, now, history>>

(* The keys in the caches are overwritten where they are, whoever holds them.*)
Cached == {currentDek.buffer : x \in {currentDek} \ {None}}
             \cup {unwrapCache[k].buffer : k \in {x \in Keys : unwrapCache[x] # None}}
ClearKeyCache ==
    /\ clears < MaxClears
    /\ clears' = clears + 1
    /\ memory' = [b \in DOMAIN memory |-> IF b \in Cached THEN Zeros ELSE memory[b]]
    /\ currentDek' = None
    /\ unwrapCache' = [k \in Keys |-> None]
    /\ h' = [w \in Workers |-> IF h[w].stage \in {"encrypt", "decrypt"}
                                THEN [h[w] EXCEPT !.cleared = TRUE] ELSE h[w]]
    /\ result' = None
    /\ UNCHANGED <<envelopes, now, born>>

(* The process is replaced.  The envelopes stay.                             *)
Restart ==
    /\ currentDek' = None
    /\ unwrapCache' = [k \in Keys |-> None]
    /\ h' = [w \in Workers |-> Idle]
    /\ result' = None
    /\ UNCHANGED <<memory, envelopes, now, history>>

Next ==
    \/ Tick \/ ClearKeyCache \/ Restart
    \/ \E w \in Workers :
          \/ EncryptCached(w) \/ GenerateKey(w) \/ StoreKey(w) \/ Encrypt(w)
          \/ StoreUnwrapped(w) \/ Decrypt(w) \/ FailKeyCall(w)
    \/ \E w \in Workers, e \in envelopes : DecryptCached(w, e) \/ AskUnwrap(w, e)

Spec == Init /\ [][Next]_vars

-----------------------------------------------------------------------------
(* An envelope carries the key its text is encrypted with, whichever calls   *)
(* found the cache expired at once, whichever stored its key last, and       *)
(* whatever was restarted.  Only a call that had its key in hand when the    *)
(* caches were cleared may have encrypted with zeros, and then nobody can    *)
(* read its envelope again.                                                  *)
EnvelopesCarryTheirKey ==
    \A e \in envelopes : e.key = e.wrapped \/ (e.cleared /\ e.key = Zeros)

(* A decryption the provider answers returns the text, with old keys and new *)
(* ones, before and after a restart, unless the envelope or the call was hit *)
(* by a clearing of the caches.                                              *)
DecryptionsSucceed ==
    result # None /\ result.call = "decrypt" =>
        result.ok \/ result.cleared \/ result.envelope.key = Zeros

(* A data key encrypts for the life of the cache and the call that wrapped   *)
(* it, and no longer, however often it is used and whichever call stored it. *)
KeysRotate ==
    result # None /\ result.call = "encrypt" =>
        result.keyAge < KeyTtl + MaxKeyCall

=============================================================================
