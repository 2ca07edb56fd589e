--------------------------- MODULE DataKeysProofs ---------------------------
(* Theorems about DataKeys for every number of calls, buffers and clearings, *)
(* every life of the cache and every delay of the key provider.              *)
EXTENDS DataKeys, SequenceTheorems, TLAPS

USE KeyAssumption

(* What the buffers hold: a key, or zeros.                                   *)
Contents == Keys \cup {Zeros}

LEMMA MemoryType ==
  ASSUME TypeOK
  PROVE  /\ Len(memory) \in Nat /\ DOMAIN memory = 1..Len(memory)
         /\ \A b \in DOMAIN memory : memory[b] \in Contents
         /\ DOMAIN memory \subseteq Buffers
<1>1. memory \in Seq(Contents) /\ Len(memory) <= MaxBuffers
  BY DEF TypeOK, Contents
<1>2. Len(memory) \in Nat /\ memory \in [1..Len(memory) -> Contents]
  BY <1>1, LenProperties, Zenon
<1> QED BY <1>1, <1>2 DEF Buffers

(* A buffer is allocated behind the others.                                  *)
LEMMA Allocated ==
  ASSUME TypeOK, NEW key \in Contents, Len(memory) + 1 \in Buffers,
         memory' = Append(memory, key)
  PROVE  /\ memory' \in Seq(Contents) /\ Len(memory') = Len(memory) + 1
         /\ DOMAIN memory' = 1..Len(memory) + 1 /\ Len(memory') <= MaxBuffers
         /\ \A b \in DOMAIN memory : memory'[b] = memory[b]
         /\ memory'[Len(memory) + 1] = key
<1>1. memory \in Seq(Contents)
  BY DEF TypeOK, Contents
<1>2. /\ memory' \in Seq(Contents) /\ Len(memory') = Len(memory) + 1
      /\ \A b \in 1..Len(memory) : memory'[b] = memory[b]
      /\ memory'[Len(memory) + 1] = key
  BY <1>1, AppendProperties
<1>3. DOMAIN memory' = 1..Len(memory')
  BY <1>2, LenProperties, Zenon
<1> QED BY <1>2, <1>3, MemoryType DEF Buffers

(* Clearing the caches fills buffers, and frees none.                        *)
LEMMA Filled ==
  ASSUME TypeOK,
         memory' = [b \in DOMAIN memory |-> IF b \in Cached THEN Zeros ELSE memory[b]]
  PROVE  /\ memory' \in Seq(Contents) /\ Len(memory') = Len(memory)
         /\ DOMAIN memory' = DOMAIN memory
         /\ \A b \in DOMAIN memory : /\ b \in Cached => memory'[b] = Zeros
                                     /\ b \notin Cached => memory'[b] = memory[b]
<1>1. memory' \in [1..Len(memory) -> Contents] /\ Len(memory) \in Nat
  BY MemoryType DEF Contents
<1>2. memory' \in Seq(Contents)
  BY <1>1, SeqDef
<1>3. Len(memory') = Len(memory)
  BY <1>1, <1>2, LenProperties
<1> QED BY <1>1, <1>2, <1>3, MemoryType

-----------------------------------------------------------------------------
(* A call has in hand what its stage needs: buffers and keys that exist, the *)
(* envelope it was given, and its wrapped key.                               *)
InHand(w) ==
    /\ h[w].stage \in {"wrap", "encrypt", "decrypt"} => h[w].buffer \in DOMAIN memory
    /\ h[w].stage # "idle" => h[w].wrapped \in DOMAIN memory
    /\ h[w].stage \in {"unwrap", "decrypt"} =>
          h[w].envelope \in envelopes /\ h[w].envelope.wrapped = h[w].wrapped

TypeInv ==
    /\ TypeOK
    /\ \A w \in Workers : InHand(w)
    /\ \A e \in envelopes : e.wrapped \in DOMAIN memory

LEMMA IdleType == Idle \in Call
  BY DEF Idle, Call, Stages, Buffers, Keys, Ticks

LEMMA TypeInit == ASSUME Init PROVE TypeInv
<1>1. memory \in Seq(Contents) /\ Len(memory) = 0 /\ DOMAIN memory = {}
  <2>1. memory \in Seq(Contents) /\ Len(memory) = 0
    BY DEF Init
  <2> QED BY <2>1, LenProperties
<1>2. TypeOK
  BY <1>1, IdleType DEF Init, TypeOK, Contents, Keys, Ticks, Idle
<1>3. \A w \in Workers : InHand(w)
  BY DEF Init, InHand, Idle
<1> QED BY <1>2, <1>3 DEF TypeInv, Init

(* Steps that allocate nothing and fill nothing keep everything in hand that *)
(* a call does not change itself.                                            *)
LEMMA CallStep ==
  ASSUME TypeInv, NEW w \in Workers, NEW call \in Call, GoTo(w, call)
  PROVE  /\ h' \in [Workers -> Call] /\ h'[w] = call
         /\ \A v \in Workers \ {w} : h'[v] = h[v]
  BY DEF TypeInv, TypeOK, GoTo

LEMMA HoldingType ==
  ASSUME TypeInv, NEW stage \in Stages, NEW buffer \in Buffers \cup {0},
         NEW wrapped \in Keys, NEW envelope \in Envelope \cup {None}
  PROVE  /\ Holding(stage, buffer, wrapped, envelope) \in Call
         /\ Holding(stage, buffer, wrapped, envelope).stage = stage
         /\ Holding(stage, buffer, wrapped, envelope).buffer = buffer
         /\ Holding(stage, buffer, wrapped, envelope).wrapped = wrapped
         /\ Holding(stage, buffer, wrapped, envelope).envelope = envelope
         /\ Holding(stage, buffer, wrapped, envelope).since = now
<1>1. now \in Ticks
  BY DEF TypeInv, TypeOK
<1> QED BY <1>1 DEF Holding, Call

(* A step that keeps the buffers and the envelopes, and caches what exists.  *)
LEMMA KeptStep ==
  ASSUME TypeInv, UNCHANGED <<memory, envelopes>>,
         h' \in [Workers -> Call],
         \A w \in Workers : h'[w].buffer <= Len(memory) /\ InHand(w)',
         currentDek' = None \/ currentDek' \in [buffer: DOMAIN memory, wrapped: DOMAIN memory,
                                                createdAt: Ticks],
         unwrapCache' \in [Keys -> [buffer: DOMAIN memory, createdAt: Ticks] \cup {None}],
         now' \in Ticks, born' \in [Keys -> Ticks], clears' \in 0..MaxClears,
         result' = None \/ result'.envelope \in envelopes
  PROVE  TypeInv'
  BY DEF TypeInv, TypeOK

LEMMA TypeStep == ASSUME TypeInv, [Next]_vars PROVE TypeInv'
<1> USE DEF TypeInv
<1>0. /\ Len(memory) \in Nat /\ DOMAIN memory = 1..Len(memory)
      /\ DOMAIN memory \subseteq Buffers /\ DOMAIN memory \subseteq Keys
      /\ \A w \in Workers : h[w] \in Call /\ InHand(w)
  BY MemoryType DEF TypeOK, Keys
<1>1. CASE Tick
  <2>1. now + 1 \in Ticks
    BY <1>1 DEF Tick, Ticks, TypeOK
  <2>2. UNCHANGED <<memory, currentDek, unwrapCache, h, envelopes, born, clears>>
    BY <1>1 DEF Tick, cacheVars, history
  <2>3. \A w \in Workers : h'[w].buffer <= Len(memory) /\ InHand(w)'
    BY <2>2 DEF InHand, TypeOK
  <2> QED BY <1>1, <2>1, <2>2, <2>3, KeptStep DEF Tick, TypeOK
<1>2. ASSUME NEW w \in Workers, EncryptCached(w) PROVE TypeInv'
  <2>1. /\ UNCHANGED <<memory, currentDek, unwrapCache, envelopes, now, born, clears>>
        /\ result' = None
    BY <1>2 DEF EncryptCached, cacheVars, history
  <2>2. currentDek.buffer \in DOMAIN memory /\ currentDek.wrapped \in DOMAIN memory
    BY <1>2 DEF EncryptCached, Fresh, TypeOK
  <2> DEFINE call == Holding("encrypt", currentDek.buffer, currentDek.wrapped, None)
  <2>3. /\ call \in Call /\ call.stage = "encrypt" /\ call.buffer = currentDek.buffer
        /\ call.wrapped = currentDek.wrapped
    <3>1. "encrypt" \in Stages /\ currentDek.buffer \in Buffers /\ currentDek.wrapped \in Keys
      BY <1>0, <2>2 DEF Stages
    <3> QED BY <3>1, HoldingType
  <2>4. GoTo(w, call)
    BY <1>2 DEF EncryptCached
  <2> HIDE DEF call
  <2>5. \A v \in Workers : h'[v].buffer <= Len(memory) /\ InHand(v)'
    BY <1>0, <2>1, <2>2, <2>3, <2>4, CallStep DEF InHand, TypeOK
  <2> QED BY <2>1, <2>3, <2>4, <2>5, CallStep, KeptStep DEF TypeOK
<1>3. ASSUME NEW w \in Workers, GenerateKey(w) PROVE TypeInv'
  <2> DEFINE k == Len(memory) + 1
             call == Holding("wrap", k, k, None)
  <2>1. /\ UNCHANGED <<currentDek, unwrapCache, envelopes, now, clears>> /\ result' = None
        /\ k \in Buffers /\ memory' = Append(memory, k) /\ GoTo(w, call)
        /\ born' = [born EXCEPT ![k] = now]
    BY <1>3 DEF GenerateKey, cacheVars
  <2>2. /\ memory' \in Seq(Contents) /\ Len(memory') = k /\ DOMAIN memory' = 1..k
        /\ Len(memory') <= MaxBuffers
    BY <2>1, Allocated DEF Contents, Keys
  <2>3. /\ call \in Call /\ call.stage = "wrap" /\ call.buffer = k /\ call.wrapped = k
    <3>1. "wrap" \in Stages /\ k \in Buffers /\ k \in Keys
      BY <2>1 DEF Stages, Keys
    <3> QED BY <3>1, HoldingType
  <2> HIDE DEF call
  <2>4. ASSUME NEW v \in Workers PROVE h'[v].buffer <= Len(memory') /\ InHand(v)'
    <3>1. CASE v = w
      BY <1>0, <2>1, <2>2, <2>3, <3>1, CallStep DEF InHand
    <3>2. CASE v # w
      <4>1. h'[v] = h[v] /\ h[v].buffer <= Len(memory) /\ h[v].buffer \in Int
        BY <1>0, <2>1, <2>3, <3>2, CallStep DEF TypeOK, Call, Buffers
      <4> QED BY <1>0, <2>1, <2>2, <4>1 DEF InHand
    <3> QED BY <3>1, <3>2
  <2>5. DOMAIN memory \subseteq DOMAIN memory'
    BY <1>0, <2>2
  <2>6. currentDek' = None \/ currentDek' \in [buffer: DOMAIN memory', wrapped: DOMAIN memory',
                                               createdAt: Ticks]
    BY <2>1, <2>5 DEF TypeOK
  <2>7. unwrapCache' \in [Keys -> [buffer: DOMAIN memory', createdAt: Ticks] \cup {None}]
    <3>1. [buffer: DOMAIN memory, createdAt: Ticks] \subseteq [buffer: DOMAIN memory', createdAt: Ticks]
      BY <2>5
    <3> QED BY <2>1, <3>1 DEF TypeOK
  <2>8. TypeOK'
    BY <2>1, <2>2, <2>3, <2>4, <2>6, <2>7, CallStep DEF TypeOK, Contents
  <2> QED BY <2>1, <2>4, <2>5, <2>8
<1>4. ASSUME NEW w \in Workers, StoreKey(w) PROVE TypeInv'
  <2> DEFINE call == [h[w] EXCEPT !.stage = "encrypt"]
  <2>1. /\ UNCHANGED <<memory, unwrapCache, envelopes, now, born, clears>>
        /\ result' = None /\ h[w].stage = "wrap"
        /\ currentDek' = [buffer |-> h[w].buffer, wrapped |-> h[w].wrapped, createdAt |-> now]
        /\ GoTo(w, call)
    BY <1>4 DEF StoreKey, history, At
  <2>2. /\ call \in Call /\ call.stage = "encrypt" /\ call.buffer = h[w].buffer
        /\ call.wrapped = h[w].wrapped
    BY <1>0 DEF Call, Stages
  <2> HIDE DEF call
  <2>3. h[w].buffer \in DOMAIN memory /\ h[w].wrapped \in DOMAIN memory
    BY <1>0, <2>1 DEF InHand
  <2>4. \A v \in Workers : h'[v].buffer <= Len(memory) /\ InHand(v)'
    BY <1>0, <2>1, <2>2, <2>3, CallStep DEF InHand, TypeOK
  <2> QED BY <2>1, <2>2, <2>3, <2>4, CallStep, KeptStep DEF TypeOK
<1>5. ASSUME NEW w \in Workers, Encrypt(w) PROVE TypeInv'
  <2> DEFINE e == [wrapped |-> h[w].wrapped, key |-> memory[h[w].buffer], cleared |-> h[w].cleared]
  <2>1. /\ UNCHANGED <<memory, currentDek, unwrapCache, now, born, clears>>
        /\ h[w].stage = "encrypt" /\ GoTo(w, Idle)
        /\ envelopes' = envelopes \cup {e} /\ result'.envelope = e
    BY <1>5 DEF Encrypt, cacheVars, history, At
  <2>2. h[w].buffer \in DOMAIN memory /\ h[w].wrapped \in DOMAIN memory
    BY <1>0, <2>1 DEF InHand
  <2>3. e \in Envelope /\ e.wrapped \in DOMAIN memory
    BY <1>0, <2>2, MemoryType DEF Envelope, Contents, Call
  <2> HIDE DEF e
  <2>4. \A v \in Workers : h'[v].buffer <= Len(memory) /\ InHand(v)'
    BY <1>0, <2>1, IdleType, CallStep DEF InHand, TypeOK, Idle
  <2> QED BY <2>1, <2>3, <2>4, IdleType, CallStep DEF TypeOK
<1>6. ASSUME NEW w \in Workers, NEW e \in envelopes, DecryptCached(w, e) PROVE TypeInv'
  <2> DEFINE b == unwrapCache[e.wrapped].buffer
             call == Holding("decrypt", b, e.wrapped, e)
  <2>1. /\ UNCHANGED <<memory, currentDek, unwrapCache, envelopes, now, born, clears>>
        /\ result' = None /\ GoTo(w, call)
    BY <1>6 DEF DecryptCached, cacheVars, history
  <2>2. b \in DOMAIN memory /\ e \in Envelope /\ e.wrapped \in DOMAIN memory
    BY <1>0, <1>6 DEF DecryptCached, Fresh, TypeOK
  <2>3. /\ call \in Call /\ call.stage = "decrypt" /\ call.buffer = b
        /\ call.wrapped = e.wrapped /\ call.envelope = e
    <3>1. "decrypt" \in Stages /\ b \in Buffers /\ e.wrapped \in Keys
      BY <1>0, <2>2 DEF Stages
    <3> QED BY <2>2, <3>1, HoldingType
  <2> HIDE DEF call, b
  <2>4. \A v \in Workers : h'[v].buffer <= Len(memory) /\ InHand(v)'
    BY <1>0, <2>1, <2>2, <2>3, CallStep DEF InHand, TypeOK
  <2> QED BY <2>1, <2>3, <2>4, CallStep, KeptStep DEF TypeOK
<1>7. ASSUME NEW w \in Workers, NEW e \in envelopes, AskUnwrap(w, e) PROVE TypeInv'
  <2> DEFINE call == Holding("unwrap", 0, e.wrapped, e)
  <2>1. /\ UNCHANGED <<memory, currentDek, unwrapCache, envelopes, now, born, clears>>
        /\ result' = None /\ GoTo(w, call)
    BY <1>7 DEF AskUnwrap, cacheVars, history
  <2>2. e \in Envelope /\ e.wrapped \in DOMAIN memory
    BY <1>7 DEF TypeOK
  <2>3. /\ call \in Call /\ call.stage = "unwrap" /\ call.buffer = 0
        /\ call.wrapped = e.wrapped /\ call.envelope = e
    <3>1. "unwrap" \in Stages /\ e.wrapped \in Keys
      BY <1>0, <2>2 DEF Stages
    <3> QED BY <2>2, <3>1, HoldingType
  <2> HIDE DEF call
  <2>4. \A v \in Workers : h'[v].buffer <= Len(memory) /\ InHand(v)'
    BY <1>0, <2>1, <2>2, <2>3, CallStep, SMTT(40) DEF InHand, TypeOK
  <2> QED BY <2>1, <2>3, <2>4, CallStep, KeptStep DEF TypeOK
<1>8. ASSUME NEW w \in Workers, StoreUnwrapped(w) PROVE TypeInv'
  <2> DEFINE b == Len(memory) + 1
             call == [h[w] EXCEPT !.stage = "decrypt", !.buffer = b]
  <2>1. /\ UNCHANGED <<currentDek, envelopes, now, born, clears>> /\ result' = None
        /\ h[w].stage = "unwrap" /\ b \in Buffers /\ memory' = Append(memory, h[w].wrapped)
        /\ unwrapCache' = [unwrapCache EXCEPT ![h[w].wrapped] = [buffer |-> b, createdAt |-> now]]
        /\ GoTo(w, call)
    BY <1>8 DEF StoreUnwrapped, history, At
  <2>2. h[w].wrapped \in DOMAIN memory
    BY <1>0, <2>1 DEF InHand
  <2>3. /\ memory' \in Seq(Contents) /\ Len(memory') = b /\ DOMAIN memory' = 1..b
        /\ Len(memory') <= MaxBuffers
    BY <1>0, <2>1, <2>2, Allocated DEF Contents
  <2>4. /\ call \in Call /\ call.stage = "decrypt" /\ call.buffer = b
        /\ call.wrapped = h[w].wrapped /\ call.envelope = h[w].envelope
    BY <1>0, <2>1 DEF Call, Stages
  <2> HIDE DEF call
  <2>5. ASSUME NEW v \in Workers PROVE h'[v].buffer <= Len(memory') /\ InHand(v)'
    <3>1. CASE v = w
      BY <1>0, <2>1, <2>2, <2>3, <2>4, <3>1, CallStep DEF InHand
    <3>2. CASE v # w
      <4>1. h'[v] = h[v] /\ h[v].buffer <= Len(memory) /\ h[v].buffer \in Int
        BY <1>0, <2>1, <2>4, <3>2, CallStep DEF TypeOK, Call, Buffers
      <4> QED BY <1>0, <2>1, <2>3, <4>1 DEF InHand
    <3> QED BY <3>1, <3>2
  <2>6. DOMAIN memory \subseteq DOMAIN memory' /\ b \in DOMAIN memory'
    BY <1>0, <2>3
  <2>7. currentDek' = None \/ currentDek' \in [buffer: DOMAIN memory', wrapped: DOMAIN memory',
                                               createdAt: Ticks]
    BY <2>1, <2>6 DEF TypeOK
  <2>8. unwrapCache' \in [Keys -> [buffer: DOMAIN memory', createdAt: Ticks] \cup {None}]
    <3>1. [buffer: DOMAIN memory, createdAt: Ticks] \subseteq [buffer: DOMAIN memory', createdAt: Ticks]
      BY <2>6
    <3>2. [buffer |-> b, createdAt |-> now] \in [buffer: DOMAIN memory', createdAt: Ticks]
      BY <2>6 DEF TypeOK
    <3> QED BY <2>1, <3>1, <3>2 DEF TypeOK
  <2>9. TypeOK'
    BY <2>1, <2>3, <2>4, <2>5, <2>7, <2>8, CallStep DEF TypeOK, Contents
  <2> QED BY <2>1, <2>5, <2>6, <2>9
<1>9. ASSUME NEW w \in Workers, Decrypt(w) PROVE TypeInv'
  <2>1. /\ UNCHANGED <<memory, currentDek, unwrapCache, envelopes, now, born, clears>>
        /\ h[w].stage = "decrypt" /\ GoTo(w, Idle) /\ result'.envelope = h[w].envelope
    BY <1>9 DEF Decrypt, cacheVars, history, At
  <2>2. \A v \in Workers : h'[v].buffer <= Len(memory) /\ InHand(v)'
    BY <1>0, <2>1, IdleType, CallStep DEF InHand, TypeOK, Idle
  <2>3. result'.envelope \in envelopes
    BY <1>0, <2>1 DEF InHand
  <2> QED BY <2>1, <2>2, <2>3, IdleType, CallStep, KeptStep DEF TypeOK
<1>10. ASSUME NEW w \in Workers, FailKeyCall(w) PROVE TypeInv'
  <2>1. /\ UNCHANGED <<memory, currentDek, unwrapCache, envelopes, now, born, clears>>
        /\ GoTo(w, Idle) /\ result' = None
    BY <1>10 DEF FailKeyCall, cacheVars, history
  <2>2. \A v \in Workers : h'[v].buffer <= Len(memory) /\ InHand(v)'
    BY <1>0, <2>1, IdleType, CallStep DEF InHand, TypeOK, Idle
  <2> QED BY <2>1, <2>2, IdleType, CallStep, KeptStep DEF TypeOK
<1>11. CASE ClearKeyCache
  <2>1. /\ UNCHANGED <<envelopes, now, born>> /\ result' = None
        /\ memory' = [b \in DOMAIN memory |-> IF b \in Cached THEN Zeros ELSE memory[b]]
        /\ currentDek' = None /\ unwrapCache' = [k \in Keys |-> None]
        /\ h' = [w \in Workers |-> IF h[w].stage \in {"encrypt", "decrypt"}
                                     THEN [h[w] EXCEPT !.cleared = TRUE] ELSE h[w]]
    BY <1>11 DEF ClearKeyCache
  <2>2. clears' \in 0..MaxClears
    BY <1>11 DEF ClearKeyCache, TypeOK
  <2>3. memory' \in Seq(Contents) /\ Len(memory') = Len(memory) /\ DOMAIN memory' = DOMAIN memory
    BY <2>1, Filled
  <2>4. h' \in [Workers -> Call] /\ \A v \in Workers :
            /\ h'[v].stage = h[v].stage /\ h'[v].buffer = h[v].buffer
            /\ h'[v].wrapped = h[v].wrapped /\ h'[v].envelope = h[v].envelope
    BY <1>0, <2>1 DEF Call
  <2>5. TypeOK'
    BY <2>1, <2>2, <2>3, <2>4 DEF TypeOK, Contents
  <2> QED BY <1>0, <2>1, <2>3, <2>4, <2>5 DEF InHand
<1>12. CASE Restart
  <2>1. /\ UNCHANGED <<memory, envelopes, now, born, clears>> /\ result' = None
        /\ currentDek' = None /\ unwrapCache' = [k \in Keys |-> None]
        /\ h' = [w \in Workers |-> Idle]
    BY <1>12 DEF Restart, history
  <2>2. \A v \in Workers : h'[v].buffer <= Len(memory) /\ InHand(v)'
    BY <1>0, <2>1 DEF InHand, Idle
  <2>3. h' \in [Workers -> Call] /\ unwrapCache' \in [Keys -> {None}]
    BY <2>1, IdleType
  <2> QED BY <2>1, <2>2, <2>3, KeptStep DEF TypeOK
<1>13. CASE UNCHANGED vars
  BY <1>13 DEF vars, cacheVars, history, TypeOK, InHand
<1> QED BY <1>1, <1>2, <1>3, <1>4, <1>5, <1>6, <1>7, <1>8, <1>9, <1>10, <1>11, <1>12, <1>13
        DEF Next

(* Buffers, caches and calls are what they are said to be: in particular no  *)
(* call and no cache entry points outside the memory.                        *)
THEOREM TypeCorrect == Spec => []TypeInv
  BY TypeInit, TypeStep, PTL DEF Spec

(* The type invariant alone, as the run checks it.                           *)
THEOREM TypesHold == Spec => []TypeOK
  BY TypeCorrect, PTL DEF TypeInv

-----------------------------------------------------------------------------
(* What a buffer holds is the key it is used for, or zeros once the call was *)
(* hit by a clearing of the caches.  A key that is still being wrapped is    *)
(* known to its own call only, so that no clearing reaches it.               *)
Wrapping(w) ==
    h[w].stage = "wrap" =>
        /\ memory[h[w].buffer] = h[w].wrapped
        /\ h[w].buffer \notin Cached
        /\ \A v \in Workers \ {w} : h[v].stage = "wrap" => h[v].buffer # h[w].buffer

HoldsKey(w) ==
    h[w].stage \in {"encrypt", "decrypt"} =>
        \/ memory[h[w].buffer] = h[w].wrapped
        \/ h[w].cleared /\ memory[h[w].buffer] = Zeros

CacheHoldsKeys ==
    /\ currentDek # None => memory[currentDek.buffer] = currentDek.wrapped
    /\ \A k \in Keys : unwrapCache[k] # None => memory[unwrapCache[k].buffer] = k

KeyInv ==
    /\ \A w \in Workers : Wrapping(w) /\ HoldsKey(w)
    /\ CacheHoldsKeys
    /\ EnvelopesCarryTheirKey
    /\ DecryptionsSucceed

(* A step of call w that leaves memory and caches alone.                     *)
LEMMA KeptKeys ==
  ASSUME TypeInv, KeyInv, NEW w \in Workers,
         UNCHANGED <<memory, currentDek, unwrapCache>>,
         \A v \in Workers \ {w} : h'[v] = h[v],
         h'[w].stage # "wrap", HoldsKey(w)',
         EnvelopesCarryTheirKey', DecryptionsSucceed'
  PROVE  KeyInv'
<1>1. \A v \in Workers : Wrapping(v)'
  BY DEF KeyInv, Wrapping, Cached
<1>2. \A v \in Workers : HoldsKey(v)'
  BY DEF KeyInv, HoldsKey
<1>3. CacheHoldsKeys'
  BY DEF KeyInv, CacheHoldsKeys
<1> QED BY <1>1, <1>2, <1>3 DEF KeyInv

(* A call that ends holds nothing.                                           *)
LEMMA EndedCall ==
  ASSUME TypeInv, NEW w \in Workers, GoTo(w, Idle)
  PROVE  /\ \A v \in Workers \ {w} : h'[v] = h[v]
         /\ h'[w].stage # "wrap" /\ HoldsKey(w)'
  BY IdleType, CallStep DEF Idle, HoldsKey

LEMMA KeyStep == ASSUME TypeInv, KeyInv, [Next]_vars PROVE KeyInv'
<1>0. /\ Len(memory) \in Nat /\ DOMAIN memory = 1..Len(memory)
      /\ DOMAIN memory \subseteq Buffers /\ DOMAIN memory \subseteq Keys
      /\ \A w \in Workers : h[w] \in Call /\ InHand(w)
  BY MemoryType DEF TypeInv, TypeOK, Keys
<1>1. CASE Tick
  BY <1>1 DEF Tick, cacheVars, KeyInv, Wrapping, HoldsKey, CacheHoldsKeys, Cached,
              EnvelopesCarryTheirKey, DecryptionsSucceed
<1>2. ASSUME NEW w \in Workers, EncryptCached(w) PROVE KeyInv'
  <2> DEFINE call == Holding("encrypt", currentDek.buffer, currentDek.wrapped, None)
  <2>1. /\ UNCHANGED <<memory, currentDek, unwrapCache, envelopes>>
        /\ result' = None /\ currentDek # None /\ GoTo(w, call)
    BY <1>2 DEF EncryptCached, cacheVars, Fresh
  <2>2. /\ call \in Call /\ call.stage = "encrypt" /\ call.buffer = currentDek.buffer
        /\ call.wrapped = currentDek.wrapped
    <3>1. "encrypt" \in Stages /\ currentDek.buffer \in Buffers /\ currentDek.wrapped \in Keys
      BY <1>0, <2>1 DEF Stages, TypeInv, TypeOK
    <3> QED BY <3>1, HoldingType
  <2> HIDE DEF call
  <2>3. HoldsKey(w)' /\ h'[w].stage # "wrap" /\ \A v \in Workers \ {w} : h'[v] = h[v]
    BY <2>1, <2>2, CallStep DEF HoldsKey, KeyInv, CacheHoldsKeys
  <2> QED BY <2>1, <2>3, KeptKeys DEF KeyInv, EnvelopesCarryTheirKey, DecryptionsSucceed
<1>3. ASSUME NEW w \in Workers, GenerateKey(w) PROVE KeyInv'
  <2> DEFINE k == Len(memory) + 1
             call == Holding("wrap", k, k, None)
  <2>1. /\ UNCHANGED <<currentDek, unwrapCache, envelopes>> /\ result' = None
        /\ k \in Buffers /\ memory' = Append(memory, k) /\ GoTo(w, call)
    BY <1>3 DEF GenerateKey, cacheVars
  <2>2. memory'[k] = k /\ \A b \in DOMAIN memory : memory'[b] = memory[b]
    BY <2>1, Allocated DEF TypeInv, Contents, Keys
  <2>3. /\ call \in Call /\ call.stage = "wrap" /\ call.buffer = k /\ call.wrapped = k
    <3>1. "wrap" \in Stages /\ k \in Buffers /\ k \in Keys
      BY <2>1 DEF Stages, Keys
    <3> QED BY <3>1, HoldingType
  <2> HIDE DEF call
  <2>4. h'[w] = call /\ \A v \in Workers \ {w} : h'[v] = h[v]
    BY <2>1, <2>3, CallStep
  <2>5. /\ currentDek # None => currentDek.buffer \in DOMAIN memory
        /\ \A x \in Keys : unwrapCache[x] # None => unwrapCache[x].buffer \in DOMAIN memory
    BY DEF TypeInv, TypeOK
  <2>6. CacheHoldsKeys'
    BY <2>1, <2>2, <2>5 DEF KeyInv, CacheHoldsKeys
  <2>7. Cached' = Cached /\ k \notin Cached
    BY <1>0, <2>1, <2>5 DEF Cached
  <2>8. ASSUME NEW v \in Workers PROVE Wrapping(v)' /\ HoldsKey(v)'
    <3>1. \A u \in Workers : h[u].stage = "wrap" => h[u].buffer # k
      BY <1>0 DEF InHand
    <3>2. CASE v = w
      BY <2>2, <2>3, <2>4, <2>7, <3>1, <3>2 DEF Wrapping, HoldsKey
    <3>3. CASE v # w
      <4>1. h'[v] = h[v] /\ Wrapping(v) /\ HoldsKey(v)
        BY <2>4, <3>3 DEF KeyInv
      <4>2. h[v].stage \in {"wrap", "encrypt", "decrypt"} => memory'[h[v].buffer] = memory[h[v].buffer]
        BY <1>0, <2>2 DEF InHand
      <4> QED BY <2>3, <2>4, <2>7, <3>1, <3>3, <4>1, <4>2 DEF Wrapping, HoldsKey
    <3> QED BY <3>2, <3>3
  <2> QED BY <2>1, <2>6, <2>8 DEF KeyInv, EnvelopesCarryTheirKey, DecryptionsSucceed
<1>4. ASSUME NEW w \in Workers, StoreKey(w) PROVE KeyInv'
  <2> DEFINE call == [h[w] EXCEPT !.stage = "encrypt"]
  <2>1. /\ UNCHANGED <<memory, unwrapCache, envelopes>>
        /\ result' = None /\ h[w].stage = "wrap"
        /\ currentDek' = [buffer |-> h[w].buffer, wrapped |-> h[w].wrapped, createdAt |-> now]
        /\ GoTo(w, call)
    BY <1>4 DEF StoreKey, At
  <2>2. /\ call \in Call /\ call.stage = "encrypt" /\ call.buffer = h[w].buffer
        /\ call.wrapped = h[w].wrapped
    BY <1>0 DEF Call, Stages
  <2> HIDE DEF call
  <2>3. h'[w] = call /\ \A v \in Workers \ {w} : h'[v] = h[v]
    BY <2>1, <2>2, CallStep
  <2>4. Wrapping(w)
    BY DEF KeyInv
  <2>5. CacheHoldsKeys'
    BY <2>1, <2>4 DEF KeyInv, CacheHoldsKeys, Wrapping
  <2>6. \A b : b \in Cached' => b \in Cached \/ b = h[w].buffer
    BY <2>1 DEF Cached
  <2>7. ASSUME NEW v \in Workers PROVE Wrapping(v)' /\ HoldsKey(v)'
    BY <2>1, <2>2, <2>3, <2>4, <2>6 DEF KeyInv, Wrapping, HoldsKey
  <2> QED BY <2>1, <2>5, <2>7 DEF KeyInv, EnvelopesCarryTheirKey, DecryptionsSucceed
<1>5. ASSUME NEW w \in Workers, Encrypt(w) PROVE KeyInv'
  <2> DEFINE e == [wrapped |-> h[w].wrapped, key |-> memory[h[w].buffer], cleared |-> h[w].cleared]
  <2>1. /\ UNCHANGED <<memory, currentDek, unwrapCache>>
        /\ h[w].stage = "encrypt" /\ GoTo(w, Idle)
        /\ envelopes' = envelopes \cup {e} /\ result'.call = "encrypt"
    BY <1>5 DEF Encrypt, cacheVars, At
  <2>2. HoldsKey(w)
    BY DEF KeyInv
  <2>3. EnvelopesCarryTheirKey' /\ DecryptionsSucceed'
    BY <2>1, <2>2 DEF KeyInv, HoldsKey, EnvelopesCarryTheirKey, DecryptionsSucceed
  <2> QED BY <2>1, <2>3, EndedCall, KeptKeys
<1>6. ASSUME NEW w \in Workers, NEW e \in envelopes, DecryptCached(w, e) PROVE KeyInv'
  <2> DEFINE b == unwrapCache[e.wrapped].buffer
             call == Holding("decrypt", b, e.wrapped, e)
  <2>1. /\ UNCHANGED <<memory, currentDek, unwrapCache, envelopes>>
        /\ result' = None /\ GoTo(w, call) /\ unwrapCache[e.wrapped] # None
    BY <1>6 DEF DecryptCached, cacheVars, Fresh
  <2>2. b \in DOMAIN memory /\ e \in Envelope /\ e.wrapped \in DOMAIN memory
    BY <1>0, <2>1 DEF TypeInv, TypeOK
  <2>3. /\ call \in Call /\ call.stage = "decrypt" /\ call.buffer = b
        /\ call.wrapped = e.wrapped
    <3>1. "decrypt" \in Stages /\ b \in Buffers /\ e.wrapped \in Keys
      BY <1>0, <2>2 DEF Stages
    <3> QED BY <2>2, <3>1, HoldingType
  <2>4. memory[b] = e.wrapped
    BY <1>0, <2>1, <2>2 DEF KeyInv, CacheHoldsKeys
  <2> HIDE DEF call, b
  <2>5. HoldsKey(w)' /\ h'[w].stage # "wrap" /\ \A v \in Workers \ {w} : h'[v] = h[v]
    BY <2>1, <2>3, <2>4, CallStep DEF HoldsKey
  <2> QED BY <2>1, <2>5, KeptKeys DEF KeyInv, EnvelopesCarryTheirKey, DecryptionsSucceed
<1>7. ASSUME NEW w \in Workers, NEW e \in envelopes, AskUnwrap(w, e) PROVE KeyInv'
  <2> DEFINE call == Holding("unwrap", 0, e.wrapped, e)
  <2>1. /\ UNCHANGED <<memory, currentDek, unwrapCache, envelopes>>
        /\ result' = None /\ GoTo(w, call)
    BY <1>7 DEF AskUnwrap, cacheVars
  <2>2. call \in Call /\ call.stage = "unwrap"
    <3>1. "unwrap" \in Stages /\ e.wrapped \in Keys /\ e \in Envelope
      BY <1>0 DEF Stages, TypeInv, TypeOK
    <3>2. 0 \in Buffers \cup {0} /\ e \in Envelope \cup {None}
      BY <3>1
    <3> QED BY <3>1, <3>2, HoldingType
  <2> HIDE DEF call
  <2>3. HoldsKey(w)' /\ h'[w].stage # "wrap" /\ \A v \in Workers \ {w} : h'[v] = h[v]
    BY <2>1, <2>2, CallStep DEF HoldsKey
  <2> QED BY <2>1, <2>3, KeptKeys DEF KeyInv, EnvelopesCarryTheirKey, DecryptionsSucceed
<1>8. ASSUME NEW w \in Workers, StoreUnwrapped(w) PROVE KeyInv'
  <2> DEFINE b == Len(memory) + 1
             call == [h[w] EXCEPT !.stage = "decrypt", !.buffer = b]
  <2>1. /\ UNCHANGED <<currentDek, envelopes>> /\ result' = None
        /\ h[w].stage = "unwrap" /\ b \in Buffers /\ memory' = Append(memory, h[w].wrapped)
        /\ unwrapCache' = [unwrapCache EXCEPT ![h[w].wrapped] = [buffer |-> b, createdAt |-> now]]
        /\ GoTo(w, call)
    BY <1>8 DEF StoreUnwrapped, At
  <2>2. h[w].wrapped \in DOMAIN memory /\ h[w].wrapped \in Contents
    BY <1>0, <2>1 DEF InHand, Contents
  <2>3. memory'[b] = h[w].wrapped /\ \A x \in DOMAIN memory : memory'[x] = memory[x]
    BY <2>1, <2>2, Allocated DEF TypeInv
  <2>4. /\ call \in Call /\ call.stage = "decrypt" /\ call.buffer = b
        /\ call.wrapped = h[w].wrapped
    BY <1>0, <2>1 DEF Call, Stages
  <2> HIDE DEF call
  <2>5. h'[w] = call /\ \A v \in Workers \ {w} : h'[v] = h[v]
    BY <2>1, <2>4, CallStep
  <2>6. /\ currentDek # None => currentDek.buffer \in DOMAIN memory
        /\ \A x \in Keys : unwrapCache[x] # None => unwrapCache[x].buffer \in DOMAIN memory
        /\ unwrapCache \in [Keys -> [buffer: DOMAIN memory, createdAt: Ticks] \cup {None}]
    BY DEF TypeInv, TypeOK
  <2>7. CacheHoldsKeys'
    BY <2>1, <2>3, <2>6 DEF KeyInv, CacheHoldsKeys
  <2>8. \A x : x \in Cached' => x \in Cached \/ x = b
    BY <2>1, <2>6 DEF Cached
  <2>9. ASSUME NEW v \in Workers PROVE Wrapping(v)' /\ HoldsKey(v)'
    <3>1. \A u \in Workers : h[u].stage = "wrap" => h[u].buffer # b
      BY <1>0 DEF InHand
    <3>2. CASE v = w
      BY <2>3, <2>4, <2>5, <3>2 DEF Wrapping, HoldsKey
    <3>3. CASE v # w
      <4>1. h'[v] = h[v] /\ Wrapping(v) /\ HoldsKey(v)
        BY <2>5, <3>3 DEF KeyInv
      <4>2. h[v].stage \in {"wrap", "encrypt", "decrypt"} => memory'[h[v].buffer] = memory[h[v].buffer]
        BY <1>0, <2>3 DEF InHand
      <4> QED BY <2>4, <2>5, <2>8, <3>1, <4>1, <4>2 DEF Wrapping, HoldsKey
    <3> QED BY <3>2, <3>3
  <2> QED BY <2>1, <2>7, <2>9 DEF KeyInv, EnvelopesCarryTheirKey, DecryptionsSucceed
<1>9. ASSUME NEW w \in Workers, Decrypt(w) PROVE KeyInv'
  <2> DEFINE e == h[w].envelope
  <2>1. /\ UNCHANGED <<memory, currentDek, unwrapCache, envelopes>>
        /\ h[w].stage = "decrypt" /\ GoTo(w, Idle)
        /\ result' = [call |-> "decrypt", envelope |-> e, cleared |-> h[w].cleared,
                      ok |-> memory[h[w].buffer] = e.key]
    BY <1>9 DEF Decrypt, cacheVars, At
  <2>2. HoldsKey(w) /\ e \in envelopes /\ e.wrapped = h[w].wrapped
    BY <1>0, <2>1 DEF KeyInv, InHand
  <2>3. memory[h[w].buffer] = e.key \/ h[w].cleared \/ e.key = Zeros
    BY <2>1, <2>2 DEF KeyInv, HoldsKey, EnvelopesCarryTheirKey
  <2>4. DecryptionsSucceed' /\ EnvelopesCarryTheirKey'
    BY <2>1, <2>3 DEF DecryptionsSucceed, KeyInv, EnvelopesCarryTheirKey
  <2> QED BY <2>1, <2>4, EndedCall, KeptKeys
<1>10. ASSUME NEW w \in Workers, FailKeyCall(w) PROVE KeyInv'
  <2>1. /\ UNCHANGED <<memory, currentDek, unwrapCache, envelopes>>
        /\ GoTo(w, Idle) /\ result' = None
    BY <1>10 DEF FailKeyCall, cacheVars
  <2> QED BY <2>1, EndedCall, KeptKeys DEF KeyInv, EnvelopesCarryTheirKey, DecryptionsSucceed
<1>11. CASE ClearKeyCache
  <2>1. /\ UNCHANGED envelopes /\ result' = None
        /\ memory' = [b \in DOMAIN memory |-> IF b \in Cached THEN Zeros ELSE memory[b]]
        /\ currentDek' = None /\ unwrapCache' = [k \in Keys |-> None]
        /\ h' = [w \in Workers |-> IF h[w].stage \in {"encrypt", "decrypt"}
                                     THEN [h[w] EXCEPT !.cleared = TRUE] ELSE h[w]]
    BY <1>11 DEF ClearKeyCache
  <2>2. \A b \in DOMAIN memory : /\ b \in Cached => memory'[b] = Zeros
                                 /\ b \notin Cached => memory'[b] = memory[b]
    BY <2>1
  <2>3. Cached' = {}
    BY <2>1 DEF Cached
  <2>4. \A v \in Workers :
            /\ h'[v].stage = h[v].stage /\ h'[v].buffer = h[v].buffer
            /\ h'[v].wrapped = h[v].wrapped
            /\ h[v].stage \in {"encrypt", "decrypt"} => h'[v].cleared
    BY <1>0, <2>1 DEF Call
  <2>5. ASSUME NEW v \in Workers PROVE Wrapping(v)' /\ HoldsKey(v)'
    <3>1. Wrapping(v) /\ HoldsKey(v) /\ InHand(v)
      BY <1>0 DEF KeyInv
    <3>2. Wrapping(v)'
      BY <2>2, <2>3, <2>4, <3>1 DEF Wrapping, InHand
    <3>3. HoldsKey(v)'
      BY <2>2, <2>4, <3>1 DEF HoldsKey, InHand
    <3> QED BY <3>2, <3>3
  <2>6. CacheHoldsKeys'
    BY <2>1 DEF CacheHoldsKeys
  <2> QED BY <2>1, <2>5, <2>6 DEF KeyInv, EnvelopesCarryTheirKey, DecryptionsSucceed
<1>12. CASE Restart
  <2>1. /\ UNCHANGED <<memory, envelopes>> /\ result' = None
        /\ currentDek' = None /\ unwrapCache' = [k \in Keys |-> None]
        /\ h' = [w \in Workers |-> Idle]
    BY <1>12 DEF Restart
  <2>2. \A v \in Workers : Wrapping(v)' /\ HoldsKey(v)'
    BY <2>1 DEF Wrapping, HoldsKey, Idle
  <2>3. CacheHoldsKeys'
    BY <2>1 DEF CacheHoldsKeys
  <2> QED BY <2>1, <2>2, <2>3 DEF KeyInv, EnvelopesCarryTheirKey, DecryptionsSucceed
<1>13. CASE UNCHANGED vars
  BY <1>13 DEF vars, cacheVars, KeyInv, Wrapping, HoldsKey, CacheHoldsKeys, Cached,
               EnvelopesCarryTheirKey, DecryptionsSucceed
<1> QED BY <1>1, <1>2, <1>3, <1>4, <1>5, <1>6, <1>7, <1>8, <1>9, <1>10, <1>11, <1>12, <1>13
        DEF Next

LEMMA KeyInit == ASSUME Init PROVE KeyInv
  BY DEF Init, KeyInv, Wrapping, HoldsKey, CacheHoldsKeys, EnvelopesCarryTheirKey,
         DecryptionsSucceed, Idle

(* The buffer a call or a cache entry points to holds the key it is used     *)
(* for, or zeros where clearKeyCache hit the call; a key still being wrapped *)
(* is in no cache.                                                           *)
THEOREM KeyInvariant == Spec => []KeyInv
  BY KeyInit, KeyStep, TypeCorrect, PTL DEF Spec

(* Every envelope ever written carries the key of its text, unless its call  *)
(* was hit by a clearing of the caches.                                      *)
THEOREM EnvelopesKeepTheirKey == Spec => []EnvelopesCarryTheirKey
  BY KeyInvariant, PTL DEF KeyInv

(* Every decryption the key provider answers returns the text.               *)
THEOREM DecryptionsNeverFail == Spec => []DecryptionsSucceed
  BY KeyInvariant, PTL DEF KeyInv

-----------------------------------------------------------------------------
(* The age of keys: a call waits for the provider MaxKeyCall at most, the    *)
(* cached key is used until KeyTtl after it was stored, and a call that has  *)
(* a key in hand encrypts before time passes.                                *)
CallAge(w) ==
    /\ h[w].stage \in {"wrap", "unwrap"} =>
          h[w].since <= now /\ now - h[w].since <= MaxKeyCall
    /\ h[w].stage = "wrap" => born[h[w].wrapped] = h[w].since
    /\ h[w].stage = "encrypt" => now - born[h[w].wrapped] < KeyTtl + MaxKeyCall

DekAge == currentDek # None =>
    currentDek.createdAt - born[currentDek.wrapped] <= MaxKeyCall

AgeInv == (\A w \in Workers : CallAge(w)) /\ DekAge /\ KeysRotate

(* A step of call w that generates no key, caches none, and takes no time.   *)
LEMMA KeptAge ==
  ASSUME TypeInv, AgeInv, NEW w \in Workers,
         UNCHANGED <<born, now>>, currentDek' = currentDek \/ currentDek' = None,
         \A v \in Workers \ {w} : h'[v] = h[v], CallAge(w)', KeysRotate'
  PROVE  AgeInv'
<1>1. \A v \in Workers : CallAge(v)'
  BY DEF AgeInv, CallAge
<1>2. DekAge'
  BY DEF AgeInv, DekAge
<1> QED BY <1>1, <1>2 DEF AgeInv

LEMMA AgeStep == ASSUME TypeInv, AgeInv, [Next]_vars PROVE AgeInv'
<1>0. /\ Len(memory) \in Nat /\ DOMAIN memory = 1..Len(memory)
      /\ DOMAIN memory \subseteq Buffers /\ DOMAIN memory \subseteq Keys
      /\ \A w \in Workers : h[w] \in Call /\ InHand(w)
  BY MemoryType DEF TypeInv, TypeOK, Keys
<1>1. now \in Nat /\ (\A k \in Keys : born[k] \in Nat) /\ (\A w \in Workers : h[w].since \in Nat)
  BY <1>0 DEF TypeInv, TypeOK, Ticks, Call
<1>2. CASE Tick
  <2>1. /\ UNCHANGED <<h, currentDek, born>> /\ now' = now + 1 /\ result' = None
        /\ \A v \in Workers : \/ h[v].stage = "idle"
                              \/ h[v].stage \in {"wrap", "unwrap"} /\ now - h[v].since < MaxKeyCall
    BY <1>2 DEF Tick, cacheVars, history, At
  <2>2. \A v \in Workers : CallAge(v)'
    BY <1>1, <2>1 DEF AgeInv, CallAge
  <2> QED BY <2>1, <2>2 DEF AgeInv, DekAge, KeysRotate
<1>3. ASSUME NEW w \in Workers, EncryptCached(w) PROVE AgeInv'
  <2> DEFINE call == Holding("encrypt", currentDek.buffer, currentDek.wrapped, None)
  <2>1. /\ UNCHANGED <<currentDek, born, now>> /\ result' = None /\ GoTo(w, call)
        /\ currentDek # None /\ now - currentDek.createdAt < KeyTtl
    BY <1>3 DEF EncryptCached, cacheVars, history, Fresh
  <2>2. /\ "encrypt" \in Stages /\ currentDek.buffer \in Buffers /\ currentDek.wrapped \in Keys
        /\ currentDek.createdAt \in Nat
    BY <1>0, <2>1 DEF Stages, TypeInv, TypeOK, Ticks
  <2>3. call \in Call /\ call.stage = "encrypt" /\ call.wrapped = currentDek.wrapped
    BY <2>2, HoldingType
  <2> HIDE DEF call
  <2>4. now - born[call.wrapped] < KeyTtl + MaxKeyCall
    BY <1>1, <2>1, <2>2, <2>3 DEF AgeInv, DekAge
  <2>5. CallAge(w)' /\ \A v \in Workers \ {w} : h'[v] = h[v]
    BY <2>1, <2>3, <2>4, CallStep DEF CallAge
  <2> QED BY <2>1, <2>5, KeptAge DEF KeysRotate
<1>4. ASSUME NEW w \in Workers, GenerateKey(w) PROVE AgeInv'
  <2> DEFINE k == Len(memory) + 1
             call == Holding("wrap", k, k, None)
  <2>1. /\ UNCHANGED <<currentDek, now>> /\ result' = None
        /\ k \in Buffers /\ GoTo(w, call) /\ born' = [born EXCEPT ![k] = now]
    BY <1>4 DEF GenerateKey, cacheVars
  <2>2. call \in Call /\ call.stage = "wrap" /\ call.wrapped = k /\ call.since = now
    <3>1. "wrap" \in Stages /\ k \in Buffers /\ k \in Keys
      BY <2>1 DEF Stages, Keys
    <3> QED BY <3>1, HoldingType
  <2> HIDE DEF call
  <2>3. h'[w] = call /\ \A v \in Workers \ {w} : h'[v] = h[v]
    BY <2>1, <2>2, CallStep
  <2>4. born'[k] = now /\ \A x \in DOMAIN memory : born'[x] = born[x]
    BY <1>0, <2>1 DEF TypeInv, TypeOK, Keys
  <2>5. ASSUME NEW v \in Workers PROVE CallAge(v)'
    <3>1. CASE v = w
      BY <1>1, <2>1, <2>2, <2>3, <2>4, <3>1 DEF CallAge
    <3>2. CASE v # w
      BY <1>0, <2>1, <2>3, <2>4, <3>2, SMTT(40) DEF AgeInv, CallAge, InHand
    <3> QED BY <3>1, <3>2
  <2>6. DekAge'
    BY <2>1, <2>4 DEF AgeInv, DekAge, TypeInv, TypeOK
  <2> QED BY <2>1, <2>5, <2>6 DEF AgeInv, KeysRotate
<1>5. ASSUME NEW w \in Workers, StoreKey(w) PROVE AgeInv'
  <2> DEFINE call == [h[w] EXCEPT !.stage = "encrypt"]
  <2>1. /\ UNCHANGED <<born, now>> /\ result' = None /\ h[w].stage = "wrap"
        /\ currentDek' = [buffer |-> h[w].buffer, wrapped |-> h[w].wrapped, createdAt |-> now]
        /\ GoTo(w, call)
    BY <1>5 DEF StoreKey, history, At
  <2>2. call \in Call /\ call.stage = "encrypt" /\ call.wrapped = h[w].wrapped
    BY <1>0 DEF Call, Stages
  <2> HIDE DEF call
  <2>3. h'[w] = call /\ \A v \in Workers \ {w} : h'[v] = h[v]
    BY <2>1, <2>2, CallStep
  <2>4. now - born[h[w].wrapped] <= MaxKeyCall
    BY <1>1, <2>1 DEF AgeInv, CallAge
  <2>5. h[w].wrapped \in Keys
    BY <1>0, <2>1 DEF InHand
  <2>6. \A v \in Workers : CallAge(v)'
    BY <1>1, <2>1, <2>2, <2>3, <2>4, <2>5 DEF AgeInv, CallAge
  <2>7. DekAge'
    BY <2>1, <2>4 DEF DekAge
  <2> QED BY <2>1, <2>6, <2>7 DEF AgeInv, KeysRotate
<1>6. ASSUME NEW w \in Workers, Encrypt(w) PROVE AgeInv'
  <2>1. /\ UNCHANGED <<currentDek, born, now>> /\ h[w].stage = "encrypt" /\ GoTo(w, Idle)
        /\ result'.keyAge = now - born[h[w].wrapped]
    BY <1>6 DEF Encrypt, cacheVars, history, At
  <2>2. KeysRotate'
    BY <2>1 DEF AgeInv, CallAge, KeysRotate
  <2>3. CallAge(w)' /\ \A v \in Workers \ {w} : h'[v] = h[v]
    BY <2>1, IdleType, CallStep DEF CallAge, Idle
  <2> QED BY <2>1, <2>2, <2>3, KeptAge
<1>7. ASSUME NEW w \in Workers, NEW e \in envelopes, DecryptCached(w, e) PROVE AgeInv'
  <2> DEFINE b == unwrapCache[e.wrapped].buffer
             call == Holding("decrypt", b, e.wrapped, e)
  <2>1. /\ UNCHANGED <<currentDek, born, now>> /\ result' = None /\ GoTo(w, call)
        /\ unwrapCache[e.wrapped] # None
    BY <1>7 DEF DecryptCached, cacheVars, history, Fresh
  <2>2. "decrypt" \in Stages /\ b \in Buffers /\ e.wrapped \in Keys /\ e \in Envelope
    BY <1>0, <2>1 DEF TypeInv, TypeOK, Stages
  <2>3. call \in Call /\ call.stage = "decrypt"
    BY <2>2, HoldingType
  <2> HIDE DEF call
  <2>4. CallAge(w)' /\ \A v \in Workers \ {w} : h'[v] = h[v]
    BY <2>1, <2>3, CallStep DEF CallAge
  <2> QED BY <2>1, <2>4, KeptAge DEF KeysRotate
<1>8. ASSUME NEW w \in Workers, NEW e \in envelopes, AskUnwrap(w, e) PROVE AgeInv'
  <2> DEFINE call == Holding("unwrap", 0, e.wrapped, e)
  <2>1. UNCHANGED <<currentDek, born, now>> /\ result' = None /\ GoTo(w, call)
    BY <1>8 DEF AskUnwrap, cacheVars, history
  <2>2. "unwrap" \in Stages /\ 0 \in Buffers \cup {0} /\ e.wrapped \in Keys
        /\ e \in Envelope \cup {None}
    <3>1. e \in Envelope /\ e.wrapped \in Keys
      BY <1>0 DEF TypeInv, TypeOK
    <3> QED BY <3>1 DEF Stages
  <2>3. call \in Call /\ call.stage = "unwrap" /\ call.since = now
    <3>1. \A b \in Buffers \cup {0} :
             LET c == Holding("unwrap", b, e.wrapped, e)
             IN  c \in Call /\ c.stage = "unwrap" /\ c.since = now
      BY <2>2, HoldingType
    <3> QED BY <2>2, <3>1
  <2> HIDE DEF call
  <2>4. CallAge(w)' /\ \A v \in Workers \ {w} : h'[v] = h[v]
    BY <1>1, <2>1, <2>3, CallStep DEF CallAge
  <2> QED BY <2>1, <2>4, KeptAge DEF KeysRotate
<1>9. ASSUME NEW w \in Workers, StoreUnwrapped(w) PROVE AgeInv'
  <2> DEFINE b == Len(memory) + 1
             call == [h[w] EXCEPT !.stage = "decrypt", !.buffer = b]
  <2>1. /\ UNCHANGED <<currentDek, born, now>> /\ result' = None /\ b \in Buffers /\ GoTo(w, call)
    BY <1>9 DEF StoreUnwrapped, history
  <2>2. call \in Call /\ call.stage = "decrypt"
    BY <1>0, <2>1 DEF Call, Stages
  <2> HIDE DEF call
  <2>3. CallAge(w)' /\ \A v \in Workers \ {w} : h'[v] = h[v]
    BY <2>1, <2>2, CallStep DEF CallAge
  <2> QED BY <2>1, <2>3, KeptAge DEF KeysRotate
<1>10. ASSUME NEW w \in Workers, Decrypt(w) PROVE AgeInv'
  <2>1. /\ UNCHANGED <<currentDek, born, now>> /\ GoTo(w, Idle) /\ result'.call = "decrypt"
    BY <1>10 DEF Decrypt, cacheVars, history
  <2>2. CallAge(w)' /\ \A v \in Workers \ {w} : h'[v] = h[v]
    BY <2>1, IdleType, CallStep DEF CallAge, Idle
  <2> QED BY <2>1, <2>2, KeptAge DEF KeysRotate
<1>11. ASSUME NEW w \in Workers, FailKeyCall(w) PROVE AgeInv'
  <2>1. UNCHANGED <<currentDek, born, now>> /\ GoTo(w, Idle) /\ result' = None
    BY <1>11 DEF FailKeyCall, cacheVars, history
  <2>2. CallAge(w)' /\ \A v \in Workers \ {w} : h'[v] = h[v]
    BY <2>1, IdleType, CallStep DEF CallAge, Idle
  <2> QED BY <2>1, <2>2, KeptAge DEF KeysRotate
<1>12. CASE ClearKeyCache
  <2>1. /\ UNCHANGED <<born, now>> /\ currentDek' = None /\ result' = None
        /\ h' = [w \in Workers |-> IF h[w].stage \in {"encrypt", "decrypt"}
                                     THEN [h[w] EXCEPT !.cleared = TRUE] ELSE h[w]]
    BY <1>12 DEF ClearKeyCache
  <2>2. \A v \in Workers : /\ h'[v].stage = h[v].stage /\ h'[v].wrapped = h[v].wrapped
                          /\ h'[v].since = h[v].since
    BY <1>0, <2>1 DEF Call
  <2> QED BY <2>1, <2>2 DEF AgeInv, CallAge, DekAge, KeysRotate
<1>13. CASE Restart
  BY <1>13 DEF Restart, history, AgeInv, CallAge, DekAge, KeysRotate, Idle
<1>14. CASE UNCHANGED vars
  BY <1>14 DEF vars, cacheVars, history, AgeInv, CallAge, DekAge, KeysRotate
<1> QED BY <1>2, <1>3, <1>4, <1>5, <1>6, <1>7, <1>8, <1>9, <1>10, <1>11, <1>12, <1>13, <1>14
        DEF Next

LEMMA AgeInit == ASSUME Init PROVE AgeInv
  BY DEF Init, AgeInv, CallAge, DekAge, KeysRotate, Idle

(* A data key encrypts for KeyTtl and the longest call of the provider, and  *)
(* no longer.                                                                *)
THEOREM KeysAreRotated == Spec => []KeysRotate
<1>1. Spec => []AgeInv
  BY AgeInit, AgeStep, TypeCorrect, PTL DEF Spec
<1> QED BY <1>1, PTL DEF AgeInv
=============================================================================
