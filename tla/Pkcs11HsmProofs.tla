--------------------------- MODULE Pkcs11HsmProofs ---------------------------
(***************************************************************************)
(* For every set of threads: the PKCS#11 token keeps its types, a handle   *)
(* of a token object names one object, and no context outlives its session *)
(* or its key.  Private keys come to exist, and to be used, while nobody   *)
(* is logged in only through a key generation that ends after a logout;    *)
(* one thread cannot do that.  Beside the sealed slot, the token keeps all *)
(* of this and so does the slot.                                           *)
(***************************************************************************)
EXTENDS HsmOverSealedSlot, SealedLifecycleProofs, FiniteSetTheorems

-----------------------------------------------------------------------------
(* Partial functions, as the dictionaries of the token are.                *)
LEMMA PartialChar ==
  ASSUME NEW S, NEW T, NEW f
  PROVE  f \in PartialFunctions(S, T)
           <=> DOMAIN f \subseteq S /\ f \in [DOMAIN f -> T]
  BY DEF PartialFunctions

LEMMA PartialNothing ==
  ASSUME NEW S, NEW T
  PROVE  Nothing \in PartialFunctions(S, T) /\ DOMAIN Nothing = {}
<1>1. DOMAIN Nothing = {} /\ Nothing \in [{} -> T]
  BY DEF Nothing
<1> QED BY <1>1, PartialChar

(* What an entry changes: the key's own value, and no other.               *)
LEMMA PutFacts ==
  ASSUME NEW f, NEW x, NEW y
  PROVE  /\ \A z : z \in DOMAIN Put(f, x, y) <=> z \in DOMAIN f \/ z = x
         /\ Put(f, x, y)[x] = y
         /\ \A z \in DOMAIN f : z # x => Put(f, x, y)[z] = f[z]
  BY DEF Put

LEMMA DropFacts ==
  ASSUME NEW f, NEW x
  PROVE  /\ \A z : z \in DOMAIN Drop(f, x) <=> z \in DOMAIN f /\ z # x
         /\ \A z \in DOMAIN f : z # x => Drop(f, x)[z] = f[z]
  BY DEF Drop

LEMMA PartialPut ==
  ASSUME NEW S, NEW T, NEW f \in PartialFunctions(S, T), NEW x \in S, NEW y \in T
  PROVE  Put(f, x, y) \in PartialFunctions(S, T)
<1>1. DOMAIN f \subseteq S /\ f \in [DOMAIN f -> T]
  BY PartialChar
<1>2. /\ DOMAIN Put(f, x, y) = DOMAIN f \cup {x}
      /\ Put(f, x, y) \in [DOMAIN f \cup {x} -> T]
  BY <1>1 DEF Put
<1> QED BY <1>1, <1>2, PartialChar

LEMMA PartialDrop ==
  ASSUME NEW S, NEW T, NEW f \in PartialFunctions(S, T), NEW x
  PROVE  Drop(f, x) \in PartialFunctions(S, T)
<1>1. DOMAIN f \subseteq S /\ f \in [DOMAIN f -> T]
  BY PartialChar
<1>2. /\ DOMAIN Drop(f, x) = DOMAIN f \ {x}
      /\ Drop(f, x) \in [DOMAIN f \ {x} -> T]
  BY <1>1 DEF Drop
<1> QED BY <1>1, <1>2, PartialChar

-----------------------------------------------------------------------------
(* A token object, its handles not yet bounded.                            *)
TokenRecords ==
  [user : Users, objects : PartialFunctions(Nat, Objects),
   signing : PartialFunctions(SessionIds, Objects),
   verifying : PartialFunctions(SessionIds, Objects), nextHandle : Nat]

(* The contexts of a token refer to open sessions and to its objects.      *)
Refers(t, context, open) ==
  \A s \in DOMAIN context :
    s \in open /\ \E h \in DOMAIN t.objects : t.objects[h] = context[s]

(* What holds of a token at any time: the next handle is above every       *)
(* handle ever given out, there are two for each pair made, and its        *)
(* contexts are live.  A token that is not in use has none.                *)
WellKept(t, names, open, pairs) ==
  /\ t \in TokenRecords
  /\ DOMAIN t.objects \subseteq 0 .. t.nextHandle - 1
  /\ names \subseteq 0 .. t.nextHandle - 1
  /\ t.nextHandle <= 2 * pairs
  /\ Refers(t, t.signing, open)
  /\ Refers(t, t.verifying, open)

Unused(t) == DOMAIN t.signing = {} /\ DOMAIN t.verifying = {}

(* The threads inside C_GenerateKeyPair.                                   *)
Busy == {th \in Threads : generating[th] # 0}

(* The inductive invariant: besides the types, a pair is accounted for     *)
(* from the moment its generation begins.                                  *)
HInv ==
  /\ sessions \subseteq SessionIds
  /\ current \in Tokens \cup {0}
  /\ token \in [Tokens -> TokenRecords]
  /\ issued \in [Tokens -> SUBSET Nat]
  /\ \A g \in Tokens : WellKept(token[g], issued[g], sessions, made)
  /\ \A g \in Tokens : g # current => Unused(token[g])
  /\ made \in Nat
  /\ holding \subseteq 1 .. made
  /\ generating \in [Threads -> Tokens \cup {0}]
  /\ IsFiniteSet(Busy)
  /\ made + Cardinality(Busy) <= MaxPairs
  /\ used \in {"NEVER", "LOGGED_IN", "LOGGED_OUT"}

-----------------------------------------------------------------------------
(* A new token has no objects, no contexts and no handles.                 *)
LEMMA NewIsKept ==
  ASSUME NEW open, NEW pairs \in Nat
  PROVE  WellKept(NewToken, {}, open, pairs) /\ Unused(NewToken)
<1>1. NewToken \in TokenRecords
  BY PartialNothing DEF NewToken, TokenRecords, Users
<1>2. /\ NewToken.objects = Nothing /\ NewToken.signing = Nothing
      /\ NewToken.verifying = Nothing /\ NewToken.nextHandle = 0
  BY DEF NewToken
<1> QED BY <1>1, <1>2, PartialNothing DEF WellKept, Refers, Unused

(* zeroize leaves the handle counter where it was.                         *)
LEMMA ZeroizedIsKept ==
  ASSUME NEW t, NEW names, NEW open, NEW left, NEW pairs \in Nat,
         WellKept(t, names, open, pairs)
  PROVE  WellKept(Zeroized(t), names, left, pairs) /\ Unused(Zeroized(t))
<1>1. /\ Zeroized(t) \in TokenRecords
      /\ Zeroized(t).objects = Nothing /\ Zeroized(t).signing = Nothing
      /\ Zeroized(t).verifying = Nothing /\ Zeroized(t).nextHandle = t.nextHandle
  BY PartialNothing DEF Zeroized, WellKept, TokenRecords, Users
<1> QED BY <1>1, PartialNothing DEF WellKept, Refers, Unused

(* Closing sessions does not concern a token out of use.                   *)
LEMMA UnusedIsKept ==
  ASSUME NEW t, NEW names, NEW open, NEW left, NEW pairs,
         WellKept(t, names, open, pairs), Unused(t)
  PROVE  WellKept(t, names, left, pairs)
  BY DEF WellKept, Refers, Unused

(* A login changes the user only.                                          *)
LEMMA LoginIsKept ==
  ASSUME NEW t, NEW names, NEW open, NEW pairs, NEW user \in Users,
         WellKept(t, names, open, pairs)
  PROVE  WellKept([t EXCEPT !.user = user], names, open, pairs)
  BY DEF WellKept, TokenRecords, Refers

(* WithPair adds two objects under fresh handles and loses none.           *)
LEMMA PairAdded ==
  ASSUME NEW t, NEW names, NEW open, NEW pairs, NEW pair \in 1 .. MaxPairs,
         WellKept(t, names, open, pairs)
  PROVE  LET n == t.nextHandle
             new == WithPair(t, pair)
         IN  /\ new \in TokenRecords
             /\ new.nextHandle = n + 2
             /\ new.user = t.user
             /\ new.signing = t.signing /\ new.verifying = t.verifying
             /\ \A h : h \in DOMAIN new.objects <=> h \in DOMAIN t.objects \/ h \in {n, n + 1}
             /\ new.objects[n].pair = pair /\ new.objects[n + 1].pair = pair
             /\ \A h \in DOMAIN t.objects : new.objects[h] = t.objects[h]
<1> DEFINE n == t.nextHandle
           public == [pair |-> pair, private |-> FALSE]
           private == [pair |-> pair, private |-> TRUE]
           two == Put(Put(t.objects, n, public), n + 1, private)
<1>1. /\ t \in TokenRecords /\ n \in Nat /\ n + 1 \in Nat /\ n + 2 \in Nat
      /\ t.objects \in PartialFunctions(Nat, Objects)
      /\ DOMAIN t.objects \subseteq 0 .. n - 1
  BY DEF WellKept, TokenRecords
<1>2. /\ public \in Objects /\ private \in Objects
      /\ public.pair = pair /\ private.pair = pair
  BY DEF Objects
<1>3. n # n + 1 /\ n \notin DOMAIN t.objects /\ n + 1 \notin DOMAIN t.objects
  BY <1>1
<1>4. WithPair(t, pair) = [t EXCEPT !.objects = two, !.nextHandle = n + 2]
  BY DEF WithPair
<1> HIDE DEF public, private, n
<1>5. /\ two \in PartialFunctions(Nat, Objects)
      /\ \A h : h \in DOMAIN two <=> h \in DOMAIN t.objects \/ h \in {n, n + 1}
      /\ two[n] = public /\ two[n + 1] = private
      /\ \A h \in DOMAIN t.objects : two[h] = t.objects[h]
  <2> DEFINE one == Put(t.objects, n, public)
  <2>1. /\ \A h : h \in DOMAIN one <=> h \in DOMAIN t.objects \/ h = n
        /\ one[n] = public
        /\ \A h \in DOMAIN t.objects : h # n => one[h] = t.objects[h]
    BY PutFacts
  <2>2. one \in PartialFunctions(Nat, Objects)
    BY <1>1, <1>2, PartialPut
  <2> HIDE DEF one
  <2>3. /\ \A h : h \in DOMAIN Put(one, n + 1, private) <=> h \in DOMAIN one \/ h = n + 1
        /\ Put(one, n + 1, private)[n + 1] = private
        /\ \A h \in DOMAIN one : h # n + 1 => Put(one, n + 1, private)[h] = one[h]
    BY PutFacts
  <2>4. Put(one, n + 1, private) \in PartialFunctions(Nat, Objects)
    BY <1>1, <1>2, <2>2, PartialPut
  <2>5. two = Put(one, n + 1, private)
    BY DEF one
  <2> HIDE DEF two
  <2> QED BY <1>3, <2>1, <2>3, <2>4, <2>5
<1> HIDE DEF two
<1> DEFINE m == n + 2
           new == [t EXCEPT !.objects = two, !.nextHandle = m]
<1>6. m \in Nat /\ WithPair(t, pair) = new
  BY <1>1, <1>4
<1> HIDE DEF m
<1>7. /\ new \in TokenRecords
      /\ new.objects = two
      /\ new.nextHandle = m
      /\ new.user = t.user
      /\ new.signing = t.signing
      /\ new.verifying = t.verifying
  BY <1>1, <1>5, <1>6 DEF TokenRecords
<1> HIDE DEF new
<1> QED BY <1>2, <1>5, <1>6, <1>7 DEF n, m

LEMMA PairIsKept ==
  ASSUME NEW t, NEW names, NEW open, NEW pairs \in Nat, NEW pair \in 1 .. MaxPairs,
         WellKept(t, names, open, pairs)
  PROVE  WellKept(WithPair(t, pair), names \cup {t.nextHandle, t.nextHandle + 1},
                  open, pairs + 1)
<1> DEFINE n == t.nextHandle
           new == WithPair(t, pair)
<1>1. /\ new \in TokenRecords
      /\ new.nextHandle = n + 2
      /\ new.signing = t.signing /\ new.verifying = t.verifying
      /\ \A h : h \in DOMAIN new.objects <=> h \in DOMAIN t.objects \/ h \in {n, n + 1}
      /\ \A h \in DOMAIN t.objects : new.objects[h] = t.objects[h]
  BY PairAdded
<1>2. n \in Nat
  BY DEF WellKept, TokenRecords
<1> HIDE DEF new
<1>3. Refers(new, new.signing, open) /\ Refers(new, new.verifying, open)
  BY <1>1 DEF WellKept, Refers
<1>4. DOMAIN new.objects \subseteq 0 .. new.nextHandle - 1
  BY <1>1, <1>2 DEF WellKept
<1>5. names \cup {n, n + 1} \subseteq 0 .. new.nextHandle - 1
  <2>1. names \subseteq 0 .. n - 1 /\ new.nextHandle = n + 2
    BY <1>1 DEF WellKept
  <2> HIDE DEF n
  <2>2. 0 .. n - 1 \subseteq 0 .. n + 1 /\ {n, n + 1} \subseteq 0 .. n + 1
    BY <1>2
  <2>3. new.nextHandle - 1 = n + 1
    BY <1>2, <2>1
  <2> QED BY <2>1, <2>2, <2>3
<1>6. new.nextHandle <= 2 * (pairs + 1)
  BY <1>1, <1>2 DEF WellKept
<1>7. WellKept(new, names \cup {n, n + 1}, open, pairs + 1)
  BY <1>1, <1>3, <1>4, <1>5, <1>6 DEF WellKept
<1> QED BY <1>7 DEF new

(* A context is set for an open session on an object of the token.         *)
LEMMA ContextIsKept ==
  ASSUME NEW t, NEW names, NEW open \in SUBSET SessionIds, NEW pairs,
         NEW s \in open, NEW h \in DOMAIN t.objects,
         WellKept(t, names, open, pairs)
  PROVE  /\ WellKept([t EXCEPT !.signing = Put(t.signing, s, t.objects[h])],
                     names, open, pairs)
         /\ WellKept([t EXCEPT !.verifying = Put(t.verifying, s, t.objects[h])],
                     names, open, pairs)
<1>1. /\ t \in TokenRecords /\ t.objects[h] \in Objects /\ s \in SessionIds
      /\ t.signing \in PartialFunctions(SessionIds, Objects)
      /\ t.verifying \in PartialFunctions(SessionIds, Objects)
  BY PartialChar DEF WellKept, TokenRecords
<1>2. ASSUME NEW f \in PartialFunctions(SessionIds, Objects), Refers(t, f, open)
      PROVE  /\ Put(f, s, t.objects[h]) \in PartialFunctions(SessionIds, Objects)
             /\ Refers(t, Put(f, s, t.objects[h]), open)
  <2>1. Put(f, s, t.objects[h]) \in PartialFunctions(SessionIds, Objects)
    BY <1>1, PartialPut
  <2>2. /\ \A z : z \in DOMAIN Put(f, s, t.objects[h]) <=> z \in DOMAIN f \/ z = s
        /\ Put(f, s, t.objects[h])[s] = t.objects[h]
        /\ \A z \in DOMAIN f : z # s => Put(f, s, t.objects[h])[z] = f[z]
    BY PutFacts
  <2> QED BY <1>2, <2>1, <2>2 DEF Refers
<1>3. ASSUME NEW f \in PartialFunctions(SessionIds, Objects), Refers(t, f, open)
      PROVE  /\ WellKept([t EXCEPT !.signing = f], names, open, pairs)
             /\ WellKept([t EXCEPT !.verifying = f], names, open, pairs)
  BY <1>1, <1>3 DEF WellKept, TokenRecords, Refers
<1> QED BY <1>1, <1>2, <1>3 DEF WellKept

(* A context is consumed.                                                  *)
LEMMA DropIsKept ==
  ASSUME NEW t, NEW names, NEW open, NEW pairs, NEW s,
         WellKept(t, names, open, pairs)
  PROVE  /\ WellKept([t EXCEPT !.signing = Drop(t.signing, s)], names, open, pairs)
         /\ WellKept([t EXCEPT !.verifying = Drop(t.verifying, s)], names, open, pairs)
<1>1. /\ t \in TokenRecords
      /\ t.signing \in PartialFunctions(SessionIds, Objects)
      /\ t.verifying \in PartialFunctions(SessionIds, Objects)
  BY DEF WellKept, TokenRecords
<1>2. ASSUME NEW f \in PartialFunctions(SessionIds, Objects), Refers(t, f, open)
      PROVE  /\ Drop(f, s) \in PartialFunctions(SessionIds, Objects)
             /\ Refers(t, Drop(f, s), open)
  <2>1. Drop(f, s) \in PartialFunctions(SessionIds, Objects)
    BY PartialDrop
  <2>2. /\ \A z : z \in DOMAIN Drop(f, s) <=> z \in DOMAIN f /\ z # s
        /\ \A z \in DOMAIN f : z # s => Drop(f, s)[z] = f[z]
    BY DropFacts
  <2> QED BY <1>2, <2>1, <2>2 DEF Refers
<1>3. ASSUME NEW f \in PartialFunctions(SessionIds, Objects), Refers(t, f, open)
      PROVE  /\ WellKept([t EXCEPT !.signing = f], names, open, pairs)
             /\ WellKept([t EXCEPT !.verifying = f], names, open, pairs)
  BY <1>1, <1>3 DEF WellKept, TokenRecords, Refers
<1> QED BY <1>1, <1>2, <1>3 DEF WellKept

(* More open sessions and more pairs do no harm.                           *)
LEMMA MoreIsKept ==
  ASSUME NEW t, NEW names, NEW open, NEW wider, NEW pairs \in Nat, NEW more \in Nat,
         WellKept(t, names, open, pairs), open \subseteq wider, pairs <= more
  PROVE  WellKept(t, names, wider, more)
<1>1. t.nextHandle \in Nat
  BY DEF WellKept, TokenRecords
<1>2. t.nextHandle <= 2 * more
  BY <1>1 DEF WellKept
<1>3. Refers(t, t.signing, wider) /\ Refers(t, t.verifying, wider)
  BY DEF WellKept, Refers
<1> QED BY <1>2, <1>3 DEF WellKept

-----------------------------------------------------------------------------
(* The threads inside C_GenerateKeyPair, as one of them enters or leaves.  *)
LEMMA BusyCount ==
  ASSUME HInv, NEW th \in Threads, NEW g \in Tokens \cup {0},
         generating' = [generating EXCEPT ![th] = g]
  PROVE  /\ generating' \in [Threads -> Tokens \cup {0}]
         /\ IsFiniteSet(Busy') /\ Cardinality(Busy) \in Nat /\ Cardinality(Busy') \in Nat
         /\ g # 0 => Cardinality(Busy') <= Cardinality(Busy) + 1
         /\ g = 0 /\ generating[th] # 0 => Cardinality(Busy') = Cardinality(Busy) - 1
         /\ g = 0 => Cardinality(Busy') <= Cardinality(Busy)
<1>1. generating' \in [Threads -> Tokens \cup {0}]
  BY DEF HInv
<1>2. g # 0 => Busy' = Busy \cup {th}
  BY DEF HInv, Busy
<1>3. g = 0 => Busy' = Busy \ {th}
  BY DEF HInv, Busy
<1>4. IsFiniteSet(Busy) /\ Cardinality(Busy) \in Nat
  BY FS_CardinalityType DEF HInv
<1>5. /\ IsFiniteSet(Busy \cup {th})
      /\ Cardinality(Busy \cup {th})
           = IF th \in Busy THEN Cardinality(Busy) ELSE Cardinality(Busy) + 1
  BY <1>4, FS_AddElement
<1>6. /\ IsFiniteSet(Busy \ {th})
      /\ Cardinality(Busy \ {th})
           = IF th \in Busy THEN Cardinality(Busy) - 1 ELSE Cardinality(Busy)
  BY <1>4, FS_RemoveElement
<1>7. Cardinality(Busy \cup {th}) \in Nat /\ Cardinality(Busy \ {th}) \in Nat
  BY <1>5, <1>6, FS_CardinalityType
<1>8. th \in Busy <=> generating[th] # 0
  BY DEF Busy
<1>9. CASE g # 0
  <2> DEFINE B == Busy \cup {th}
  <2>1. /\ Busy' = B /\ IsFiniteSet(B) /\ Cardinality(B) \in Nat
        /\ Cardinality(B) = IF th \in Busy THEN Cardinality(Busy) ELSE Cardinality(Busy) + 1
    BY <1>2, <1>5, <1>7, <1>9
  <2> HIDE DEF B
  <2> QED BY <1>1, <1>4, <1>9, <2>1
<1>10. CASE g = 0
  <2> DEFINE B == Busy \ {th}
  <2>1. /\ Busy' = B /\ IsFiniteSet(B) /\ Cardinality(B) \in Nat
        /\ Cardinality(B) = IF th \in Busy THEN Cardinality(Busy) - 1 ELSE Cardinality(Busy)
    BY <1>3, <1>6, <1>7, <1>10
  <2> HIDE DEF B
  <2> QED BY <1>1, <1>4, <1>8, <1>10, <2>1
<1> QED BY <1>9, <1>10

(* A call that changes the token in use, or takes it out of use.           *)
LEMMA CurrentChanged ==
  ASSUME HInv, Initialized, NEW t,
         token' = [token EXCEPT ![current] = t],
         current' \in {current, 0},
         sessions' \subseteq SessionIds,
         WellKept(t, issued[current], sessions', made),
         current' = current \/ Unused(t),
         holding' \subseteq holding,
         used' \in {"NEVER", "LOGGED_IN", "LOGGED_OUT"},
         UNCHANGED <<generating, made, issued>>
  PROVE  HInv'
<1>1. current \in Tokens /\ made \in Nat /\ t \in TokenRecords
  BY DEF HInv, Initialized, WellKept
<1>2. /\ token' \in [Tokens -> TokenRecords] /\ token'[current] = t
      /\ \A g \in Tokens : g # current => token'[g] = token[g]
  BY <1>1 DEF HInv
<1>3. ASSUME NEW g \in Tokens
      PROVE  /\ WellKept(token'[g], issued[g], sessions', made)
             /\ g # current' => Unused(token'[g])
  <2>1. CASE g = current
    BY <1>2, <2>1
  <2>2. CASE g # current
    <3>1. WellKept(token[g], issued[g], sessions, made) /\ Unused(token[g])
      BY <2>2 DEF HInv
    <3> QED BY <1>2, <2>2, <3>1, UnusedIsKept
  <2> QED BY <2>1, <2>2
<1>4. Busy' = Busy
  BY DEF Busy
<1> QED BY <1>1, <1>2, <1>3, <1>4 DEF HInv

(* A call that leaves the token objects alone.                             *)
LEMMA TokensUnchanged ==
  ASSUME HInv, UNCHANGED <<current, token, holding, made, issued>>,
         sessions \subseteq sessions', sessions' \subseteq SessionIds,
         generating' \in [Threads -> Tokens \cup {0}],
         IsFiniteSet(Busy'), made + Cardinality(Busy') <= MaxPairs,
         used' \in {"NEVER", "LOGGED_IN", "LOGGED_OUT"}
  PROVE  HInv'
<1>1. \A g \in Tokens : WellKept(token[g], issued[g], sessions', made)
  BY MoreIsKept DEF HInv
<1> QED BY <1>1 DEF HInv

-----------------------------------------------------------------------------
(* No token, no session, no thread inside a call.                          *)
LEMMA InitHInv == HInit => HInv
<1> SUFFICES ASSUME HInit PROVE HInv
  OBVIOUS
<1>1. NewToken \in TokenRecords
  BY NewIsKept DEF WellKept
<1>2. \A g \in Tokens :
        WellKept(token[g], issued[g], sessions, made) /\ Unused(token[g])
  BY NewIsKept DEF HInit
<1>3. Busy = {} /\ IsFiniteSet({}) /\ Cardinality({}) = 0
  BY FS_EmptySet DEF HInit, Busy
<1> QED BY <1>1, <1>2, <1>3, BoundsAssumption DEF HInit, HInv

(* The new token object takes the place of one that no thread refers to.   *)
LEMMA InitializeHInv ==
  ASSUME HInv, NEW th \in Threads, C_Initialize(th)
  PROVE  HInv'
<1>1. PICK g \in Tokens :
        /\ current' = g /\ token' = [token EXCEPT ![g] = NewToken]
        /\ issued' = [issued EXCEPT ![g] = {}] /\ holding' \subseteq holding
  BY DEF C_Initialize
<1>2. current = 0 /\ UNCHANGED <<sessions, generating, made, used>>
  BY DEF C_Initialize, Initialized
<1>3. NewToken \in TokenRecords
  BY NewIsKept DEF WellKept
<1>4. ASSUME NEW h \in Tokens
      PROVE  /\ WellKept(token'[h], issued'[h], sessions', made')
             /\ h # current' => Unused(token'[h])
  <2>1. CASE h = g
    <3>1. token'[h] = NewToken /\ issued'[h] = {}
      BY <1>1, <2>1 DEF HInv
    <3>2. WellKept(NewToken, {}, sessions, made)
      BY NewIsKept DEF HInv
    <3> QED BY <1>1, <1>2, <2>1, <3>1, <3>2
  <2>2. CASE h # g
    <3>1. token'[h] = token[h] /\ issued'[h] = issued[h] /\ h # current
      BY <1>1, <1>2, <2>2 DEF HInv, Tokens
    <3>2. WellKept(token[h], issued[h], sessions, made) /\ Unused(token[h])
      BY <3>1 DEF HInv
    <3> QED BY <1>2, <3>1, <3>2
  <2> QED BY <2>1, <2>2
<1>5. Busy' = Busy
  BY <1>2 DEF Busy
<1> QED BY <1>1, <1>2, <1>3, <1>4, <1>5 DEF HInv

(* The keys go into the token that the call began with, in use or not.     *)
LEMMA GenerateEndHInv ==
  ASSUME HInv, NEW th \in Threads, GenerateEnd(th)
  PROVE  HInv'
<1> DEFINE g == generating[th]
           n == token[g].nextHandle
<1>1. /\ g # 0
      /\ token' = [token EXCEPT ![g] = WithPair(token[g], made + 1)]
      /\ issued' = [issued EXCEPT ![g] = issued[g] \cup {n, n + 1}]
      /\ made' = made + 1 /\ holding' = holding \cup {made + 1}
      /\ generating' = [generating EXCEPT ![th] = 0]
      /\ UNCHANGED <<sessions, current, used>>
  BY DEF GenerateEnd, Ready
<1>2. g \in Tokens
  BY <1>1 DEF HInv
<1>3. /\ generating' \in [Threads -> Tokens \cup {0}] /\ IsFiniteSet(Busy')
      /\ Cardinality(Busy) \in Nat /\ Cardinality(Busy') \in Nat
      /\ Cardinality(Busy') = Cardinality(Busy) - 1
  BY <1>1, BusyCount
<1>4. made + 1 \in 1 .. MaxPairs /\ made' + Cardinality(Busy') <= MaxPairs
  BY <1>1, <1>3, BoundsAssumption DEF HInv
<1>5. /\ WellKept(token[g], issued[g], sessions, made)
      /\ token[g] \in TokenRecords /\ n \in Nat
  BY <1>2 DEF HInv, TokenRecords
<1>6. WellKept(WithPair(token[g], made + 1), issued[g] \cup {n, n + 1},
               sessions, made + 1)
  BY <1>4, <1>5, PairIsKept DEF HInv
<1> HIDE DEF g, n
<1>7. /\ token' \in [Tokens -> TokenRecords] /\ issued' \in [Tokens -> SUBSET Nat]
      /\ token'[g] = WithPair(token[g], made + 1) /\ issued'[g] = issued[g] \cup {n, n + 1}
      /\ \A h \in Tokens : h # g => token'[h] = token[h] /\ issued'[h] = issued[h]
  <2>1. WithPair(token[g], made + 1) \in TokenRecords
    BY <1>6 DEF WellKept
  <2>2. issued[g] \cup {n, n + 1} \subseteq Nat
    BY <1>2, <1>5 DEF HInv
  <2> QED BY <1>1, <1>2, <2>1, <2>2 DEF HInv
<1>8. ASSUME NEW h \in Tokens
      PROVE  /\ WellKept(token'[h], issued'[h], sessions', made')
             /\ h # current' => Unused(token'[h])
  <2>1. CASE h = g
    <3>1. token'[h].signing = token[h].signing /\ token'[h].verifying = token[h].verifying
      BY <1>4, <1>5, <1>7, <2>1, PairAdded
    <3>2. h # current' => Unused(token'[h])
      BY <1>1, <3>1 DEF HInv, Unused
    <3> QED BY <1>1, <1>6, <1>7, <2>1, <3>2
  <2>2. CASE h # g
    <3>1. WellKept(token[h], issued[h], sessions, made)
      BY DEF HInv
    <3>2. made \in Nat /\ made + 1 \in Nat /\ made <= made + 1
      BY DEF HInv
    <3>3. WellKept(token[h], issued[h], sessions, made + 1)
      BY <3>1, <3>2, MoreIsKept
    <3> QED BY <1>1, <1>7, <2>2, <3>3 DEF HInv
  <2> QED BY <2>1, <2>2
<1>9. holding' \subseteq 1 .. made' /\ made' \in Nat
  BY <1>1 DEF HInv
<1> QED BY <1>1, <1>3, <1>4, <1>7, <1>8, <1>9 DEF HInv

(* Zeroization leaves a token that is well kept, whatever sessions stay.   *)
LEMMA ZeroizeHInv ==
  ASSUME HInv, Initialized, ZeroizeToken, current' \in {current, 0},
         sessions' \subseteq SessionIds,
         UNCHANGED <<generating, made, used, issued>>
  PROVE  HInv'
<1> DEFINE t == Zeroized(Now)
<1>1. /\ current \in Tokens /\ made \in Nat
      /\ WellKept(Now, issued[current], sessions, made)
  BY DEF HInv, Initialized, Now
<1>2. WellKept(t, issued[current], sessions', made) /\ Unused(t)
  BY <1>1, ZeroizedIsKept
<1>3. token' = [token EXCEPT ![current] = t] /\ holding' \subseteq holding
  BY DEF ZeroizeToken
<1>4. used' \in {"NEVER", "LOGGED_IN", "LOGGED_OUT"}
  BY DEF HInv
<1> HIDE DEF t
<1> QED BY <1>2, <1>3, <1>4, CurrentChanged

(* The token in use changes in one field: its user or a context.           *)
LEMMA FieldHInv ==
  ASSUME HInv, Initialized, NEW t, token' = [token EXCEPT ![current] = t],
         WellKept(t, issued[current], sessions, made),
         used' \in {"NEVER", "LOGGED_IN", "LOGGED_OUT"},
         UNCHANGED <<sessions, current, holding, generating, made, issued>>
  PROVE  HInv'
<1>1. sessions' \subseteq SessionIds /\ current' \in {current, 0}
  BY DEF HInv
<1> QED BY <1>1, CurrentChanged

(* Every call of every thread keeps the invariant.                         *)
LEMMA StepHInv ==
  ASSUME HInv, [HNext]_hvars
  PROVE  HInv'
<1>1. ASSUME Initialized
      PROVE  /\ current \in Tokens /\ Now \in TokenRecords
             /\ WellKept(Now, issued[current], sessions, made)
  BY <1>1 DEF HInv, Initialized, Now
<1>3. ASSUME NEW th \in Threads, C_Finalize(th) PROVE HInv'
  BY <1>3, ZeroizeHInv DEF C_Finalize
<1>4. ASSUME NEW th \in Threads, C_OpenSession(th) PROVE HInv'
  <2>1. sessions \subseteq sessions' /\ sessions' \subseteq SessionIds
    BY <1>4 DEF C_OpenSession, HInv
  <2>2. UNCHANGED <<current, token, holding, generating, made, used, issued>>
    BY <1>4 DEF C_OpenSession
  <2>3. Busy' = Busy
    BY <2>2 DEF Busy
  <2> QED BY <2>1, <2>2, <2>3, TokensUnchanged DEF HInv
<1>5. ASSUME NEW th \in Threads, GenerateRaises(th) PROVE HInv'
  <2>1. /\ generating' = [generating EXCEPT ![th] = 0]
        /\ UNCHANGED <<sessions, current, token, holding, made, used, issued>>
    BY <1>5 DEF GenerateRaises
  <2>2. /\ generating' \in [Threads -> Tokens \cup {0}] /\ IsFiniteSet(Busy')
        /\ Cardinality(Busy) \in Nat /\ Cardinality(Busy') \in Nat
        /\ Cardinality(Busy') <= Cardinality(Busy)
    BY <2>1, BusyCount
  <2>3. made + Cardinality(Busy') <= MaxPairs
    BY <2>2, BoundsAssumption DEF HInv
  <2> QED BY <2>1, <2>2, <2>3, TokensUnchanged DEF HInv
<1>6. ASSUME NEW th \in Threads, NEW s \in SessionIds, GenerateBegin(th, s) PROVE HInv'
  <2>1. /\ generating' = [generating EXCEPT ![th] = current] /\ current # 0
        /\ made + Cardinality(Busy) < MaxPairs
        /\ UNCHANGED <<sessions, current, token, holding, made, used, issued>>
    BY <1>6 DEF GenerateBegin, InSession, Busy
  <2>2. /\ generating' \in [Threads -> Tokens \cup {0}] /\ IsFiniteSet(Busy')
        /\ Cardinality(Busy) \in Nat /\ Cardinality(Busy') \in Nat
        /\ Cardinality(Busy') <= Cardinality(Busy) + 1
    BY <2>1, BusyCount DEF HInv
  <2>3. made + Cardinality(Busy') <= MaxPairs
    BY <2>1, <2>2, BoundsAssumption DEF HInv
  <2> QED BY <2>1, <2>2, <2>3, TokensUnchanged DEF HInv
<1>7. ASSUME NEW th \in Threads, NEW s \in SessionIds,
             C_CloseSession(th, s) \/ C_Logout(th, s)
      PROVE  HInv'
  <2>1. /\ Initialized /\ ZeroizeToken /\ current' = current
        /\ sessions' \subseteq SessionIds
        /\ UNCHANGED <<generating, made, used, issued>>
    BY <1>7 DEF C_CloseSession, C_Logout, InSession, Initialized, HInv
  <2> QED BY <2>1, ZeroizeHInv
<1>8. ASSUME NEW th \in Threads, NEW s \in SessionIds, C_Login(th, s) PROVE HInv'
  <2>1. PICK user \in Users : token' = [token EXCEPT ![current].user = user]
    BY <1>8 DEF C_Login
  <2> DEFINE t == [Now EXCEPT !.user = user]
  <2>2. /\ Initialized /\ token' = [token EXCEPT ![current] = t]
        /\ UNCHANGED <<sessions, current, holding, generating, made, used, issued>>
    BY <1>8, <2>1 DEF C_Login, InSession, Initialized, Now
  <2>3. WellKept(t, issued[current], sessions, made)
    BY <1>1, <2>2, LoginIsKept
  <2> HIDE DEF t
  <2> QED BY <2>2, <2>3, FieldHInv DEF HInv
<1>9. ASSUME NEW th \in Threads, NEW s \in SessionIds, C_SignInit(th, s) PROVE HInv'
  <2>1. PICK h \in DOMAIN Now.objects :
          token' = [token EXCEPT ![current].signing = Put(@, s, Now.objects[h])]
    BY <1>9 DEF C_SignInit
  <2> DEFINE t == [Now EXCEPT !.signing = Put(Now.signing, s, Now.objects[h])]
  <2>2. /\ Initialized /\ s \in sessions /\ token' = [token EXCEPT ![current] = t]
        /\ UNCHANGED <<sessions, current, holding, generating, made, used, issued>>
    BY <1>9, <2>1 DEF C_SignInit, InSession, Initialized, Now
  <2>3. WellKept(t, issued[current], sessions, made)
    BY <1>1, <2>2, ContextIsKept DEF HInv
  <2> HIDE DEF t
  <2> QED BY <2>2, <2>3, FieldHInv DEF HInv
<1>10. ASSUME NEW th \in Threads, NEW s \in SessionIds, C_VerifyInit(th, s) PROVE HInv'
  <2>1. PICK h \in DOMAIN Now.objects :
          token' = [token EXCEPT ![current].verifying = Put(@, s, Now.objects[h])]
    BY <1>10 DEF C_VerifyInit
  <2> DEFINE t == [Now EXCEPT !.verifying = Put(Now.verifying, s, Now.objects[h])]
  <2>2. /\ Initialized /\ s \in sessions /\ token' = [token EXCEPT ![current] = t]
        /\ UNCHANGED <<sessions, current, holding, generating, made, used, issued>>
    BY <1>10, <2>1 DEF C_VerifyInit, InSession, Initialized, Now
  <2>3. WellKept(t, issued[current], sessions, made)
    BY <1>1, <2>2, ContextIsKept DEF HInv
  <2> HIDE DEF t
  <2> QED BY <2>2, <2>3, FieldHInv DEF HInv
<1>11. ASSUME NEW th \in Threads, NEW s \in SessionIds, C_Sign(th, s) PROVE HInv'
  <2> DEFINE t == [Now EXCEPT !.signing = Drop(Now.signing, s)]
  <2>1. /\ Initialized /\ token' = [token EXCEPT ![current] = t]
        /\ UNCHANGED <<sessions, current, holding, generating, made, issued>>
    BY <1>11 DEF C_Sign, InSession, Initialized, Now
  <2>2. used' \in {"NEVER", "LOGGED_IN", "LOGGED_OUT"}
    BY <1>11 DEF C_Sign, UsePrivateKey, HInv
  <2>3. WellKept(t, issued[current], sessions, made)
    BY <1>1, <2>1, DropIsKept
  <2> HIDE DEF t
  <2> QED BY <2>1, <2>2, <2>3, FieldHInv
<1>12. ASSUME NEW th \in Threads, NEW s \in SessionIds, C_Verify(th, s) PROVE HInv'
  <2> DEFINE t == [Now EXCEPT !.verifying = Drop(Now.verifying, s)]
  <2>1. /\ Initialized /\ token' = [token EXCEPT ![current] = t]
        /\ UNCHANGED <<sessions, current, holding, generating, made, used, issued>>
    BY <1>12 DEF C_Verify, InSession, Initialized, Now
  <2>2. WellKept(t, issued[current], sessions, made)
    BY <1>1, <2>1, DropIsKept
  <2> HIDE DEF t
  <2> QED BY <2>1, <2>2, FieldHInv DEF HInv
<1>13. ASSUME NEW th \in Threads, NEW s \in SessionIds, C_DeriveKey(th, s) PROVE HInv'
  <2>1. UNCHANGED <<sessions, current, token, holding, generating, made, issued>>
    BY <1>13 DEF C_DeriveKey
  <2>2. used' \in {"NEVER", "LOGGED_IN", "LOGGED_OUT"}
    BY <1>13 DEF C_DeriveKey, UsePrivateKey
  <2>3. Busy' = Busy
    BY <2>1 DEF Busy
  <2> QED BY <2>1, <2>2, <2>3, TokensUnchanged DEF HInv
<1>14. CASE UNCHANGED hvars
  <2>1. Busy' = Busy
    BY <1>14 DEF Busy, hvars
  <2> QED BY <1>14, <2>1 DEF HInv, hvars
<1> QED
  BY <1>3, <1>4, <1>5, <1>6, <1>7, <1>8, <1>9, <1>10, <1>11, <1>12, <1>13, <1>14,
     InitializeHInv, GenerateEndHInv DEF HNext, Call

(* The inductive invariant holds of every behaviour, of any threads.       *)
THEOREM HInvariance == HSpec => []HInv
  BY InitHInv, StepHInv, PTL DEF HSpec

(* As many handles as two for each key pair, and no object without a pair. *)
THEOREM TokenTypes == HSpec => []HTypeOK
<1>1. HInv => HTypeOK
  <2> SUFFICES ASSUME HInv PROVE HTypeOK
    OBVIOUS
  <2>1. made \in 0 .. MaxPairs
    BY FS_CardinalityType, BoundsAssumption DEF HInv
  <2>2. ASSUME NEW g \in Tokens
        PROVE  /\ token[g].user \in Users
               /\ token[g].nextHandle \in 0 .. 2 * MaxPairs
               /\ DOMAIN token[g].objects \subseteq Handles
               /\ \A h \in DOMAIN token[g].objects : token[g].objects[h] \in Objects
               /\ token[g].signing \in PartialFunctions(SessionIds, Objects)
               /\ token[g].verifying \in PartialFunctions(SessionIds, Objects)
               /\ issued[g] \subseteq Handles
    <3> DEFINE n == token[g].nextHandle
    <3>1. WellKept(token[g], issued[g], sessions, made) /\ token[g] \in TokenRecords
      BY DEF HInv
    <3>2. n \in Nat /\ n <= 2 * made
      BY <3>1 DEF WellKept, TokenRecords
    <3>3. n \in 0 .. 2 * MaxPairs
      BY <2>1, <3>2, BoundsAssumption
    <3>4. 0 .. n - 1 \subseteq Handles
      BY <3>3, BoundsAssumption DEF Handles
    <3>5. DOMAIN token[g].objects \subseteq Handles /\ issued[g] \subseteq Handles
      BY <3>1, <3>4 DEF WellKept
    <3>6. \A h \in DOMAIN token[g].objects : token[g].objects[h] \in Objects
      <4>1. token[g].objects \in PartialFunctions(Nat, Objects)
        BY <3>1 DEF TokenRecords
      <4> QED BY <4>1, PartialChar
    <3> QED BY <3>1, <3>3, <3>5, <3>6 DEF TokenRecords
  <2>3. holding \subseteq 1 .. MaxPairs
    BY <2>1, BoundsAssumption DEF HInv
  <2> QED BY <2>1, <2>2, <2>3 DEF HInv, HTypeOK
<1> QED BY <1>1, HInvariance, PTL

(* A sign or verify context refers to an open session and to an object     *)
(* still in its token, whatever threads close, log out and finalize.       *)
THEOREM ContextsNeverDangle == HSpec => []ContextsLive
<1>1. HInv => ContextsLive
  BY DEF HInv, WellKept, Refers, ContextsLive
<1> QED BY <1>1, HInvariance, PTL

-----------------------------------------------------------------------------
(* The private bytes and the objects of the token in use, wiped.           *)
LEMMA ZeroizedObjects ==
  ASSUME HInv, Initialized, ZeroizeToken
  PROVE  /\ current \in Tokens
         /\ DOMAIN token'[current].objects = {}
         /\ \A g \in Tokens : g # current => token'[g] = token[g]
         /\ \A p \in holding' : p \in holding /\ p \notin Pairs(Now)
<1>1. current \in Tokens
  BY DEF HInv, Initialized
<1>2. Zeroized(Now).objects = Nothing /\ DOMAIN Nothing = {}
  BY <1>1, PartialNothing DEF Zeroized, HInv, TokenRecords, Now
<1>3. /\ token'[current] = Zeroized(Now)
      /\ \A g \in Tokens : g # current => token'[g] = token[g]
  BY <1>1 DEF ZeroizeToken, HInv
<1> QED BY <1>1, <1>2, <1>3 DEF ZeroizeToken

(* What a step may do to the objects of a token: nothing, wipe them all,   *)
(* or add a pair.  It changes the user only where it wipes, or from nobody *)
(* to somebody.                                                            *)
LEMMA TokenMoves ==
  ASSUME HInv, NEW th \in Threads, Call(th), NEW g \in Tokens
  PROVE  \/ /\ token'[g].objects = token[g].objects
            /\ token'[g].user = token[g].user \/ token'[g].user # "NONE"
         \/ DOMAIN token'[g].objects = {}
         \/ /\ GenerateEnd(th) /\ g = generating[th]
            /\ token'[g] = WithPair(token[g], made + 1)
            /\ made + 1 \in 1 .. MaxPairs
<1>1. token[g] \in TokenRecords /\ g \in DOMAIN token
  BY DEF HInv
<1>2. CASE C_Initialize(th)
  <2>1. NewToken.objects = Nothing /\ DOMAIN Nothing = {}
    BY PartialNothing DEF NewToken
  <2> QED BY <1>1, <1>2, <2>1 DEF C_Initialize
<1>3. ASSUME ZeroizeToken, Initialized
      PROVE  token'[g] = token[g] \/ DOMAIN token'[g].objects = {}
  BY <1>3, ZeroizedObjects
<1>4. CASE GenerateEnd(th)
  <2>1. /\ generating[th] # 0 /\ made' = made + 1
        /\ token' = [token EXCEPT ![generating[th]]
                       = WithPair(token[generating[th]], made + 1)]
        /\ generating' = [generating EXCEPT ![th] = 0]
    BY <1>4 DEF GenerateEnd, Ready
  <2>2. made + 1 \in 1 .. MaxPairs
    <3>1. /\ Cardinality(Busy) \in Nat /\ Cardinality(Busy') \in Nat
          /\ Cardinality(Busy') = Cardinality(Busy) - 1
      BY <2>1, BusyCount
    <3> QED BY <3>1, BoundsAssumption DEF HInv
  <2>3. CASE g = generating[th]
    BY <1>1, <1>4, <2>1, <2>2, <2>3
  <2>4. CASE g # generating[th]
    BY <1>1, <2>1, <2>4
  <2> QED BY <2>3, <2>4
<1>5. ASSUME NEW s \in SessionIds, C_Login(th, s)
      PROVE  /\ token'[g].objects = token[g].objects
             /\ token'[g].user = token[g].user \/ token'[g].user # "NONE"
  BY <1>1, <1>5 DEF C_Login, TokenRecords
<1>6. ASSUME NEW s \in SessionIds,
             C_SignInit(th, s) \/ C_Sign(th, s) \/ C_VerifyInit(th, s) \/ C_Verify(th, s)
      PROVE  token'[g].objects = token[g].objects /\ token'[g].user = token[g].user
  <2>1. CASE C_SignInit(th, s)
    BY <1>1, <2>1 DEF C_SignInit, TokenRecords
  <2>2. CASE C_Sign(th, s)
    BY <1>1, <2>2 DEF C_Sign, TokenRecords
  <2>3. CASE C_VerifyInit(th, s)
    BY <1>1, <2>3 DEF C_VerifyInit, TokenRecords
  <2>4. CASE C_Verify(th, s)
    BY <1>1, <2>4 DEF C_Verify, TokenRecords
  <2> QED BY <1>6, <2>1, <2>2, <2>3, <2>4
<1>7. ASSUME NEW s \in SessionIds, C_CloseSession(th, s) \/ C_Logout(th, s)
      PROVE  token'[g] = token[g] \/ DOMAIN token'[g].objects = {}
  BY <1>3, <1>7 DEF C_CloseSession, C_Logout, InSession, Initialized
<1>8. CASE C_Finalize(th)
  BY <1>3, <1>8 DEF C_Finalize
<1>9. CASE token' = token
  BY <1>9
<1> QED
  BY <1>2, <1>4, <1>5, <1>6, <1>7, <1>8, <1>9
     DEF Call, C_OpenSession, GenerateRaises, GenerateBegin, C_DeriveKey

(* A handle that was given out is below the counter, and only the handles  *)
(* at the counter get new objects.                                         *)
LEMMA HandlesKept ==
  ASSUME HInv, [HNext]_hvars, NEW g \in Tokens, NEW h \in issued[g],
         h \in DOMAIN token'[g].objects
  PROVE  h \in DOMAIN token[g].objects /\ token'[g].objects[h] = token[g].objects[h]
<1>1. CASE UNCHANGED hvars
  BY <1>1 DEF hvars
<1>2. ASSUME NEW th \in Threads, Call(th)
      PROVE  h \in DOMAIN token[g].objects /\ token'[g].objects[h] = token[g].objects[h]
  <2> DEFINE n == token[g].nextHandle
  <2>1. WellKept(token[g], issued[g], sessions, made) /\ n \in Nat
    BY DEF HInv, TokenRecords
  <2>2. h \in 0 .. n - 1
    BY <2>1 DEF WellKept
  <2>3. h \notin {n, n + 1}
    BY <2>1, <2>2
  <2>4. CASE token'[g].objects = token[g].objects
    BY <2>4
  <2>5. ASSUME made + 1 \in 1 .. MaxPairs, token'[g] = WithPair(token[g], made + 1)
        PROVE  h \in DOMAIN token[g].objects /\ token'[g].objects[h] = token[g].objects[h]
    BY <2>1, <2>3, <2>5, PairAdded
  <2> QED BY <1>2, <2>4, <2>5, TokenMoves
<1> QED BY <1>1, <1>2 DEF HNext

(* A handle of a token object names one object while that object lives,    *)
(* whatever threads log out, generate and finalize at the same time.       *)
THEOREM HandlesAreNotReused == HSpec => HandleNamesOneObject
<1>1. HInv /\ [HNext]_hvars
        => [\A g \in Tokens : \A h \in issued[g] :
              h \in DOMAIN token'[g].objects =>
                h \in DOMAIN token[g].objects
                  /\ token'[g].objects[h] = token[g].objects[h]]_hvars
  BY HandlesKept
<1> QED BY <1>1, HInvariance, PTL DEF HSpec, HandleNamesOneObject

-----------------------------------------------------------------------------
(* Keys and logins.  The race: a key generation ends when nobody is logged *)
(* in any more, or in a token that is not in use any more.                 *)
EndsTooLate(th) ==
  GenerateEnd(th) /\ ~ (generating[th] = current /\ Now.user # "NONE")

KeyInv == HInv /\ KeysOnlyWhileLoggedIn

(* What the two invariants say of the token in use.                        *)
LEMMA KeysInUse ==
  ASSUME KeyInv, NEW p \in holding
  PROVE  current \in Tokens /\ p \in Pairs(token[current])
  BY DEF KeyInv, HInv, KeysOnlyWhileLoggedIn, Initialized, Now

(* After a zeroization there are no objects and no private bytes.          *)
LEMMA ZeroizedKeys ==
  ASSUME KeyInv, Initialized, ZeroizeToken
  PROVE  /\ \A g \in Tokens : DOMAIN token'[g].objects = {}
         /\ holding' = {}
<1>1. /\ current \in Tokens
      /\ DOMAIN token'[current].objects = {}
      /\ \A g \in Tokens : g # current => token'[g] = token[g]
      /\ \A p \in holding' : p \in holding /\ p \notin Pairs(Now)
  BY ZeroizedObjects DEF KeyInv
<1>2. \A g \in Tokens : g # current => DOMAIN token[g].objects = {}
  BY DEF KeyInv, KeysOnlyWhileLoggedIn
<1> QED BY <1>1, <1>2, KeysInUse DEF Now

(* A call that changes no object and logs nobody out.                      *)
LEMMA SameObjects ==
  ASSUME KeyInv, current' = current, holding' = holding,
         \A g \in Tokens :
           /\ token'[g].objects = token[g].objects
           /\ token'[g].user = token[g].user \/ token'[g].user # "NONE"
  PROVE  KeysOnlyWhileLoggedIn'
<1>1. \A g \in Tokens :
        DOMAIN token'[g].objects # {} => g = current' /\ token'[g].user # "NONE"
  BY DEF KeyInv, KeysOnlyWhileLoggedIn
<1>2. ASSUME NEW p \in holding'
      PROVE  Initialized' /\ p \in Pairs(Now)'
  <2>1. current \in Tokens /\ p \in Pairs(token[current])
    BY <1>2, KeysInUse
  <2> QED BY <2>1 DEF Pairs, Initialized, Now, Tokens
<1> QED BY <1>1, <1>2 DEF KeysOnlyWhileLoggedIn

(* A private key with its bytes is one of the token's, so its use finds a  *)
(* user logged in.                                                         *)
LEMMA UsesLoggedIn ==
  ASSUME KeyInv, Initialized, NEW p \in holding, UsePrivateKey
  PROVE  LoginRequired'
<1>1. current \in Tokens /\ DOMAIN token[current].objects # {}
  BY KeysInUse DEF Pairs
<1>2. Now.user # "NONE"
  BY <1>1 DEF KeyInv, KeysOnlyWhileLoggedIn, Now
<1> QED BY <1>2 DEF UsePrivateKey, LoginRequired

(* The end of a key generation, in the token that is still in use.         *)
LEMMA GenerateEndKeys ==
  ASSUME KeyInv, NEW th \in Threads, GenerateEnd(th), ~ EndsTooLate(th)
  PROVE  KeysOnlyWhileLoggedIn'
<1> DEFINE n == token[current].nextHandle
<1>1. /\ generating[th] = current /\ current \in Tokens
      /\ token[current].user # "NONE"
      /\ token' = [token EXCEPT ![current] = WithPair(token[current], made + 1)]
      /\ holding' = holding \cup {made + 1}
      /\ generating' = [generating EXCEPT ![th] = 0]
      /\ UNCHANGED <<current, used>>
  BY DEF GenerateEnd, Ready, KeyInv, EndsTooLate, Now, HInv
<1>2. token'[current] = WithPair(token[current], made + 1) /\ made + 1 \in 1 .. MaxPairs
  <2>1. /\ Cardinality(Busy) \in Nat /\ Cardinality(Busy') \in Nat
        /\ Cardinality(Busy') = Cardinality(Busy) - 1
    <3>1. HInv /\ generating[th] # 0
      BY <1>1 DEF KeyInv, Tokens
    <3> QED BY <1>1, <3>1, BusyCount
  <2> QED BY <1>1, <2>1, BoundsAssumption DEF KeyInv, HInv
<1>3. WellKept(token[current], issued[current], sessions, made)
  BY <1>1 DEF KeyInv, HInv
<1>4. /\ token'[current].user = token[current].user
      /\ \A h : h \in DOMAIN token'[current].objects
                  <=> h \in DOMAIN token[current].objects \/ h \in {n, n + 1}
      /\ token'[current].objects[n].pair = made + 1
      /\ \A h \in DOMAIN token[current].objects :
           token'[current].objects[h] = token[current].objects[h]
  BY <1>2, <1>3, PairAdded
<1> HIDE DEF n
<1>5. ASSUME NEW g \in Tokens, DOMAIN token'[g].objects # {}
      PROVE  g = current' /\ token'[g].user # "NONE"
  <2>1. CASE g = current
    BY <1>1, <1>4, <2>1
  <2>2. CASE g # current
    <3>1. token'[g] = token[g]
      BY <1>1, <2>2 DEF KeyInv, HInv
    <3> QED BY <1>5, <2>2, <3>1 DEF KeyInv, KeysOnlyWhileLoggedIn
  <2> QED BY <2>1, <2>2
<1>6. ASSUME NEW p \in holding'
      PROVE  current' # 0 /\ p \in Pairs(token'[current'])
  <2>1. CASE p = made + 1
    BY <1>1, <1>4, <2>1 DEF Pairs, Tokens
  <2>2. CASE p \in holding
    <3>1. PICK h \in DOMAIN token[current].objects : p = token[current].objects[h].pair
      BY <2>2, KeysInUse DEF Pairs
    <3> QED BY <1>1, <1>4, <3>1 DEF Pairs, Tokens
  <2> QED BY <1>1, <1>6, <2>1, <2>2
<1> QED
  BY <1>1, <1>5, <1>6 DEF KeysOnlyWhileLoggedIn, Initialized, Now, KeyInv

(* Every other call keeps the invariant.                                   *)
LEMMA StepKeyInv ==
  ASSUME KeyInv, [HNext]_hvars, \A th \in Threads : ~ EndsTooLate(th)
  PROVE  KeyInv'
<1>1. HInv'
  BY StepHInv DEF KeyInv
<1>2. CASE UNCHANGED hvars
  BY <1>1, <1>2
     DEF hvars, KeyInv, KeysOnlyWhileLoggedIn, Initialized, Now
<1> SUFFICES ASSUME NEW th \in Threads, Call(th), ~ EndsTooLate(th) PROVE KeyInv'
  BY <1>2 DEF HNext
<1>3. CASE C_Initialize(th)
  <2>1. PICK g \in Tokens :
          /\ current' = g /\ token' = [token EXCEPT ![g] = NewToken]
          /\ holding' \subseteq holding
    BY <1>3 DEF C_Initialize
  <2>2. /\ current = 0 /\ Ready(th) /\ generating' = generating
    BY <1>3 DEF C_Initialize, Initialized
  <2>3. holding' = {}
    BY <2>1, <2>2 DEF KeyInv, KeysOnlyWhileLoggedIn, Initialized
  <2>4. NewToken.objects = Nothing /\ DOMAIN Nothing = {}
    BY PartialNothing DEF NewToken
  <2>5. \A h \in Tokens : DOMAIN token'[h].objects = {}
    BY <2>1, <2>2, <2>4 DEF KeyInv, HInv, KeysOnlyWhileLoggedIn, Tokens
  <2> QED BY <1>1, <2>2, <2>3, <2>5 DEF KeyInv, KeysOnlyWhileLoggedIn
<1>4. ASSUME Ready(th), Initialized, ZeroizeToken
      PROVE  KeyInv'
  BY <1>1, <1>4, ZeroizedKeys DEF KeyInv, KeysOnlyWhileLoggedIn
<1>5. CASE C_Finalize(th)
  BY <1>4, <1>5 DEF C_Finalize
<1>6. ASSUME NEW s \in SessionIds, C_CloseSession(th, s) \/ C_Logout(th, s) PROVE KeyInv'
  BY <1>4, <1>6 DEF C_CloseSession, C_Logout, InSession, Initialized
<1>7. CASE GenerateEnd(th)
  BY <1>1, <1>7, GenerateEndKeys DEF KeyInv
<1>8. CASE GenerateRaises(th)
  <2>1. /\ generating' = [generating EXCEPT ![th] = 0]
        /\ UNCHANGED <<current, token, holding>>
    BY <1>8 DEF GenerateRaises
  <2> QED BY <1>1, <2>1, SameObjects DEF KeyInv
<1>9. ASSUME NEW s \in SessionIds, GenerateBegin(th, s) PROVE KeyInv'
  <2>1. /\ generating' = [generating EXCEPT ![th] = current]
        /\ token[current].user # "NONE"
        /\ UNCHANGED <<current, token, holding>>
    BY <1>9 DEF GenerateBegin, MayGenerate, Now
  <2> QED BY <1>1, <2>1, SameObjects DEF KeyInv
<1>10. ASSUME NEW s \in SessionIds, C_Login(th, s) PROVE KeyInv'
  <2>1. \A g \in Tokens :
          /\ token'[g].objects = token[g].objects
          /\ token'[g].user = token[g].user \/ token'[g].user # "NONE"
    BY <1>10 DEF C_Login, KeyInv, HInv, TokenRecords
  <2>2. Ready(th) /\ UNCHANGED <<current, holding, generating>>
    BY <1>10 DEF C_Login
  <2> QED BY <1>1, <2>1, <2>2, SameObjects DEF KeyInv
<1>11. ASSUME NEW s \in SessionIds,
              C_SignInit(th, s) \/ C_VerifyInit(th, s) \/ C_Verify(th, s)
       PROVE  KeyInv'
  <2>1. \A g \in Tokens :
          token'[g].objects = token[g].objects /\ token'[g].user = token[g].user
    <3>1. CASE C_SignInit(th, s)
      BY <3>1 DEF C_SignInit, KeyInv, HInv, TokenRecords
    <3>2. CASE C_VerifyInit(th, s)
      BY <3>2 DEF C_VerifyInit, KeyInv, HInv, TokenRecords
    <3>3. CASE C_Verify(th, s)
      BY <3>3 DEF C_Verify, KeyInv, HInv, TokenRecords
    <3> QED BY <1>11, <3>1, <3>2, <3>3
  <2>2. Ready(th) /\ UNCHANGED <<current, holding, generating>>
    BY <1>11 DEF C_SignInit, C_VerifyInit, C_Verify
  <2> QED BY <1>1, <2>1, <2>2, SameObjects DEF KeyInv
<1>12. ASSUME NEW s \in SessionIds, C_Sign(th, s) PROVE KeyInv'
  <2>1. \A g \in Tokens :
          token'[g].objects = token[g].objects /\ token'[g].user = token[g].user
    BY <1>12 DEF C_Sign, KeyInv, HInv, TokenRecords
  <2>2. Ready(th) /\ Initialized /\ UNCHANGED <<current, holding, generating>>
    BY <1>12 DEF C_Sign, InSession, Initialized
  <2> QED BY <1>1, <2>1, <2>2, SameObjects DEF KeyInv
<1>13. ASSUME NEW s \in SessionIds, C_DeriveKey(th, s) PROVE KeyInv'
  <2>1. Ready(th) /\ Initialized /\ UNCHANGED <<current, token, holding, generating>>
    BY <1>13 DEF C_DeriveKey, InSession, Initialized
  <2> QED BY <1>1, <2>1, SameObjects DEF KeyInv
<1>14. CASE C_OpenSession(th)
  <2>1. Ready(th) /\ UNCHANGED <<current, token, holding, generating>>
    BY <1>14 DEF C_OpenSession
  <2> QED BY <1>1, <2>1, SameObjects DEF KeyInv
<1> QED
  BY <1>3, <1>5, <1>6, <1>7, <1>8, <1>9, <1>10, <1>11, <1>12, <1>13, <1>14 DEF Call

(* While keys exist only under a login, every use of one finds it: signing *)
(* and decapsulation are the only uses.                                    *)
LEMMA StepLogin ==
  ASSUME KeyInv, LoginRequired, [HNext]_hvars
  PROVE  LoginRequired'
<1>1. CASE used' = used
  BY <1>1 DEF LoginRequired
<1>2. ASSUME NEW th \in Threads, NEW s \in SessionIds, C_Sign(th, s), used' # used
      PROVE  LoginRequired'
  <2>1. Holds(Now.signing[s]) /\ UsePrivateKey /\ Initialized
    BY <1>2 DEF C_Sign, InSession, Initialized
  <2> QED BY <2>1, UsesLoggedIn DEF Holds
<1>3. ASSUME NEW th \in Threads, NEW s \in SessionIds, C_DeriveKey(th, s)
      PROVE  LoginRequired'
  <2>1. PICK h \in DOMAIN Now.objects : Holds(Now.objects[h])
    BY <1>3 DEF C_DeriveKey
  <2>2. UsePrivateKey /\ Initialized
    BY <1>3 DEF C_DeriveKey, InSession, Initialized
  <2> QED BY <2>1, <2>2, UsesLoggedIn DEF Holds
<1>4. ASSUME used' # used, NEW th \in Threads, Call(th)
      PROVE  \E s \in SessionIds : C_Sign(th, s) \/ C_DeriveKey(th, s)
  BY <1>4
     DEF Call, C_Initialize, C_Finalize, C_OpenSession, GenerateEnd, GenerateRaises,
         C_CloseSession, C_Login, C_Logout, GenerateBegin, C_SignInit, C_VerifyInit,
         C_Verify
<1> QED BY <1>1, <1>2, <1>3, <1>4 DEF HNext, hvars

LEMMA InitKeyInv == HInit => KeyInv
<1> SUFFICES ASSUME HInit PROVE KeyInv
  OBVIOUS
<1>1. HInv
  BY InitHInv
<1>2. NewToken.objects = Nothing /\ DOMAIN Nothing = {}
  BY PartialNothing DEF NewToken
<1>3. \A g \in Tokens : DOMAIN token[g].objects = {}
  BY <1>2 DEF HInit
<1> QED
  BY <1>1, <1>3 DEF HInit, KeyInv, KeysOnlyWhileLoggedIn

(* However many threads call: only a key generation that ends after a      *)
(* logout, a close or a finalize has overtaken it can bring private keys   *)
(* into a token nobody is logged in to (C_GenerateKeyPair, zeroize).       *)
THEOREM KeysNeedARace ==
  HSpec => [][KeysOnlyWhileLoggedIn =>
                KeysOnlyWhileLoggedIn' \/ \E th \in Threads : EndsTooLate(th)]_hvars
<1>1. HInv /\ [HNext]_hvars
      => [KeysOnlyWhileLoggedIn =>
            KeysOnlyWhileLoggedIn' \/ \E th \in Threads : EndsTooLate(th)]_hvars
  BY StepKeyInv DEF KeyInv
<1> QED BY <1>1, HInvariance, PTL DEF HSpec

(* And no call uses a private key while nobody is logged in unless such a  *)
(* generation has come before: the login it was generated under is the     *)
(* only one that C_Sign and C_DeriveKey rely on.                           *)
THEOREM UseNeedsARace ==
  HSpec => [][KeysOnlyWhileLoggedIn /\ LoginRequired => LoginRequired']_hvars
<1>1. HInv /\ [HNext]_hvars
      => [KeysOnlyWhileLoggedIn /\ LoginRequired => LoginRequired']_hvars
  BY StepLogin DEF KeyInv
<1> QED BY <1>1, HInvariance, PTL DEF HSpec

-----------------------------------------------------------------------------
(* One thread: a key generation keeps its token in use and its user logged *)
(* in until it ends, since no other call can run in between.  With two     *)
(* threads this is false, and so are the two theorems below.               *)
GeneratesLoggedIn ==
  \A th \in Threads :
    generating[th] # 0 => generating[th] = current /\ token[current].user # "NONE"

LEMMA OneThreadStep ==
  ASSUME NEW th, Threads = {th}, HInv, GeneratesLoggedIn, [HNext]_hvars
  PROVE  GeneratesLoggedIn'
<1>1. CASE UNCHANGED hvars
  BY <1>1 DEF hvars, GeneratesLoggedIn
<1>2. CASE Ready(th) /\ generating' = generating
  BY <1>2 DEF Ready, GeneratesLoggedIn
<1>3. CASE generating' = [generating EXCEPT ![th] = 0]
  BY <1>3 DEF GeneratesLoggedIn, HInv
<1>4. ASSUME NEW s \in SessionIds, GenerateBegin(th, s)
      PROVE  GeneratesLoggedIn'
  <2>1. /\ generating' = [generating EXCEPT ![th] = current]
        /\ token[current].user # "NONE"
        /\ UNCHANGED <<current, token>>
    BY <1>4 DEF GenerateBegin, MayGenerate, Now
  <2> QED BY <2>1 DEF GeneratesLoggedIn, HInv
<1>5. CASE Call(th)
  BY <1>2, <1>3, <1>4, <1>5
     DEF Call, C_Initialize, C_Finalize, C_OpenSession, GenerateEnd, GenerateRaises,
         C_CloseSession, C_Login, C_Logout, C_SignInit, C_Sign, C_VerifyInit, C_Verify,
         C_DeriveKey
<1> QED BY <1>1, <1>5 DEF HNext

(* So it never ends too late, and neither invariant is ever violated.      *)
LEMMA OneThreadKeys ==
  ASSUME NEW th, Threads = {th}
  PROVE  HSpec => [](KeysOnlyWhileLoggedIn /\ LoginRequired)
<1>1. HInit => GeneratesLoggedIn /\ KeyInv /\ LoginRequired
  BY InitKeyInv DEF HInit, GeneratesLoggedIn, LoginRequired
<1>2. HInv /\ GeneratesLoggedIn /\ [HNext]_hvars => GeneratesLoggedIn'
  BY OneThreadStep
<1>3. GeneratesLoggedIn => \A t \in Threads : ~ EndsTooLate(t)
  BY DEF GeneratesLoggedIn, EndsTooLate, GenerateEnd, Ready, Now
<1>4. KeyInv /\ GeneratesLoggedIn /\ [HNext]_hvars => KeyInv'
  BY <1>3, StepKeyInv
<1>5. KeyInv /\ LoginRequired /\ [HNext]_hvars => LoginRequired'
  BY StepLogin
<1>6. KeyInv => KeysOnlyWhileLoggedIn /\ HInv
  BY DEF KeyInv
<1> QED BY <1>1, <1>2, <1>4, <1>5, <1>6, PTL DEF HSpec

(* Zeroization on close, logout and finalize reaches every key that one    *)
(* thread made: private bytes exist only while a user is logged in.        *)
THEOREM NoKeysLoggedOut ==
  ASSUME NEW th, Threads = {th}
  PROVE  HSpec => []KeysOnlyWhileLoggedIn
<1> QED BY OneThreadKeys, PTL

(* And one thread never uses a private key while nobody is logged in.      *)
THEOREM NoUseLoggedOut ==
  ASSUME NEW th, Threads = {th}
  PROVE  HSpec => []LoginRequired
<1> QED BY OneThreadKeys, PTL

-----------------------------------------------------------------------------
(* The token beside the sealed slot.                                       *)

(* A behaviour of the two together is one of each.                         *)
LEMMA BothComponents == CSpec => HSpec /\ SSpec
<1>1. CInit => HInit /\ SInit
  BY DEF CInit
<1>2. [CNext]_cvars => [HNext]_hvars /\ [SNext]_svars
  BY DEF CNext, TokenCall, SlotRequest, ZeroizeOnSilicon, cvars
<1> QED BY <1>1, <1>2, PTL DEF CSpec, HSpec, SSpec

(* So beside each other, whatever hosts do with the slot and threads with  *)
(* the token: an inactive slot is wiped, an active one has the key, domain *)
(* and epoch it was given together, and no context of the token dangles.   *)
THEOREM TokenBesideSlot == CSpec => [](ContextsLive /\ InactiveIsWiped /\ KeyBound)
  BY BothComponents, ContextsNeverDangle, FailClosed, DomainSeparation, PTL
=============================================================================
