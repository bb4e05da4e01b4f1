------------------------------ MODULE Pkcs11Hsm ------------------------------
(***************************************************************************)
(* The PKCS#11 token of milestone DR23 (PhoenixPkcs11Hsm): one token in    *)
(* slot 0, sessions, login, key handles, and the sign, verify and derive   *)
(* operations that dispatch to the tiles.                                  *)
(*                                                                         *)
(* Threads share the module.  A call is one action, except key generation: *)
(* it checks the login, dispatches for a long time and only then installs  *)
(* its keys, so it is two, and calls of other threads run in between.  The *)
(* other dispatching calls change nothing after their dispatch.  A call    *)
(* that is refused with an error code changes nothing and is no action.    *)
(* What the key is for is left out: a key of the wrong kind makes the      *)
(* provider raise, which every dispatch may do.                            *)
(***************************************************************************)
EXTENDS Integers, FiniteSets

CONSTANTS
  Threads,      \* threads that call the module
  SessionIds,   \* session identifiers that C_OpenSession can draw
  MaxTokens,    \* bound on the token objects alive, for model checking
  MaxPairs      \* bound on key pairs made, for model checking

ASSUME BoundsAssumption == MaxTokens \in Nat \ {0} /\ MaxPairs \in Nat

VARIABLES
  sessions,     \* the keys of self.sessions: the open sessions, all on slot 0
  current,      \* which token object is self.tokens[0]; 0 before C_Initialize
  token,        \* the token objects, a new one for each C_Initialize
  holding,      \* key pairs whose private key bytes an object still holds
  generating,   \* per thread, the token of its C_GenerateKeyPair; 0 if none
  made,         \* number of key pairs made
  used,         \* history: was a user logged in when a private key was used
  issued        \* history: per token object, the handles it gave out

hvars == <<sessions, current, token, holding, generating, made, used, issued>>

Tokens == 1 .. MaxTokens
Users == {"NONE", "CKU_USER", "CKU_SO"}
Nothing == [x \in {} |-> x]
Put(f, x, y) == [z \in DOMAIN f \cup {x} |-> IF z = x THEN y ELSE f[z]]
Drop(f, x) == [z \in DOMAIN f \ {x} |-> f[z]]

(* __init__ of PhoenixPkcs11Token; handles count from 0 here.              *)
NewToken ==
  [user |-> "NONE", objects |-> Nothing, signing |-> Nothing, verifying |-> Nothing,
   nextHandle |-> 0]

Pairs(t) == {t.objects[h].pair : h \in DOMAIN t.objects}

(* Faults: zeroize keeps the contexts, or the objects, or restarts the     *)
(* handles.                                                                *)
ZeroizedKeepsContexts(t) == [t EXCEPT !.user = "NONE", !.objects = Nothing]
ZeroizedKeepsObjects(t) ==
  [t EXCEPT !.user = "NONE", !.signing = Nothing, !.verifying = Nothing]
ZeroizedRestartsHandles(t) == NewToken

(* zeroize: no objects, no contexts, nobody logged in.                     *)
Zeroized(t) ==
  [t EXCEPT !.user = "NONE", !.objects = Nothing, !.signing = Nothing, !.verifying = Nothing]

(* A fault: the counter advances for each of the two objects.              *)
WithPairCountsTwice(t, pair) ==
  [t EXCEPT
     !.objects = Put(Put(t.objects, t.nextHandle, [pair |-> pair, private |-> FALSE]),
                     t.nextHandle + 1, [pair |-> pair, private |-> TRUE]),
     !.nextHandle = t.nextHandle + 4]

(* The next two handles name the public and the private object of a pair.  *)
WithPair(t, pair) ==
  [t EXCEPT
     !.objects = Put(Put(t.objects, t.nextHandle, [pair |-> pair, private |-> FALSE]),
                     t.nextHandle + 1, [pair |-> pair, private |-> TRUE]),
     !.nextHandle = t.nextHandle + 2]

HInit ==
  /\ sessions = {}
  /\ current = 0
  /\ token = [g \in Tokens |-> NewToken]
  /\ holding = {}
  /\ generating = [th \in Threads |-> 0]
  /\ made = 0
  /\ used = "NEVER"
  /\ issued = [g \in Tokens |-> {}]

-----------------------------------------------------------------------------
Ready(th) == generating[th] = 0
InSession(s) == current # 0 /\ s \in sessions
Now == token[current]
Initialized == current # 0

(* A new token object; it takes the place of one that no thread refers to  *)
(* and that is garbage, so MaxTokens bounds those alive at a time.         *)
C_Initialize(th) ==
  /\ Ready(th)
  /\ ~Initialized
  /\ \E g \in Tokens :
       /\ \A other \in Threads : generating[other] # g
       /\ current' = g
       /\ token' = [token EXCEPT ![g] = NewToken]
       /\ holding' = holding \ Pairs(token[g])
       /\ issued' = [issued EXCEPT ![g] = {}]
  /\ UNCHANGED <<sessions, generating, made, used>>

(* Every object of the token is wiped and forgotten.                       *)
ZeroizeToken ==
  /\ holding' = holding \ Pairs(Now)
  /\ token' = [token EXCEPT ![current] = Zeroized(Now)]

C_Finalize(th) ==
  /\ Ready(th)
  /\ Initialized
  /\ ZeroizeToken
  /\ current' = 0
  /\ sessions' = {}
  /\ UNCHANGED <<generating, made, used, issued>>

(* uuid4 draws an identifier that no open session has.                     *)
C_OpenSession(th) ==
  /\ Ready(th)
  /\ Initialized
  /\ \E s \in SessionIds \ sessions : sessions' = sessions \cup {s}
  /\ UNCHANGED <<current, token, holding, generating, made, used, issued>>

(* Closing any one session zeroizes the whole token.                       *)
C_CloseSession(th, s) ==
  /\ Ready(th)
  /\ InSession(s)
  /\ sessions' = sessions \ {s}
  /\ ZeroizeToken
  /\ UNCHANGED <<current, generating, made, used, issued>>

(* Either PIN logs in, if nobody is.                                       *)
C_Login(th, s) ==
  /\ Ready(th)
  /\ InSession(s)
  /\ Now.user = "NONE"
  /\ \E user \in Users \ {"NONE"} : token' = [token EXCEPT ![current].user = user]
  /\ UNCHANGED <<sessions, current, holding, generating, made, used, issued>>

C_Logout(th, s) ==
  /\ Ready(th)
  /\ InSession(s)
  /\ ZeroizeToken
  /\ UNCHANGED <<sessions, current, generating, made, used, issued>>

(* A fault: key generation does not ask for a login.                       *)
MayGenerateAlways(t) == TRUE
MayGenerate(t) == t.user # "NONE"

(* C_GenerateKeyPair up to the dispatch: the login is checked here.        *)
GenerateBegin(th, s) ==
  /\ Ready(th)
  /\ InSession(s)
  /\ MayGenerate(Now)
  /\ made + Cardinality({other \in Threads : generating[other] # 0}) < MaxPairs
  /\ generating' = [generating EXCEPT ![th] = current]
  /\ UNCHANGED <<sessions, current, token, holding, made, used, issued>>

(* C_GenerateKeyPair after the dispatch: the keys go into the token that   *)
(* the call began with, whatever became of it.                             *)
GenerateEnd(th) ==
  /\ ~Ready(th)
  /\ LET g == generating[th]
     IN /\ token' = [token EXCEPT ![g] = WithPair(token[g], made + 1)]
        /\ issued' = [issued EXCEPT ![g] = @ \cup {token[g].nextHandle, token[g].nextHandle + 1}]
  /\ made' = made + 1
  /\ holding' = holding \cup {made + 1}
  /\ generating' = [generating EXCEPT ![th] = 0]
  /\ UNCHANGED <<sessions, current, used>>

(* The dispatch of the key generation raises.                              *)
GenerateRaises(th) ==
  /\ ~Ready(th)
  /\ generating' = [generating EXCEPT ![th] = 0]
  /\ UNCHANGED <<sessions, current, token, holding, made, used, issued>>

(* The handle may be of either part of a pair; nobody need be logged in.   *)
C_SignInit(th, s) ==
  /\ Ready(th)
  /\ InSession(s)
  /\ \E h \in DOMAIN Now.objects :
       token' = [token EXCEPT ![current].signing = Put(@, s, Now.objects[h])]
  /\ UNCHANGED <<sessions, current, holding, generating, made, used, issued>>

Holds(object) == object.private /\ object.pair \in holding
UsePrivateKey == used' = IF Now.user = "NONE" THEN "LOGGED_OUT" ELSE "LOGGED_IN"

(* The context is consumed first: a key without private bytes, or a        *)
(* dispatch that raises, loses it all the same.                            *)
C_Sign(th, s) ==
  /\ Ready(th)
  /\ InSession(s)
  /\ s \in DOMAIN Now.signing
  /\ token' = [token EXCEPT ![current].signing = Drop(@, s)]
  /\ IF Holds(Now.signing[s]) THEN UsePrivateKey ELSE UNCHANGED used
  /\ UNCHANGED <<sessions, current, holding, generating, made, issued>>

C_VerifyInit(th, s) ==
  /\ Ready(th)
  /\ InSession(s)
  /\ \E h \in DOMAIN Now.objects :
       token' = [token EXCEPT ![current].verifying = Put(@, s, Now.objects[h])]
  /\ UNCHANGED <<sessions, current, holding, generating, made, used, issued>>

C_Verify(th, s) ==
  /\ Ready(th)
  /\ InSession(s)
  /\ s \in DOMAIN Now.verifying
  /\ token' = [token EXCEPT ![current].verifying = Drop(@, s)]
  /\ UNCHANGED <<sessions, current, holding, generating, made, used, issued>>

(* C_DeriveKey with a ciphertext decapsulates with the private key; the    *)
(* encapsulation changes nothing of the token.                             *)
C_DeriveKey(th, s) ==
  /\ Ready(th)
  /\ InSession(s)
  /\ \E h \in DOMAIN Now.objects : Holds(Now.objects[h])
  /\ UsePrivateKey
  /\ UNCHANGED <<sessions, current, token, holding, generating, made, issued>>

Call(th) ==
  \/ C_Initialize(th)
  \/ C_Finalize(th)
  \/ C_OpenSession(th)
  \/ GenerateEnd(th)
  \/ GenerateRaises(th)
  \/ \E s \in SessionIds :
       \/ C_CloseSession(th, s)
       \/ C_Login(th, s)
       \/ C_Logout(th, s)
       \/ GenerateBegin(th, s)
       \/ C_SignInit(th, s)
       \/ C_Sign(th, s)
       \/ C_VerifyInit(th, s)
       \/ C_Verify(th, s)
       \/ C_DeriveKey(th, s)

HNext == \E th \in Threads : Call(th)

HSpec == HInit /\ [][HNext]_hvars
-----------------------------------------------------------------------------
Handles == 0 .. 2 * MaxPairs - 1
Objects == [pair : 1 .. MaxPairs, private : BOOLEAN]
PartialFunctions(S, T) == UNION {[D -> T] : D \in SUBSET S}

(* Every variable has its type: there are as many handles as the two of    *)
(* each key pair, and an object refers to a pair that was made.            *)
HTypeOK ==
  /\ sessions \subseteq SessionIds
  /\ current \in Tokens \cup {0}
  /\ \A g \in Tokens :
       /\ token[g].user \in Users
       /\ token[g].nextHandle \in 0 .. 2 * MaxPairs
       /\ DOMAIN token[g].objects \subseteq Handles
       /\ \A h \in DOMAIN token[g].objects : token[g].objects[h] \in Objects
       /\ token[g].signing \in PartialFunctions(SessionIds, Objects)
       /\ token[g].verifying \in PartialFunctions(SessionIds, Objects)
  /\ holding \subseteq 1 .. MaxPairs
  /\ generating \in [Threads -> Tokens \cup {0}]
  /\ made \in 0 .. MaxPairs
  /\ used \in {"NEVER", "LOGGED_IN", "LOGGED_OUT"}
  /\ issued \in [Tokens -> SUBSET Handles]

(* Zeroization on close, logout and finalize reaches every key: private    *)
(* bytes exist only in the token in use, under a handle, while a user is   *)
(* logged in.                                                              *)
KeysOnlyWhileLoggedIn ==
  /\ \A g \in Tokens : DOMAIN token[g].objects # {} => g = current /\ token[g].user # "NONE"
  /\ \A p \in holding : Initialized /\ p \in Pairs(Now)

(* Contexts do not outlive what they refer to: a sign or verify context    *)
(* belongs to an open session and to an object still in the token.         *)
ContextsLive ==
  \A g \in Tokens :
    \A context \in {token[g].signing, token[g].verifying} : \A s \in DOMAIN context :
      /\ s \in sessions
      /\ \E h \in DOMAIN token[g].objects : token[g].objects[h] = context[s]

(* The token says CKF_LOGIN_REQUIRED, and only C_GenerateKeyPair tests the *)
(* login.  A private key is used only while a user is logged in.           *)
LoginRequired == used # "LOGGED_OUT"

(* A handle that a token object gave out names one object while that token *)
(* object lives: after a logout or a close it names nothing, never a key   *)
(* made later.  C_Initialize makes a new token object, whose handles start *)
(* again.                                                                  *)
HandleNamesOneObject ==
  [][\A g \in Tokens : \A h \in issued[g] :
       h \in DOMAIN token'[g].objects =>
         h \in DOMAIN token[g].objects /\ token'[g].objects[h] = token[g].objects[h]]_hvars
=============================================================================
