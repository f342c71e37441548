------------------------------ MODULE AtomicKem -----------------------------
(***************************************************************************)
(* What a key encapsulation mechanism promises, whatever it is made of:    *)
(* keys appear and are filled at once, a context is bound only to a key    *)
(* that can serve it and the key stays as it is, and a call either gives   *)
(* all of its answer in one step or none.  Decapsulation is a function of  *)
(* the key and the ciphertext; encapsulation gives a ciphertext and the    *)
(* secret that every key that goes with the share opens it to.             *)
(***************************************************************************)
CONSTANTS
  Keys, Contexts,
  Openers,              \* private keys
  Shares, Ciphertexts, Secrets,
  ShareOf,              \* private key -> its share
  Opened,               \* private key -> ciphertext -> a secret, or Nothing
  Nothing

VARIABLES
  box,          \* key -> what it holds, or Nothing
  use,          \* context -> the key and operation it is bound to, or Nothing
  outcome       \* context -> the answer of its last call

kemVars == <<box, use, outcome>>

Blank == [share |-> Nothing, opener |-> Nothing]
Public(share) == [share |-> share, opener |-> Nothing]
Paired(d) == [share |-> ShareOf[d], opener |-> d]

Unbound == [key |-> Nothing, operation |-> "none"]
Bound(k, operation) == [key |-> k, operation |-> operation]

Silent == [status |-> "none", ciphertext |-> Nothing, secret |-> Nothing]
Failure == [status |-> "failed", ciphertext |-> Nothing, secret |-> Nothing]
Success == [status : {"ok"}, ciphertext : Ciphertexts, secret : Secrets]

KemInit ==
  /\ box = [k \in Keys |-> Nothing]
  /\ use = [c \in Contexts |-> Nothing]
  /\ outcome = [c \in Contexts |-> Silent]

-----------------------------------------------------------------------------
\* Keys.  None of these touches a key that a context is bound to.

Hold(k, content) == box' = [box EXCEPT ![k] = content] /\ UNCHANGED <<use, outcome>>

Make(k) ==
  /\ box[k] = Nothing
  /\ box'[k] \in {Blank} \cup {Paired(d) : d \in Openers}
  /\ Hold(k, box'[k])

Fill(k) ==
  /\ box[k] = Blank
  /\ box'[k] \in {Public(share) : share \in Shares}
  /\ Hold(k, box'[k])

Discard(k) ==
  /\ box[k] # Nothing /\ box'[k] = Nothing
  /\ \A c \in Contexts : use[c] # Nothing => use[c].key # k
  /\ Hold(k, Nothing)

-----------------------------------------------------------------------------
\* Contexts.  Whatever was answered before is gone.

Turn(c, binding) ==
  /\ use' = [use EXCEPT ![c] = binding]
  /\ outcome' = [outcome EXCEPT ![c] = Silent]
  /\ UNCHANGED box

Enter(c) == use[c] = Nothing /\ Turn(c, Unbound)

Bind(c, k) ==
  /\ use[c] # Nothing /\ box[k] # Nothing
  /\ \/ Turn(c, Bound(k, "encapsulate")) /\ box[k].share # Nothing
     \/ Turn(c, Bound(k, "decapsulate")) /\ box[k].opener # Nothing

Leave(c) == use[c] # Nothing /\ Turn(c, Nothing)

-----------------------------------------------------------------------------
\* Calls.  A call begins with no answer, may fail at any time, and succeeds in
\* one step.

Answer(c, answer) ==
  /\ use[c] # Nothing
  /\ outcome' = [outcome EXCEPT ![c] = answer]
  /\ UNCHANGED <<box, use>>

Begin(c) == Answer(c, Silent)
Fail(c) == Answer(c, Failure)

Encapsulate(c) ==
  /\ use[c] # Nothing /\ use[c].operation = "encapsulate" /\ outcome[c] = Silent
  /\ outcome'[c] \in Success
  /\ \A d \in Openers : ShareOf[d] = box[use[c].key].share =>
       Opened[d][outcome'[c].ciphertext] = outcome'[c].secret
  /\ Answer(c, outcome'[c])

Decapsulate(c) ==
  /\ use[c] # Nothing /\ use[c].operation = "decapsulate" /\ outcome[c] = Silent
  /\ outcome'[c] \in Success
  /\ outcome'[c].secret = Opened[box[use[c].key].opener][outcome'[c].ciphertext]
  /\ Answer(c, outcome'[c])

-----------------------------------------------------------------------------
KemNext ==
  \/ \E k \in Keys : Make(k) \/ Fill(k) \/ Discard(k)
  \/ \E c \in Contexts :
       \/ Enter(c) \/ Leave(c) \/ \E k \in Keys : Bind(c, k)
       \/ Begin(c) \/ Fail(c) \/ Encapsulate(c) \/ Decapsulate(c)

KemSpec == KemInit /\ [][KemNext]_kemVars
=============================================================================
