-------------------------------- MODULE Ueau --------------------------------
(***************************************************************************)
(* The UE authentication service, Nudm_UEAU                                *)
(* (producer/generate_auth_data.go).                                       *)
(*                                                                         *)
(* GenerateAuthData reads the subscriber's sequence number at the UDR,     *)
(* uses it for the vector and writes its successor back; between the two   *)
(* calls the number is a local variable.  ConfirmAuth keeps the last       *)
(* authentication event in the UE context, DeleteAuth compares and clears  *)
(* it.  An event is named by the request that confirmed it.                *)
(***************************************************************************)
EXTENDS Handler

CONSTANTS
  SqnWidth,     \* bits of a sequence number, 48 in the code
  Ind           \* the code's ind, 32

(* How many sequence numbers there are: the code's SqnMAx plus one.        *)
SqnCount == 2^SqnWidth

Sqns == 0..(SqnCount - 1)

(* A power of two is a number: nothing else the proofs have says so.  The  *)
(* range is far wider than the step.                                       *)
ASSUME UeauAssumption ==
  /\ SqnWidth \in Nat \ {0}
  /\ SqnCount \in Nat
  /\ Ind \in Nat
  /\ Ind + 2 < SqnCount
  /\ None \notin Sqns

VARIABLES
  udrSqn,       \* the sequence number in the UDR's authentication subscription
  sqn,          \* the local variable sqnStr of a handler
  sqnMs,        \* the number the UE reported, in a request to resynchronise
  named,        \* the event a deletion has found to match
  overlapped    \* history: the subscribers of whom two vectors were
                \* generated at the same time

ueauVars == <<udrSqn, sqn, sqnMs, named, overlapped>>
vars == <<handlerVars, ueauVars>>

TypeOK ==
  /\ HandlerTypeOK
  /\ udrSqn \in [Supis -> Sqns]
  /\ sqn \in [Requests -> Sqns]
  /\ sqnMs \in [Requests -> Sqns \cup {None}]
  /\ named \in [Requests -> Requests \cup {None}]
  /\ overlapped \in SUBSET Supis

Init ==
  /\ HandlerInit
  /\ udrSqn \in [Supis -> Sqns]
  /\ sqn = [r \in Requests |-> 0]
  /\ sqnMs = [r \in Requests |-> None]
  /\ named = [r \in Requests |-> None]
  /\ overlapped = {}

-----------------------------------------------------------------------------
(* Mutant: a carry out of the last digit is kept.                          *)
WideHex(n) == n

(* strictHex(.., 12): the low twelve digits of the number.                 *)
StrictHex(n) == n % SqnCount

(* Mutant: the number the UE reported is used as it is.                    *)
ResynchronisedToMs(ms) == StrictHex(ms)

(* performResync: the modulus is the largest sequence number, SqnMAx.      *)
Resynchronised(ms) == StrictHex((ms + Ind + 1) % (SqnCount - 1))

(* The requests that have a number of s in hand.                           *)
InHand(s) == {r \in Requests : At(r, "udr", {"authGen"}) /\ req[r].supi = s}

(* fetchAuthSubscription, deriveAuthenticationKeys, and the first half of  *)
(* handleSqnAndResync.  A request to resynchronise whose MAC matches uses  *)
(* the UE's number; no subscription, no usable key or a MAC that does not  *)
(* match ends the request, and an AUTS too short to be sliced (lines 54,   *)
(* 358) crashes the handler.                                               *)
ReadSqn(r) ==
  /\ At(r, "query", {"authGen"})
  /\ \/ /\ sqn' = [sqn EXCEPT ![r] = udrSqn[req[r].supi]]
        /\ Goto(r, "udr")
        /\ UNCHANGED <<sqnMs, answer>>
     \/ \E ms \in Sqns :
          /\ sqnMs' = [sqnMs EXCEPT ![r] = ms]
          /\ sqn' = [sqn EXCEPT ![r] = Resynchronised(ms)]
          /\ Goto(r, "udr")
          /\ UNCHANGED answer
     \/ (Reply(r, "problem") \/ Reply(r, "crash")) /\ UNCHANGED <<sqn, sqnMs>>
  /\ overlapped' = overlapped \cup {s \in {req[r].supi} : InHand(s) # {}}
  /\ UNCHANGED <<ueVars, req, ue, restarts, udrSqn, named>>

(* Mutant: the number that is used is saved, not its successor.            *)
WriteSameSqn(r) ==
  /\ At(r, "udr", {"authGen"})
  /\ udrSqn' = [udrSqn EXCEPT ![req[r].supi] = StrictHex(sqn[r])]
  /\ Reply(r, "content")
  /\ UNCHANGED <<ueVars, req, ue, restarts, sqn, sqnMs, named, overlapped>>

(* Mutant: the vector leaves although the UDR has refused the patch.       *)
WriteNextSqnUnchecked(r) ==
  /\ At(r, "udr", {"authGen"})
  /\ udrSqn' \in {udrSqn, [udrSqn EXCEPT ![req[r].supi] = StrictHex(sqn[r] + 1)]}
  /\ Reply(r, "content")
  /\ UNCHANGED <<ueVars, req, ue, restarts, sqn, sqnMs, named, overlapped>>

(* updateSqnInUdr, and the vector if the UDR has taken the patch.          *)
WriteNextSqn(r) ==
  LET Patch == udrSqn' = [udrSqn EXCEPT ![req[r].supi] = StrictHex(sqn[r] + 1)]
  IN  /\ At(r, "udr", {"authGen"})
      /\ \/ Patch /\ Reply(r, "content")
         \/ Faults /\ Patch /\ Reply(r, "problem")
         \/ Faults /\ Reply(r, "problem") /\ UNCHANGED udrSqn
      /\ UNCHANGED <<ueVars, req, ue, restarts, sqn, sqnMs, named, overlapped>>

(* ConfirmAuthDataProcedure: only a 201 whose body can be decoded goes on. *)
CreateAuthenticationStatus(r) ==
  /\ At(r, "udr", {"authConfirm"})
  /\ \/ Goto(r, "find") /\ UNCHANGED answer
     \/ Faults /\ Reply(r, "problem")
  /\ UNCHANGED <<ueVars, req, ue, restarts, ueauVars>>

StoreAuthenticationEvent(r) ==
  /\ At(r, "write", {"authConfirm"})
  /\ heap' = [heap EXCEPT ![ue[r]].auth = r]
  /\ Reply(r, "created")
  /\ UNCHANGED <<pool, req, ue, restarts, ueauVars>>

(* DeleteAuthProcedure reads LastAuthenticationEvent twice, to see that    *)
(* there is one and to compare its id, and then clears the field.  A field *)
(* cleared between the reads is a nil dereference.                         *)
FindAuthenticationEvent(r) ==
  LET o == UdmUeFindBySupi(req[r].supi)
  IN  /\ At(r, "exists", {"authDelete"})
      /\ ue' = [ue EXCEPT ![r] = o]
      /\ IF o = None \/ (o # None /\ heap[o].auth = None)
         THEN Reply(r, "problem")
         ELSE Goto(r, "match") /\ UNCHANGED answer
      /\ UNCHANGED <<ueVars, req, restarts, ueauVars>>

MatchAuthenticationEvent(r) ==
  LET event == heap[ue[r]].auth
  IN  /\ At(r, "match", {"authDelete"})
      /\ \/ event = None /\ Reply(r, "crash") /\ UNCHANGED named
         \/ event # None /\ Reply(r, "problem") /\ UNCHANGED named
         \/ /\ event # None
            /\ named' = [named EXCEPT ![r] = event]
            /\ Goto(r, "write")
            /\ UNCHANGED answer
      /\ UNCHANGED <<ueVars, req, ue, restarts, udrSqn, sqn, sqnMs, overlapped>>

(* Mutant: only the answer says that the event is gone.                    *)
KeepAuthenticationEvent(r) ==
  /\ At(r, "write", {"authDelete"})
  /\ Reply(r, "noContent")
  /\ UNCHANGED <<ueVars, req, ue, restarts, ueauVars>>

ClearAuthenticationEvent(r) ==
  /\ At(r, "write", {"authDelete"})
  /\ heap' = [heap EXCEPT ![ue[r]].auth = None]
  /\ Reply(r, "noContent")
  /\ UNCHANGED <<pool, req, ue, restarts, ueauVars>>

UeauStep(r) ==
  \/ ReadSqn(r) \/ WriteNextSqn(r)
  \/ CreateAuthenticationStatus(r) \/ StoreAuthenticationEvent(r)
  \/ FindAuthenticationEvent(r) \/ MatchAuthenticationEvent(r)
  \/ ClearAuthenticationEvent(r)

Handle(r) == UeauStep(r) \/ (SharedStep(r) /\ UNCHANGED ueauVars)

Next ==
  \/ (Restart \/ \E r \in Requests : Arrive(r)) /\ UNCHANGED ueauVars
  \/ \E r \in Requests : Handle(r)

Spec == Init /\ [][Next]_vars

-----------------------------------------------------------------------------
(***************************************************************************)
(* Properties.                                                             *)
(***************************************************************************)
Vectors(s) ==
  {r \in Requests : answer[r] = "content" /\ req[r].supi = s}

(* No UE of the subscriber has asked to resynchronise.                     *)
InSync(s) ==
  \A r \in Requests : sqnMs[r] # None => req[r].supi # s

(* A sequence number is used for one vector: the next one is saved "for    *)
(* the NEXT authentication attempt" (generate_auth_data.go:383) before the *)
(* vector leaves.  Subscribers that have resynchronised are left out.      *)
NoSqnIsReused ==
  \A s \in Supis : InSync(s) =>
    \A r, q \in Vectors(s) : r # q => sqn[r] # sqn[q]

(* As long as no two vectors of a subscriber are generated at the same     *)
(* time and none of its UEs resynchronises, no number is used twice, and   *)
(* the UDR's next number is none of those already used: also across the    *)
(* wrap of the number range, and when a write was refused, its answer was  *)
(* lost or the process was restarted.  A resynchronisation goes on from    *)
(* the number the UE reports, whatever the UDR's is (performResync, lines  *)
(* 369 to 376): the numbers of vectors that the UE has not seen are then   *)
(* used again, and no overlap is needed for it.                            *)
SqnReuseNeedsOverlapOrResync ==
  \A s \in Supis \ overlapped : InSync(s) =>
    \A r, q \in Vectors(s) : r # q => sqn[r] # sqn[q]

UdrSqnIsUnusedUntilResync ==
  \A s \in Supis \ overlapped : InSync(s) =>
    \A r \in Vectors(s) : udrSqn[s] # sqn[r]

(* A resynchronised vector is ahead of the number the UE reported, by more *)
(* than nothing and at most the step and the two ends of the number range. *)
ResyncIsAhead ==
  \A r \in Requests : sqnMs[r] # None =>
    (sqn[r] - sqnMs[r] + SqnCount) % SqnCount \in 1..(Ind + 2)

(* An event that was confirmed and deleted does not come back: the event   *)
(* is removed "to prevent reuse" (generate_auth_data.go:528).              *)
DeletedEventStaysDeleted ==
  \A r \in Requests : answer[r] = "noContent" /\ named[r] # None =>
    \A s \in Supis : pool[s] # None => heap[pool[s]].auth # named[r]
=============================================================================
