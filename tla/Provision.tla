------------------------------ MODULE Provision ------------------------------
(***************************************************************************)
(* What the operator promises about the things it provides for one         *)
(* ArgocdUser, without saying how: it works in rounds, each for the        *)
(* ArgocdUser as it was told of it.  In a round it makes each thing what   *)
(* that ArgocdUser wants, starting from the thing as it is, or withdraws   *)
(* the things, object by object; it passes over a thing only if it was     *)
(* told that nothing is to be done.  A round ends when all is dealt with,  *)
(* or another one is due.  An ArgocdUser that was deleted is let go only   *)
(* when all that does not outlive it was dealt with, for that version of it. *)
(*                                                                         *)
(* Everybody else may do to the things what they like, and to the          *)
(* ArgocdUser what its finalizer allows; acts counts that.                 *)
(***************************************************************************)
EXTENDS Naturals

CONSTANTS
    Things,
    Holders,          \* the objects that hold the things, each a set of things
    Specs,            \* what an ArgocdUser may declare
    Wanted(_, _, _),  \* what a spec makes of a thing in a state
    Outlives(_, _),   \* whether a spec leaves a thing to others when it goes
    None              \* no ArgocdUser, no thing, no round

VARIABLES
    owner, known,  \* the ArgocdUser, as it is and as the operator was told
    kept, sight,   \* the state of each thing, likewise
    round,         \* what the operator is at
    done,          \* the things dealt with in this round
    due,           \* whether there is to be another round
    acts

vars == <<owner, known, kept, sight, round, done, due, acts>>

User == [phase : {"new", "live", "deleting"}, spec : Specs]

Init ==
    /\ owner \in {None} \union User /\ known = owner
    /\ DOMAIN kept = Things /\ sight = kept
    /\ round = None /\ done = {}
    /\ due = (owner # None)
    /\ acts = 0

-----------------------------------------------------------------------------
(* The operator.                                                           *)

NewRound(goal, spec) ==
    /\ round = None /\ due
    /\ round' = [goal |-> goal, spec |-> spec]
    /\ done' = {}
    /\ due' = FALSE

Rest == round' = None /\ done' = {}

Begin ==
    /\ known # None /\ known.phase # "new"
    /\ NewRound(IF known.phase = "live" THEN "provide" ELSE "withdraw", known.spec)
    /\ UNCHANGED <<owner, known, kept, sight, acts>>

\* A new ArgocdUser gets its finalizer first, if it is as the operator was told
Adopt ==
    /\ owner # None /\ owner.phase = "new" /\ known = owner
    /\ owner' = [owner EXCEPT !.phase = "live"]
    /\ NewRound("provide", owner.spec)
    /\ UNCHANGED <<known, kept, sight, acts>>

\* There is no ArgocdUser to work for
Ignore ==
    /\ round = None /\ due /\ known = None
    /\ due' = FALSE
    /\ UNCHANGED <<owner, known, kept, sight, round, done, acts>>

\* t becomes what is wanted, or was last seen to be; with the last thing the round ends
Provide(t) ==
    /\ round # None /\ round.goal = "provide"
    /\ \/ kept' = [kept EXCEPT ![t] = Wanted(round.spec, t, kept[t])]
       \/ sight[t] = Wanted(round.spec, t, sight[t]) /\ UNCHANGED kept
    /\ \/ done' = done \union {t} /\ UNCHANGED round
       \/ done \union {t} = Things /\ Rest
    /\ UNCHANGED <<owner, known, sight, due, acts>>

\* The things in h are taken away, all or those that were seen
Withdraw(h) ==
    /\ round # None /\ round.goal = "withdraw"
    /\ \/ kept' = [t \in Things |-> IF t \in h THEN None ELSE kept[t]]
       \/ kept' = [t \in Things |-> IF t \in h /\ sight[t] # None THEN None ELSE kept[t]]
    /\ done' = done \union h
    /\ UNCHANGED <<owner, known, sight, round, due, acts>>

\* The ArgocdUser is let go
Release ==
    /\ round # None /\ round.goal = "withdraw"
    /\ owner # None /\ owner.phase = "deleting" /\ owner.spec = round.spec
    /\ \A t \in Things : Outlives(round.spec, t) \/ t \in done
    /\ owner' = None
    /\ Rest
    /\ UNCHANGED <<known, kept, sight, due, acts>>

\* A round that is broken off is made up for
BreakOff ==
    /\ Rest /\ due' = TRUE
    /\ UNCHANGED <<owner, known, kept, sight, acts>>

HearOfOwner ==
    /\ known' = owner /\ due' = TRUE
    /\ UNCHANGED <<owner, kept, sight, round, done, acts>>

\* News of an object that holds things is followed by a round, if there is an ArgocdUser
HearOf(h) ==
    /\ sight' = [t \in Things |-> IF t \in h THEN kept[t] ELSE sight[t]]
    /\ due' \in BOOLEAN /\ (due \/ known # None => due')
    /\ UNCHANGED <<owner, known, kept, round, done, acts>>

\* The operator loses its memory, and is told everything anew
Forget ==
    /\ known' = owner /\ sight' = kept
    /\ Rest
    /\ due' = (owner # None)
    /\ UNCHANGED <<owner, kept, acts>>

Operate ==
    \/ Begin \/ Adopt \/ Ignore \/ Release \/ BreakOff \/ HearOfOwner \/ Forget
    \/ \E t \in Things : Provide(t)
    \/ \E h \in Holders : Withdraw(h) \/ HearOf(h)

-----------------------------------------------------------------------------
\* Everybody else: with its finalizer an ArgocdUser stays, and deletion is for good
Act ==
    /\ acts' = acts + 1
    /\ DOMAIN kept' = Things
    /\ owner' \in {None} \union User
    /\ owner # None /\ owner.phase # "new" =>
        /\ owner' # None /\ owner'.phase # "new"
        /\ owner.phase = "deleting" => owner'.phase = "deleting"
    /\ UNCHANGED <<known, sight, round, done, due>>

Next == Operate \/ Act

Spec == Init /\ [][Next]_vars
=============================================================================
