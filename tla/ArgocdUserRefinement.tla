------------------------- MODULE ArgocdUserRefinement -------------------------
(***************************************************************************)
(* ArgocdUser implements Provision, for any roles, passwords, users and    *)
(* specs and whatever the bounds.                                          *)
(***************************************************************************)
EXTENDS ArgocdUserProofs

\* Nothing of a cleanup before its Groups depends on how far the roles have got
CleaningStarts == worker.pc \in {"cleanAccounts", "cleanPasswords"} => worker.i = 1

LEMMA CleaningStartsStep == UserInv /\ CleaningStarts /\ [Next]_vars => CleaningStarts'
<1> SUFFICES ASSUME UserInv, CleaningStarts, [Next]_vars PROVE CleaningStarts'
  OBVIOUS
<1> USE DEF UserInv, TypeOK, WorkerOK, CleaningStarts
<1>1. CASE Start \/ StartNew
  BY <1>1 DEF Start, StartNew, Held, Idle
<1>2. CASE worker' = Idle \/ UNCHANGED worker
  BY <1>2 DEF Idle
<1>3. CASE UpdateAccount \/ UpdatePassword
  BY <1>3 DEF UpdateAccount, UpdatePassword, Goto
<1>4. CASE CreateGroup \/ KeepGroup \/ UpdateGroup
  <2>1. NextRole
    BY <1>4 DEF CreateGroup, KeepGroup, UpdateGroup
  <2>2. worker'.pc \in {"account", "idle"}
    BY <2>1 DEF NextRole, Idle
  <2> QED
    BY <2>2
<1>5. CASE RemoveConfigMapEntries
  BY <1>5 DEF RemoveConfigMapEntries, Goto
<1>6. CASE RemoveSecretEntries
  BY <1>6 DEF RemoveSecretEntries
<1>7. CASE DeleteGroup
  BY <1>7 DEF DeleteGroup
<1> QED
  BY <1>1, <1>2, <1>3, <1>4, <1>5, <1>6, <1>7, WorkerRests DEF Next, Reconcile

-----------------------------------------------------------------------------
(* Things.                                                                 *)

\* The account, the password and the Group of a role are things
LEMMA Pieces ==
  ASSUME NEW r \in Role
  PROVE  <<"account", r>> \in Thing /\ <<"password", r>> \in Thing /\ <<"group", r>> \in Thing
BY DEF Thing

\* There are no other things
LEMMA Every ==
  ASSUME NEW t \in Thing
  PROVE  \E r \in Role : t \in {<<"account", r>>, <<"password", r>>, <<"group", r>>}
BY DEF Thing

\* What they are, and what they were when they were seen
LEMMA KeptPieces ==
  ASSUME NEW r \in Role
  PROVE  /\ Kept[<<"account", r>>] = IF r \in accounts THEN "declared" ELSE Absent
         /\ Kept'[<<"account", r>>] = IF r \in accounts' THEN "declared" ELSE Absent
         /\ Kept[<<"password", r>>] = passwords[r] /\ Kept'[<<"password", r>>] = passwords'[r]
         /\ Kept[<<"group", r>>] = groups[r] /\ Kept'[<<"group", r>>] = groups'[r]
<1>1. <<"account", r>> \in Thing /\ <<"password", r>> \in Thing /\ <<"group", r>> \in Thing
  BY Pieces
<1> QED
  BY <1>1 DEF Kept, Contents

LEMMA SightPieces ==
  ASSUME NEW r \in Role
  PROVE  /\ Sight[<<"account", r>>] = IF r \in accountsSeen THEN "declared" ELSE Absent
         /\ Sight[<<"password", r>>] = passwordsSeen[r]
         /\ Sight[<<"group", r>>] = groupsSeen[r]
         /\ Sight'[<<"account", r>>] = IF r \in accountsSeen' THEN "declared" ELSE Absent
         /\ Sight'[<<"password", r>>] = passwordsSeen'[r]
         /\ Sight'[<<"group", r>>] = groupsSeen'[r]
<1>1. <<"account", r>> \in Thing /\ <<"password", r>> \in Thing /\ <<"group", r>> \in Thing
  BY Pieces
<1> QED
  BY <1>1 DEF Sight, Contents

\* A thing is written if nothing else is
LEMMA OneThing ==
  ASSUME NEW t \in Thing, \A u \in Thing : u # t => Kept'[u] = Kept[u]
  PROVE  Kept' = [Kept EXCEPT ![t] = Kept'[t]]
<1> DEFINE C == Kept
           D == Kept'
<1>1. C = [u \in Thing |-> C[u]] /\ D = [u \in Thing |-> D[u]]
  BY DEF Kept, Contents
<1> HIDE DEF C, D
<1>2. \A u \in Thing : u # t => D[u] = C[u]
  BY DEF C, D
<1>3. [C EXCEPT ![t] = D[t]] = [u \in Thing |-> IF u = t THEN D[t] ELSE C[u]]
  BY <1>1
<1>4. D = [C EXCEPT ![t] = D[t]]
  BY <1>1, <1>2, <1>3
<1> QED
  BY <1>4 DEF C, D

-----------------------------------------------------------------------------
(* Rounds.                                                                 *)

\* What the steps are seen through: each mapped variable changes with its own
\* variables only
LEMMA Unmoved ==
  /\ UNCHANGED <<accounts, passwords, groups>> => UNCHANGED Kept
  /\ UNCHANGED <<accountsSeen, passwordsSeen, groupsSeen>> => UNCHANGED Sight
  /\ UNCHANGED worker => UNCHANGED <<Round, Done>>
<1>1. UNCHANGED worker => UNCHANGED <<Round, Done>>
  <2> SUFFICES ASSUME UNCHANGED worker PROVE UNCHANGED <<Round, Done>>
    OBVIOUS
  <2>1. UNCHANGED <<Providing, role, spec, Behind>>
    BY DEF Providing, role, spec, Behind
  <2> QED
    BY <2>1 DEF Round, Done
<1> QED
  BY <1>1 DEF Kept, Sight, Contents

\* An idle worker is in no round
LEMMA IdleRests ==
  /\ worker.pc = "idle" => Round = Absent /\ Done = {}
  /\ worker' = Idle => Round' = Absent /\ Done' = {}
BY DEF Idle, Round, Done, Providing

\* A worker at work is in one
LEMMA RoundGoes ==
  ASSUME UserInv, worker.pc # "idle"
  PROVE  /\ Round # Absent /\ Round.spec = spec /\ spec \in Declaration
         /\ Round.goal = IF Providing THEN "provide" ELSE "withdraw"
<1>1. spec \in Declaration
  BY RoleAtHand DEF UserInv
<1>2. Round = [goal |-> IF Providing THEN "provide" ELSE "withdraw", spec |-> spec]
  BY DEF Round
<1> QED
  BY <1>1, <1>2, AbsentAssumption

\* The roles behind, when there is one more
LEMMA OneMoreBehind ==
  ASSUME NEW i \in 1..Len(Roles)
  PROVE  {Roles[j] : j \in 1..i} = {Roles[j] : j \in 1..(i - 1)} \union {Roles[i]}
<1>1. Len(Roles) \in Nat
  BY ParametersAssumption, LenProperties
<1>2. 1..i = 1..(i - 1) \union {i}
  BY <1>1
<1> QED
  BY <1>2

\* A round that begins has dealt with nothing
LEMMA NothingDone ==
  ASSUME worker'.i = 1, worker'.pc \in {"account", "cleanAccounts"}
  PROVE  Done' = {}
<1>1. Behind' = {}
  BY DEF Behind
<1> QED
  BY <1>1 DEF Done, Providing

\* The rounds begin
LEMMA StartRefines ==
  ASSUME UserInv, Start \/ StartNew \/ StartGone
  PROVE  P!Next
<1> USE DEF objects, copies, bounds
<1>1. CASE StartGone
  <2>1. P!Ignore
    BY <1>1, Unmoved, IdleRests DEF StartGone, P!Ignore
  <2> QED
    BY <2>1 DEF P!Next, P!Operate
<1>2. CASE Start
  <2>1. /\ worker' = [Held EXCEPT !.pc = IF userSeen.phase = "live" THEN "account" ELSE "cleanAccounts"]
        /\ worker.pc = "idle" /\ userSeen # Absent /\ userSeen.phase \in {"live", "deleting"}
        /\ queued = TRUE /\ queued' = FALSE
        /\ UNCHANGED <<user, userSeen, Kept, Sight, changes>>
    BY <1>2, Unmoved DEF Start, UserInv, TypeOK
  <2>2. Round' = [goal |-> IF userSeen.phase = "live" THEN "provide" ELSE "withdraw",
                  spec |-> userSeen.spec]
    BY <2>1 DEF Held, Idle, Round, Providing, spec
  <2>3. Done' = {}
    BY <2>1, NothingDone DEF Held, Idle
  <2>4. P!Begin
    BY <2>1, <2>2, <2>3, IdleRests DEF P!Begin, P!NewRound
  <2> QED
    BY <2>4 DEF P!Next, P!Operate
<1>3. CASE StartNew
  <2>1. /\ worker' = [Held EXCEPT !.pc = "account"]
        /\ worker.pc = "idle" /\ user = userSeen /\ user # Absent /\ user.phase = "new"
        /\ user' = [user EXCEPT !.phase = "live"]
        /\ queued = TRUE /\ queued' = FALSE
        /\ UNCHANGED <<userSeen, Kept, Sight, changes>>
    BY <1>3, Unmoved DEF StartNew, WriteUser, UserInv, TypeOK, Copies
  <2>2. Round' = [goal |-> "provide", spec |-> user.spec]
    BY <2>1 DEF Held, Idle, Round, Providing, spec
  <2>3. Done' = {}
    BY <2>1, NothingDone DEF Held, Idle
  <2>4. P!Adopt
    BY <2>1, <2>2, <2>3, IdleRests DEF P!Adopt, P!NewRound
  <2> QED
    BY <2>4 DEF P!Next, P!Operate
<1> QED
  BY <1>1, <1>2, <1>3

\* ... and are broken off
LEMMA FailRefines ==
  ASSUME UserInv,
         UserRefused \/ UpdateAccountPanics \/ PasswordTooLong \/ GroupRefused \/ CallFails
  PROVE  P!Next
<1>1. Fail /\ UNCHANGED <<user, userSeen, Kept, Sight, changes>>
  BY Unmoved DEF UserRefused, UpdateAccountPanics, PasswordTooLong, GroupRefused, CallFails,
     objects, copies, bounds
<1>2. P!BreakOff
  BY <1>1, IdleRests DEF Fail, P!BreakOff, P!Rest
<1> QED
  BY <1>2 DEF P!Next, P!Operate

-----------------------------------------------------------------------------
(* Providing.                                                              *)

\* What a step of a reconcile is to the round
LEMMA ProvideRefines ==
  ASSUME UserInv, NEW t \in Thing, Providing,
         \/ Kept' = [Kept EXCEPT ![t] = Wanted(spec, t, Kept[t])]
         \/ Sight[t] = Wanted(spec, t, Sight[t]) /\ UNCHANGED Kept,
         \/ Done' = Done \union {t} /\ UNCHANGED Round
         \/ Done \union {t} = Thing /\ worker' = Idle,
         UNCHANGED <<user, userSeen, Sight, queued, changes>>
  PROVE  P!Next
<1>1. Round # Absent /\ Round.goal = "provide" /\ Round.spec = spec
  BY RoundGoes DEF Providing
<1>2. P!Provide(t)
  BY <1>1, IdleRests DEF P!Provide, P!Rest
<1> QED
  BY <1>2 DEF P!Next, P!Operate

\* The worker goes on with the same role
LEMMA SameRole ==
  ASSUME UserInv, NEW pc \in {"password", "group"}, worker' = [worker EXCEPT !.pc = pc],
         worker.pc = IF pc = "password" THEN "account" ELSE "password"
  PROVE  /\ UNCHANGED Round
         /\ Done' = Done \union {<<worker.pc, role>>}
<1>1. worker'.pc = pc /\ worker'.i = worker.i /\ worker'.held = worker.held
  BY DEF UserInv, TypeOK, WorkerOK
<1>2. UNCHANGED <<role, spec, Behind>>
  BY <1>1 DEF role, spec, Behind
<1>3. Providing /\ Providing'
  BY <1>1 DEF Providing
<1>4. UNCHANGED Round
  BY <1>1, <1>2, <1>3 DEF Round
<1>5. Done' = Done \union {<<worker.pc, role>>}
  BY <1>1, <1>2, <1>3 DEF Done
<1> QED
  BY <1>4, <1>5

\* ... with the next one, or is done
LEMMA AnotherRole ==
  ASSUME UserInv, worker.pc = "group", NextRole
  PROVE  \/ Done' = Done \union {<<"group", role>>} /\ UNCHANGED Round
         \/ Done \union {<<"group", role>>} = Thing /\ worker' = Idle
<1> DEFINE Kinds == {"account", "password", "group"}
           Passed == {Roles[j] : j \in 1..worker.i}
<1>1. worker.i \in 1..Len(Roles) /\ Len(Roles) \in Nat
  BY ParametersAssumption, LenProperties DEF UserInv, TypeOK, WorkerOK
<1>2. Passed = Behind \union {role}
  BY <1>1, OneMoreBehind DEF Behind, role
<1>3. Done = Kinds \X Behind \union {<<"account", role>>, <<"password", role>>}
  BY DEF Done, Providing
<1>4. Done \union {<<"group", role>>} = Kinds \X Passed
  BY <1>2, <1>3
<1>5. CASE worker.i < Len(Roles)
  <2>1. worker'.pc = "account" /\ worker'.i = worker.i + 1 /\ worker'.held = worker.held
    BY <1>1, <1>5 DEF NextRole, UserInv, TypeOK, WorkerOK
  <2>2. Behind' = Passed
    <3>1. (worker.i + 1) - 1 = worker.i
      BY <1>1
    <3> QED
      BY <2>1, <3>1 DEF Behind
  <2>3. Done' = Kinds \X Passed
    BY <2>1, <2>2 DEF Done, Providing
  <2>4. UNCHANGED Round
    BY <2>1 DEF Round, Providing, spec
  <2> QED
    BY <1>4, <2>3, <2>4
<1>6. CASE ~(worker.i < Len(Roles))
  <2>1. worker.i = Len(Roles)
    BY <1>1, <1>6
  <2>2. Passed = Role
    BY <2>1 DEF Role
  <2> QED
    BY <1>4, <1>6, <2>2 DEF NextRole, Thing
<1> QED
  BY <1>5, <1>6

LEMMA AccountRefines ==
  ASSUME UserInv, UpdateAccount
  PROVE  P!Next
<1> DEFINE t == <<"account", role>>
<1>1. role \in Role /\ t \in Thing
  BY RoleAtHand, Pieces DEF UserInv
<1>2. Providing /\ Wanted(spec, t, Kept[t]) = "declared" /\ Wanted(spec, t, Sight[t]) = "declared"
  BY DEF UpdateAccount, Providing, Wanted
<1>3. accounts' = accounts \union ({role} \ accountsSeen) /\ UNCHANGED <<passwords, groups>>
  BY DEF UpdateAccount, PatchConfigMap
<1>4. UNCHANGED Round /\ Done' = Done \union {t}
  BY SameRole DEF UpdateAccount, Goto
<1>5. UNCHANGED <<user, userSeen, Sight, queued, changes>>
  BY Unmoved DEF UpdateAccount, copies, bounds
<1>6. CASE role \in accountsSeen
  <2>1. accounts' = accounts
    BY <1>3, <1>6
  <2>2. UNCHANGED Kept
    BY <1>3, <2>1, Unmoved
  <2>3. Sight[t] = "declared"
    BY <1>1, <1>6, SightPieces
  <2> QED
    BY <1>1, <1>2, <1>4, <1>5, <2>2, <2>3, ProvideRefines
<1>7. CASE role \notin accountsSeen
  <2>1. \A u \in Thing : u # t => Kept'[u] = Kept[u]
    <3> SUFFICES ASSUME NEW u \in Thing, u # t PROVE Kept'[u] = Kept[u]
      OBVIOUS
    <3>1. PICK r \in Role : u \in {<<"account", r>>, <<"password", r>>, <<"group", r>>}
      BY Every
    <3> QED
      BY <1>3, <3>1, KeptPieces
  <2>2. Kept'[t] = "declared"
    BY <1>1, <1>3, <1>7, KeptPieces
  <2>3. Kept' = [Kept EXCEPT ![t] = Wanted(spec, t, Kept[t])]
    BY <1>1, <1>2, <2>1, <2>2, OneThing
  <2> QED
    BY <1>1, <1>2, <1>4, <1>5, <2>3, ProvideRefines
<1> QED
  BY <1>6, <1>7

LEMMA PasswordRefines ==
  ASSUME UserInv, UpdatePassword
  PROVE  P!Next
<1> DEFINE t == <<"password", role>>
<1>1. role \in Role /\ t \in Thing
  BY RoleAtHand, Pieces DEF UserInv
<1>2. /\ Providing
      /\ Wanted(spec, t, Kept[t]) = spec.pass[role] /\ Wanted(spec, t, Sight[t]) = spec.pass[role]
  BY DEF UpdatePassword, Providing, Wanted
<1>3. UNCHANGED Round /\ Done' = Done \union {t}
  BY SameRole DEF UpdatePassword, Goto
<1>4. UNCHANGED <<user, userSeen, Sight, queued, changes, accounts, groups>>
  BY Unmoved DEF UpdatePassword, copies, bounds
<1>5. CASE passwordsSeen[role] = spec.pass[role]
  <2>1. UNCHANGED Kept
    BY <1>4, <1>5, Unmoved DEF UpdatePassword
  <2>2. Sight[t] = spec.pass[role]
    BY <1>1, <1>5, SightPieces
  <2> QED
    BY <1>1, <1>2, <1>3, <1>4, <2>1, <2>2, ProvideRefines
<1>6. CASE passwordsSeen[role] # spec.pass[role]
  <2>1. passwords' = [passwords EXCEPT ![role] = spec.pass[role]]
    BY <1>6 DEF UpdatePassword
  <2>2. \A r \in Role : passwords'[r] = IF r = role THEN spec.pass[role] ELSE passwords[r]
    BY <2>1 DEF UserInv, TypeOK
  <2>3. \A u \in Thing : u # t => Kept'[u] = Kept[u]
    <3> SUFFICES ASSUME NEW u \in Thing, u # t PROVE Kept'[u] = Kept[u]
      OBVIOUS
    <3>1. PICK r \in Role : u \in {<<"account", r>>, <<"password", r>>, <<"group", r>>}
      BY Every
    <3>2. CASE u = <<"password", r>>
      <4>1. r # role
        BY <3>2
      <4> QED
        BY <2>2, <3>2, <4>1, KeptPieces
    <3>3. CASE u # <<"password", r>>
      <4>1. accounts' = accounts /\ groups' = groups
        BY <1>4
      <4> QED
        BY <3>1, <3>3, <4>1, KeptPieces
    <3> QED
      BY <3>2, <3>3
  <2>4. Kept'[t] = spec.pass[role]
    BY <1>1, <2>2, KeptPieces
  <2>5. Kept' = [Kept EXCEPT ![t] = Wanted(spec, t, Kept[t])]
    BY <1>1, <1>2, <2>3, <2>4, OneThing
  <2> QED
    BY <1>1, <1>2, <1>3, <1>4, <2>5, ProvideRefines
<1> QED
  BY <1>5, <1>6

\* A Group is written from the newest version, or left alone for what the copy shows
LEMMA GroupRefines ==
  ASSUME UserInv, CreateGroup \/ KeepGroup \/ UpdateGroup
  PROVE  P!Next
<1> DEFINE t == <<"group", role>>
<1>1. role \in Role /\ t \in Thing
  BY RoleAtHand, Pieces DEF UserInv
<1>2. worker.pc = "group" /\ NextRole /\ UNCHANGED <<user, userSeen, Sight, queued, changes>>
  BY Unmoved DEF CreateGroup, KeepGroup, UpdateGroup, objects, copies, bounds
<1>3. Providing
  BY <1>2 DEF Providing
<1>4. \/ Done' = Done \union {t} /\ UNCHANGED Round
      \/ Done \union {t} = Thing /\ worker' = Idle
  BY <1>2, AnotherRole
<1>5. CASE KeepGroup
  <2>1. UNCHANGED Kept
    BY <1>5, Unmoved DEF KeepGroup, objects
  <2>2. groupsSeen[role] # Absent /\ DesiredGroupUsers(groupsSeen[role]) = groupsSeen[role]
    BY <1>5 DEF KeepGroup, GroupIsDesired
  <2>3. Sight[t] = Wanted(spec, t, Sight[t])
    BY <1>1, <2>2, SightPieces DEF Wanted, DesiredGroupUsers
  <2> QED
    BY <1>1, <1>2, <1>3, <1>4, <2>1, <2>3, ProvideRefines
<1>6. CASE CreateGroup \/ UpdateGroup
  <2> DEFINE members == IF spec.auth \/ groups[role] = Absent THEN spec.users[role]
                        ELSE groups[role] \union spec.users[role]
  <2>1. groups' = [groups EXCEPT ![role] = members] /\ UNCHANGED <<accounts, passwords>>
    BY <1>1, <1>6 DEF CreateGroup, UpdateGroup, WriteGroup, DesiredGroupUsers, UserInv, Copies
  <2>2. /\ groups'[role] = members
        /\ \A r \in Role : r # role => groups'[r] = groups[r]
    BY <1>1, <2>1 DEF UserInv, TypeOK
  <2>3. \A u \in Thing : u # t => Kept'[u] = Kept[u]
    <3> SUFFICES ASSUME NEW u \in Thing, u # t PROVE Kept'[u] = Kept[u]
      OBVIOUS
    <3>1. PICK r \in Role : u \in {<<"account", r>>, <<"password", r>>, <<"group", r>>}
      BY Every
    <3>2. accounts' = accounts /\ passwords' = passwords
      BY <2>1
    <3>3. u = <<"group", r>> => groups'[r] = groups[r]
      BY <2>2
    <3> QED
      BY <3>1, <3>2, <3>3, KeptPieces
  <2>4. Kept'[t] = members /\ Wanted(spec, t, Kept[t]) = members
    BY <1>1, <2>2, KeptPieces DEF Wanted
  <2>5. Kept' = [Kept EXCEPT ![t] = Wanted(spec, t, Kept[t])]
    BY <1>1, <2>3, <2>4, OneThing
  <2> QED
    BY <1>1, <1>2, <1>3, <1>4, <2>5, ProvideRefines
<1> QED
  BY <1>5, <1>6

-----------------------------------------------------------------------------
(* Withdrawing.                                                            *)

\* How far a cleanup has got
LEMMA Cleaned ==
  /\ worker.pc = "cleanAccounts" => Done = {}
  /\ worker.pc = "cleanPasswords" => Done = All("account")
  /\ worker.pc = "cleanGroups" => Done = All("account") \union All("password") \union {"group"} \X Behind
  /\ worker.pc = "finalizer" => Done = All("account") \union All("password") \union
                                       (IF spec.auth THEN All("group") ELSE {})
BY DEF Done, Providing

\* Whoever is in an object that holds things
LEMMA InHolders ==
  ASSUME NEW r \in Role
  PROVE  /\ <<"account", r>> \in All("account") /\ <<"account", r>> \notin All("password")
         /\ <<"password", r>> \in All("password") /\ <<"password", r>> \notin All("account")
         /\ <<"group", r>> \notin All("account") /\ <<"group", r>> \notin All("password")
BY DEF All

\* Taking away what is there, or what was seen
LEMMA WithdrawRefines ==
  ASSUME UserInv, NEW h \in Holders, worker.pc # "idle", ~Providing,
         \/ \A u \in Thing : Kept'[u] = IF u \in h THEN Absent ELSE Kept[u]
         \/ \A u \in Thing : Kept'[u] = IF u \in h /\ Sight[u] # Absent THEN Absent ELSE Kept[u],
         UNCHANGED Round, Done' = Done \union h,
         UNCHANGED <<user, userSeen, Sight, queued, changes>>
  PROVE  P!Next
<1> DEFINE D == Kept'
           All1 == [u \in Thing |-> IF u \in h THEN Absent ELSE Kept[u]]
           Seen == [u \in Thing |-> IF u \in h /\ Sight[u] # Absent THEN Absent ELSE Kept[u]]
<1>1. D = [u \in Thing |-> D[u]]
  BY DEF Kept, Contents
<1>2. D = All1 \/ D = Seen
  <2> HIDE DEF D
  <2>1. \/ \A u \in Thing : D[u] = IF u \in h THEN Absent ELSE Kept[u]
        \/ \A u \in Thing : D[u] = IF u \in h /\ Sight[u] # Absent THEN Absent ELSE Kept[u]
    BY DEF D
  <2> QED
    BY <1>1, <2>1
<1>3. Round # Absent /\ Round.goal = "withdraw"
  BY RoundGoes
<1>4. P!Withdraw(h)
  BY <1>2, <1>3 DEF P!Withdraw
<1> QED
  BY <1>4 DEF P!Next, P!Operate

LEMMA EntriesRefine ==
  ASSUME UserInv, CleaningStarts, RemoveConfigMapEntries \/ RemoveSecretEntries
  PROVE  P!Next
<1>1. CASE RemoveConfigMapEntries
  <2>1. /\ worker.pc = "cleanAccounts" /\ worker' = [worker EXCEPT !.pc = "cleanPasswords"]
        /\ accounts' = accounts \ (accountsSeen \intersect Role)
        /\ UNCHANGED <<passwords, groups, user, userSeen, Sight, queued, changes>>
    BY <1>1, Unmoved DEF RemoveConfigMapEntries, PatchConfigMap, Goto, copies, bounds
  <2>2. worker'.pc = "cleanPasswords" /\ worker'.held = worker.held
    BY <2>1 DEF UserInv, TypeOK, WorkerOK
  <2>3. UNCHANGED Round /\ ~Providing
    BY <2>1, <2>2 DEF Round, Providing, spec
  <2>4. Done' = Done \union All("account")
    BY <2>1, <2>2, Cleaned DEF Done, Providing
  <2>5. ASSUME NEW u \in Thing
        PROVE  Kept'[u] = IF u \in All("account") /\ Sight[u] # Absent THEN Absent ELSE Kept[u]
    <3>1. PICK r \in Role : u \in {<<"account", r>>, <<"password", r>>, <<"group", r>>}
      BY Every
    <3>2. r \in accounts' <=> r \in accounts /\ r \notin accountsSeen
      BY <2>1
    <3>3. UNCHANGED <<passwords, groups>>
      BY <2>1
    <3>4. CASE u = <<"account", r>>
      BY <3>2, <3>4, KeptPieces, SightPieces, InHolders, AbsentAssumption
    <3>5. CASE u # <<"account", r>>
      BY <3>1, <3>3, <3>5, KeptPieces, InHolders
    <3> QED
      BY <3>4, <3>5
  <2>6. All("account") \in Holders
    BY DEF Holders
  <2> QED
    BY <2>1, <2>3, <2>4, <2>5, <2>6, WithdrawRefines
<1>2. CASE RemoveSecretEntries
  <2>1. /\ worker.pc = "cleanPasswords"
        /\ worker' = [worker EXCEPT !.pc = IF spec.auth THEN "cleanGroups" ELSE "finalizer"]
        /\ passwords' = [r \in Role |-> IF passwordsSeen[r] = Absent THEN passwords[r] ELSE Absent]
        /\ UNCHANGED <<accounts, groups, user, userSeen, Sight, queued, changes>>
    BY <1>2, Unmoved DEF RemoveSecretEntries, PatchSecret, copies, bounds
  <2>2. /\ worker'.pc = IF spec.auth THEN "cleanGroups" ELSE "finalizer"
        /\ worker'.held = worker.held /\ worker'.i = 1
    BY <2>1 DEF UserInv, TypeOK, WorkerOK, CleaningStarts
  <2>3. UNCHANGED Round /\ ~Providing
    BY <2>1, <2>2 DEF Round, Providing, spec
  <2>4. Done' = Done \union All("password")
    <3>1. Behind' = {} /\ UNCHANGED spec
      BY <2>2 DEF Behind, spec
    <3>2. Done' = All("account") \union All("password")
      BY <2>2, <3>1 DEF Done, Providing
    <3> QED
      BY <2>1, <3>2, Cleaned
  <2>5. ASSUME NEW u \in Thing
        PROVE  Kept'[u] = IF u \in All("password") /\ Sight[u] # Absent THEN Absent ELSE Kept[u]
    <3>1. PICK r \in Role : u \in {<<"account", r>>, <<"password", r>>, <<"group", r>>}
      BY Every
    <3>2. passwords'[r] = IF passwordsSeen[r] = Absent THEN passwords[r] ELSE Absent
      BY <2>1
    <3>3. UNCHANGED <<accounts, groups>>
      BY <2>1
    <3>4. CASE u = <<"password", r>>
      BY <3>2, <3>4, KeptPieces, SightPieces, InHolders
    <3>5. CASE u # <<"password", r>>
      BY <3>1, <3>3, <3>5, KeptPieces, InHolders
    <3> QED
      BY <3>4, <3>5
  <2>6. All("password") \in Holders
    BY DEF Holders
  <2> QED
    BY <2>1, <2>3, <2>4, <2>5, <2>6, WithdrawRefines
<1> QED
  BY <1>1, <1>2

LEMMA DeleteGroupRefines ==
  ASSUME UserInv, DeleteGroup
  PROVE  P!Next
<1> DEFINE Passed == {Roles[j] : j \in 1..worker.i}
           h == {<<"group", role>>}
<1>1. worker.i \in 1..Len(Roles) /\ Len(Roles) \in Nat /\ role \in Role
  BY ParametersAssumption, LenProperties, RoleAtHand DEF UserInv, TypeOK, WorkerOK
<1>2. /\ worker.pc = "cleanGroups" /\ spec.auth
      /\ UNCHANGED <<accounts, passwords, user, userSeen, Sight, queued, changes>>
  BY Unmoved DEF DeleteGroup, copies, bounds, UserInv, Cleaning, spec
<1>3. Passed = Behind \union {role}
  BY <1>1, OneMoreBehind DEF Behind, role
<1>4. Done \union h = All("account") \union All("password") \union {"group"} \X Passed
  BY <1>2, <1>3, Cleaned
<1>5. UNCHANGED Round /\ Done' = Done \union h
  <2>1. CASE worker.i < Len(Roles)
    <3>1. worker'.pc = "cleanGroups" /\ worker'.i = worker.i + 1 /\ worker'.held = worker.held
      BY <1>1, <1>2, <2>1 DEF DeleteGroup, UserInv, TypeOK, WorkerOK
    <3>2. Behind' = Passed
      <4>1. (worker.i + 1) - 1 = worker.i
        BY <1>1
      <4> QED
        BY <3>1, <4>1 DEF Behind
    <3>3. Done' = All("account") \union All("password") \union {"group"} \X Passed
      BY <3>1, <3>2 DEF Done, Providing
    <3>4. UNCHANGED Round
      BY <1>2, <3>1 DEF Round, Providing, spec
    <3> QED
      BY <1>4, <3>3, <3>4
  <2>2. CASE ~(worker.i < Len(Roles))
    <3>1. worker'.pc = "finalizer" /\ worker'.held = worker.held
      BY <2>2 DEF DeleteGroup, UserInv, TypeOK, WorkerOK
    <3>2. Passed = Role
      <4>1. worker.i = Len(Roles)
        BY <1>1, <2>2
      <4> QED
        BY <4>1 DEF Role
    <3>3. spec'.auth
      BY <1>2, <3>1 DEF spec
    <3>4. Done' = All("account") \union All("password") \union All("group")
      BY <3>1, <3>3 DEF Done, Providing
    <3>5. UNCHANGED Round
      BY <1>2, <3>1 DEF Round, Providing, spec
    <3> QED
      BY <1>4, <3>2, <3>4, <3>5 DEF All
  <2> QED
    BY <2>1, <2>2
<1>6. \A r \in Role : groups'[r] = IF r = role THEN Absent ELSE groups[r]
  BY <1>1 DEF DeleteGroup, WriteGroup, UserInv, TypeOK
<1>7. ASSUME NEW u \in Thing PROVE Kept'[u] = IF u \in h THEN Absent ELSE Kept[u]
  <2>1. PICK r \in Role : u \in {<<"account", r>>, <<"password", r>>, <<"group", r>>}
    BY Every
  <2>2. accounts' = accounts /\ passwords' = passwords
    BY <1>2
  <2>3. CASE u = <<"group", r>>
    BY <1>6, <2>3, KeptPieces
  <2>4. CASE u = <<"account", r>>
    <3>1. u \notin h
      BY <2>4
    <3> QED
      BY <2>2, <2>4, <3>1, KeptPieces
  <2>5. CASE u = <<"password", r>>
    <3>1. u \notin h
      BY <2>5
    <3> QED
      BY <2>2, <2>5, <3>1, KeptPieces
  <2> QED
    BY <2>1, <2>3, <2>4, <2>5
<1>8. h \in Holders
  BY <1>1 DEF Holders
<1>9. ~Providing /\ worker.pc # "idle"
  BY <1>2 DEF Providing
<1> QED
  BY <1>2, <1>5, <1>7, <1>8, <1>9, WithdrawRefines

LEMMA FinalizerRefines ==
  ASSUME UserInv, RemoveFinalizer
  PROVE  P!Next
<1>1. /\ worker.pc = "finalizer" /\ worker' = Idle /\ user' = Absent
      /\ user # Absent /\ user.phase = "deleting" /\ user.spec = spec
      /\ UNCHANGED <<userSeen, Kept, Sight, queued, changes>>
  BY Unmoved DEF RemoveFinalizer, WriteUser, copies, bounds, UserInv, Copies, Cleaning, spec
<1>2. Round # Absent /\ Round.goal = "withdraw" /\ Round.spec = spec
  BY <1>1, RoundGoes DEF Providing
<1>3. \A t \in Thing : Outlives(spec, t) \/ t \in Done
  BY <1>1, Cleaned DEF Thing, All, Outlives
<1>4. P!Release
  BY <1>1, <1>2, <1>3, IdleRests DEF P!Release, P!Rest
<1> QED
  BY <1>4 DEF P!Next, P!Operate

-----------------------------------------------------------------------------
(* The informers, the people, and the operator's death.                    *)

\* News of one of the objects
LEMMA NewsRefines ==
  ASSUME UserInv, NEW h \in Holders,
         \A u \in Thing : Sight'[u] = IF u \in h THEN Kept[u] ELSE Sight[u],
         queued' \in BOOLEAN, queued \/ userSeen # Absent => queued',
         UNCHANGED <<user, userSeen, Kept, worker, changes>>
  PROVE  P!Next
<1> DEFINE D == Sight'
           Told == [u \in Thing |-> IF u \in h THEN Kept[u] ELSE Sight[u]]
<1>1. D = [u \in Thing |-> D[u]]
  BY DEF Sight, Contents
<1>2. D = Told
  <2> HIDE DEF D
  <2>1. \A u \in Thing : D[u] = IF u \in h THEN Kept[u] ELSE Sight[u]
    BY DEF D
  <2> QED
    BY <1>1, <2>1
<1>3. P!HearOf(h)
  BY <1>2, Unmoved DEF P!HearOf
<1> QED
  BY <1>3 DEF P!Next, P!Operate

LEMMA DeliverRefines ==
  ASSUME UserInv, Deliver
  PROVE  P!Next
<1> USE DEF objects, bounds
<1>1. CASE DeliverUser
  <2>1. P!HearOfOwner
    BY <1>1, Unmoved DEF DeliverUser, P!HearOfOwner
  <2> QED
    BY <2>1 DEF P!Next, P!Operate
<1>2. CASE DeliverConfigMap
  <2>1. /\ accountsSeen' = accounts
        /\ queued' = (queued \/ userSeen # Absent)
        /\ UNCHANGED <<user, userSeen, Kept, worker, changes, passwordsSeen, groupsSeen>>
    BY <1>2, Unmoved DEF DeliverConfigMap
  <2>2. ASSUME NEW u \in Thing
        PROVE  Sight'[u] = IF u \in All("account") THEN Kept[u] ELSE Sight[u]
    <3>1. PICK r \in Role : u \in {<<"account", r>>, <<"password", r>>, <<"group", r>>}
      BY Every
    <3>2. accountsSeen' = accounts
      BY <2>1
    <3>3. passwordsSeen' = passwordsSeen /\ groupsSeen' = groupsSeen
      BY <2>1
    <3>4. CASE u = <<"account", r>>
      BY <3>2, <3>4, KeptPieces, SightPieces, InHolders
    <3>5. CASE u = <<"password", r>>
      BY <3>3, <3>5, SightPieces, InHolders
    <3>6. CASE u = <<"group", r>>
      BY <3>3, <3>6, SightPieces, InHolders
    <3> QED
      BY <3>1, <3>4, <3>5, <3>6
  <2>3. All("account") \in Holders
    BY DEF Holders
  <2>4. queued' \in BOOLEAN /\ (queued \/ userSeen # Absent => queued')
    BY <2>1, Zenon
  <2> QED
    BY <2>1, <2>2, <2>3, <2>4, NewsRefines
<1>3. CASE DeliverSecret
  <2>1. /\ passwordsSeen' = passwords
        /\ queued' = (queued \/ userSeen # Absent)
        /\ UNCHANGED <<user, userSeen, Kept, worker, changes, accountsSeen, groupsSeen>>
    BY <1>3, Unmoved DEF DeliverSecret
  <2>2. ASSUME NEW u \in Thing
        PROVE  Sight'[u] = IF u \in All("password") THEN Kept[u] ELSE Sight[u]
    <3>1. PICK r \in Role : u \in {<<"account", r>>, <<"password", r>>, <<"group", r>>}
      BY Every
    <3>2. passwordsSeen' = passwords
      BY <2>1
    <3>3. accountsSeen' = accountsSeen /\ groupsSeen' = groupsSeen
      BY <2>1
    <3>4. CASE u = <<"password", r>>
      BY <3>2, <3>4, KeptPieces, SightPieces, InHolders
    <3>5. CASE u = <<"account", r>>
      BY <3>3, <3>5, SightPieces, InHolders
    <3>6. CASE u = <<"group", r>>
      BY <3>3, <3>6, SightPieces, InHolders
    <3> QED
      BY <3>1, <3>4, <3>5, <3>6
  <2>3. All("password") \in Holders
    BY DEF Holders
  <2>4. queued' \in BOOLEAN /\ (queued \/ userSeen # Absent => queued')
    BY <2>1, Zenon
  <2> QED
    BY <2>1, <2>2, <2>3, <2>4, NewsRefines
<1>4. ASSUME NEW q \in Role, DeliverGroup(q) PROVE P!Next
  <2> DEFINE h == {<<"group", q>>}
  <2>1. /\ groupsSeen' = [groupsSeen EXCEPT ![q] = groups[q]]
        /\ queued' = TRUE
        /\ UNCHANGED <<user, userSeen, Kept, worker, changes, accountsSeen, passwordsSeen>>
    BY <1>4, Unmoved DEF DeliverGroup
  <2>2. \A r \in Role : groupsSeen'[r] = IF r = q THEN groups[r] ELSE groupsSeen[r]
    BY <2>1 DEF UserInv, TypeOK
  <2>3. ASSUME NEW u \in Thing PROVE Sight'[u] = IF u \in h THEN Kept[u] ELSE Sight[u]
    <3>1. PICK r \in Role : u \in {<<"account", r>>, <<"password", r>>, <<"group", r>>}
      BY Every
    <3>2. accountsSeen' = accountsSeen /\ passwordsSeen' = passwordsSeen
      BY <2>1
    <3>3. CASE u = <<"group", r>>
      BY <2>2, <3>3, KeptPieces, SightPieces
    <3>4. CASE u = <<"account", r>>
      <4>1. u \notin h
        BY <3>4
      <4> QED
        BY <3>2, <3>4, <4>1, SightPieces
    <3>5. CASE u = <<"password", r>>
      <4>1. u \notin h
        BY <3>5
      <4> QED
        BY <3>2, <3>5, <4>1, SightPieces
    <3> QED
      BY <3>1, <3>3, <3>4, <3>5
  <2>4. h \in Holders
    BY DEF Holders
  <2> QED
    BY <2>1, <2>3, <2>4, NewsRefines
<1> QED
  BY <1>1, <1>2, <1>3, <1>4 DEF Deliver

LEMMA PeopleRefine ==
  ASSUME UserInv, People
  PROVE  P!Next
<1> DEFINE Legal ==
      /\ user' \in {Absent} \union P!User
      /\ user # Absent /\ user.phase # "new" =>
            /\ user' # Absent /\ user'.phase # "new"
            /\ user.phase = "deleting" => user'.phase = "deleting"
<1>1. user \in {Absent} \union User /\ P!User = User /\ Absent \notin User
  BY AbsentAssumption DEF UserInv, TypeOK, P!User, User
<1>2. changes' = changes + 1
  BY PeopleCount
<1>3. UNCHANGED <<copies, queued, worker>>
  BY DEF People, CreateUser, EditUser, DeleteUser, EditGroup, EditConfigMap, LosePassword
<1>4. Legal
  <2>1. CASE UNCHANGED user
    BY <1>1, <2>1
  <2>2. ASSUME NEW s \in Specs, CreateUser(s) PROVE Legal
    BY <1>1, <2>2, ParametersAssumption DEF CreateUser, WriteUser, User
  <2>3. ASSUME NEW s \in Specs, EditUser(s) PROVE Legal
    BY <1>1, <2>3, ParametersAssumption DEF EditUser, WriteUser, User
  <2>4. CASE DeleteUser
    BY <1>1, <2>4 DEF DeleteUser, WriteUser, User
  <2> QED
    BY <2>1, <2>2, <2>3, <2>4 DEF People, EditGroup, EditConfigMap, LosePassword
<1>5. DOMAIN Kept' = Thing
  BY DEF Kept, Contents
<1>6. P!Act
  BY <1>2, <1>3, <1>4, <1>5, Unmoved DEF P!Act, copies
<1> QED
  BY <1>6 DEF P!Next

LEMMA RestartRefines ==
  ASSUME Restart
  PROVE  P!Next
<1>1. Sight' = Kept /\ UNCHANGED Kept
  BY DEF Restart, Sight, Kept, Contents, objects
<1>2. P!Forget
  BY <1>1, IdleRests DEF Restart, objects, P!Forget, P!Rest
<1> QED
  BY <1>2 DEF P!Next, P!Operate

-----------------------------------------------------------------------------

LEMMA InitRefines == Init => P!Init
<1> SUFFICES ASSUME Init PROVE P!Init
  OBVIOUS
<1>1. user \in {Absent} \union P!User /\ userSeen = user
  BY ParametersAssumption DEF Init, P!User
<1>2. DOMAIN Kept = Thing /\ Sight = Kept
  BY DEF Init, Kept, Sight, Contents
<1>3. worker.pc = "idle"
  BY DEF Init, Idle
<1>4. queued = (user # Absent) /\ changes = 0
  BY Zenon DEF Init
<1> QED
  BY <1>1, <1>2, <1>3, <1>4, IdleRests DEF P!Init

\* Whatever lags, fails half way or is killed, the operator does for the accounts, the
\* passwords and the Groups of an ArgocdUser what Provision promises
THEOREM OperatorKeepsPromise == Spec => KeepsPromise
<1>1. Init => CleaningStarts
  BY DEF Init, CleaningStarts, Idle
<1>2. UserInv /\ CleaningStarts /\ [Next]_vars => [P!Next]_(P!vars)
  <2> SUFFICES ASSUME UserInv, CleaningStarts, [Next]_vars PROVE P!Next \/ UNCHANGED P!vars
    OBVIOUS
  <2>1. CASE UNCHANGED vars
    BY <2>1, Unmoved DEF vars, objects, copies, bounds, P!vars
  <2> QED
    BY <2>1, StartRefines, FailRefines, AccountRefines, PasswordRefines, GroupRefines,
       EntriesRefine, DeleteGroupRefines, FinalizerRefines, DeliverRefines, PeopleRefine,
       RestartRefines DEF Next, Reconcile
<1> QED
  BY <1>1, <1>2, InitRefines, CleaningStartsStep, UserInvariant, PTL
  DEF Spec, KeepsPromise, P!Spec

=============================================================================
