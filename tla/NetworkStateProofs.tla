------------------------- MODULE NetworkStateProofs -------------------------
(***************************************************************************)
(* The safety of NetworkState for any set of commands, any bound on their  *)
(* changes and any setups, provided no command unlocks a real lock early   *)
(* (`nixops ssh' does): its second unlock would release whoever has the    *)
(* lock by then.                                                           *)
(***************************************************************************)
EXTENDS NetworkState, TLAPS

NoEarlyUnlock ==
  \A s \in Setups : s.driver = "real" => \A p \in Command : s.kind[p] # "ssh"

Copied == {"fetched", "open", "session", "closing", "uploading"}
Busy == Copied \cup {"locked", "releasing"}

(***************************************************************************)
(* The inductive invariant.  HoldInv: the lock driver honours exactly the  *)
(* commands that locked and did not unlock, those that are gone included.  *)
(* FileInv: how the copies, the changes and the stored state file agree.   *)
(***************************************************************************)
HoldOK(p) ==
  /\ p \in holders => Locking(p) /\ pc[p] \in Busy \cup {"dead", "unfreed"}
  /\ Locking(p) /\ pc[p] \in Busy => p \in holders
  /\ pc[p] = "waiting" => Locking(p)
  /\ p \in holders => (Writable(p) <=> exclusive)
  /\ driver = "real" => kind[p] # "ssh"
  /\ pc[p] = "session" => kind[p] = "ssh"
  /\ pc[p] = "uploading" => Writable(p)

HoldInv == \A p \in Command : HoldOK(p)

StoreOK(p) ==
  /\ pc[p] \in {"idle", "waiting", "locked", "fetched"} => made[p] = 0
  /\ storage = "legacy" => stored[p] = made[p]
  /\ storage = "remote" /\ ~ Writable(p) => stored[p] = 0
  /\ stored[p] <= made[p]
  /\ Guarded /\ Writable(p) /\ pc[p] \in {"releasing", "ended", "unfreed"}
       /\ outcome[p] # "lost" => stored[p] = made[p]

\* What the copy of q says of p.
CopyOK(q, p) ==
  /\ local[q][p] <= made[p]
  /\ storage = "remote" /\ ~ Writable(p) /\ q # p => local[q][p] = 0
  /\ storage = "remote" /\ pc[p] \in Copied /\ q = p => local[q][p] = made[p]
  /\ storage = "remote" /\ Locking(q) /\ pc[q] \in Copied /\ q # p
       => local[q][p] = stored[p]

FileInv == \A p \in Command : StoreOK(p) /\ \A q \in Command : CopyOK(q, p)

IInv == TypeOK /\ HoldInv /\ FileInv
-----------------------------------------------------------------------------
LEMMA InitIInv == NoEarlyUnlock /\ Init => IInv
<1> SUFFICES ASSUME NoEarlyUnlock, Init PROVE IInv
  OBVIOUS
<1>1. PICK s \in Setups : storage = s.storage /\ driver = s.driver /\ kind = s.kind
  BY DEF Init
<1>2. /\ storage \in Storages /\ driver \in Drivers /\ kind \in [Command -> AllKinds]
      /\ driver = "real" => \A p \in Command : kind[p] # "ssh"
  BY <1>1, CommandAssumption DEF NoEarlyUnlock
<1>3. None \in [Command -> 0 .. MaxChanges]
  BY CommandAssumption DEF None
<1>4. TypeOK
  BY <1>2, <1>3 DEF Init, TypeOK
<1>5. HoldInv
  BY <1>2 DEF Init, HoldInv, HoldOK, Busy, Copied
<1>6. FileInv
  <2>1. \A p, q \in Command : made[p] = 0 /\ stored[p] = 0 /\ local[q][p] = 0 /\ pc[p] = "idle"
    BY DEF Init, None
  <2>2. ASSUME NEW p \in Command PROVE StoreOK(p)
    <3>1. pc[p] \notin {"releasing", "ended", "unfreed"} /\ stored[p] <= made[p]
      BY <2>1
    <3> QED  BY <2>1, <3>1 DEF StoreOK
  <2>3. \A p, q \in Command : CopyOK(q, p)
    BY <2>1 DEF CopyOK, Copied
  <2> QED  BY <2>2, <2>3 DEF FileInv
<1> QED  BY <1>4, <1>5, <1>6 DEF IInv

(* A mutating command that has the lock has it alone. *)
LEMMA HolderAlone ==
  ASSUME TypeOK, HoldInv, NEW p \in Command, Writable(p), p \in holders
  PROVE  holders = {p} /\ exclusive
BY DEF TypeOK, HoldInv, HoldOK

(* Releasing what one holds leaves the others what they hold. *)
LEMMA ReleaseOwn ==
  ASSUME TypeOK, NEW p \in Command, p \in holders, Release(p)
  PROVE  /\ holders' = holders \ {p}
         /\ exclusive' => FALSE
         /\ exclusive => holders = {p}
BY DEF TypeOK, Release, Released

(* The lock, the commands and the types. *)
LEMMA LockIInv ==
  ASSUME TypeOK, HoldInv, NEW p \in Command, Lock(p)
  PROVE  HoldInv' /\ (exclusive' => \E h \in Command : holders' = {h})
<1>1. /\ pc[p] = "waiting" /\ pc'[p] = "locked" /\ Locking(p)
      /\ \A q \in Command : q # p => pc'[q] = pc[q]
  BY DEF Lock, Goes, TypeOK, HoldInv, HoldOK
<1>2. UNCHANGED <<storage, driver, kind>> /\ holders' = holders \cup {p}
      /\ exclusive' = Writable(p) /\ exclusive' \in BOOLEAN
  BY DEF Lock, setupVars, Exclusively, Writable
<1>3. IF Writable(p) THEN holders = {} ELSE ~ exclusive
  BY DEF Lock, Grants, Exclusively
<1>4. \A q \in Command : HoldOK(q)'
  BY <1>1, <1>2, <1>3 DEF HoldInv, HoldOK, Busy, Copied, Locking, Writable
<1>5. exclusive' => holders' = {p}
  BY <1>2, <1>3
<1> QED  BY <1>4, <1>5 DEF HoldInv

LEMMA UnlockIInv ==
  ASSUME TypeOK, HoldInv, NEW p \in Command, Unlock(p) \/ UnlockFails(p)
  PROVE  HoldInv' /\ (exclusive' => \E h \in Command : holders' = {h})
<1>1. /\ pc[p] = "releasing" /\ \A q \in Command : q # p => pc'[q] = pc[q]
      /\ pc'[p] = "unfreed" \/ (pc'[p] = "ended" /\ (Locking(p) => Release(p)))
  BY DEF Unlock, UnlockFails, Goes, TypeOK
<1>2. UNCHANGED <<storage, driver, kind>>
  BY DEF Unlock, UnlockFails, setupVars
<1>3. CASE Release(p) /\ Locking(p)
  <2>1. p \in holders
    BY <1>1, <1>3 DEF HoldInv, HoldOK, Busy
  <2>2. holders' = holders \ {p} /\ ~ exclusive' /\ (exclusive => holders = {p})
    BY <1>3, <2>1, ReleaseOwn
  <2>3. exclusive' \in BOOLEAN
    BY <1>3 DEF Release
  <2>4. \A q \in Command : HoldOK(q)'
    BY <1>1, <1>2, <2>2, <2>3 DEF HoldInv, HoldOK, Busy, Copied, Locking, Writable, TypeOK
  <2> QED  BY <2>2, <2>4 DEF HoldInv
<1>4. CASE UNCHANGED lockVars /\ pc'[p] = "unfreed"
  <2>1. UNCHANGED <<holders, exclusive>>
    BY <1>4 DEF lockVars
  <2>2. \A q \in Command : HoldOK(q)'
    BY <1>1, <1>2, <1>4, <2>1 DEF HoldInv, HoldOK, Busy, Copied, Locking, Writable
  <2> QED  BY <2>1, <2>2 DEF HoldInv, TypeOK
<1>5. CASE ~ Locking(p)
  <2>1. UNCHANGED <<holders, exclusive>> /\ p \notin holders
    BY <1>5 DEF Unlock, UnlockFails, lockVars, HoldInv, HoldOK
  <2>2. \A q \in Command : HoldOK(q)'
    BY <1>1, <1>2, <1>5, <2>1 DEF HoldInv, HoldOK, Busy, Copied, Locking, Writable
  <2> QED  BY <2>1, <2>2 DEF HoldInv, TypeOK
<1>6. (Release(p) /\ Locking(p)) \/ (UNCHANGED lockVars /\ pc'[p] = "unfreed") \/ ~ Locking(p)
  BY DEF Unlock, UnlockFails, Goes, TypeOK
<1> QED  BY <1>3, <1>4, <1>5, <1>6

LEMMA ForceUnlockIInv ==
  ASSUME TypeOK, HoldInv, ForceUnlock
  PROVE  HoldInv' /\ (exclusive' => \E h \in Command : holders' = {h})
<1>1. PICK d \in holders : holders' = holders \ {d} /\ pc[d] \in {"dead", "unfreed"}
  BY DEF ForceUnlock, Gone
<1>2. /\ exclusive' = (exclusive /\ holders' # {})
      /\ UNCHANGED <<storage, driver, kind, pc>>
  BY DEF ForceUnlock, setupVars
<1>3. ~ exclusive'
  BY <1>1, <1>2 DEF TypeOK
<1>4. \A q \in Command : HoldOK(q)'
  <2>1. exclusive => holders' = {}
    BY <1>1 DEF TypeOK
  <2>2. exclusive' = FALSE
    BY <1>2, <1>3
  <2> QED  BY <1>1, <1>2, <2>1, <2>2 DEF HoldInv, HoldOK, Busy, Copied, Locking, Writable, TypeOK
<1> QED  BY <1>3, <1>4 DEF HoldInv

(* The steps that leave the lock alone. *)
LEMMA MoveIInv ==
  ASSUME TypeOK, HoldInv, NEW p \in Command,
         \/ Begin(p) \/ LockFails(p) \/ Fetch(p) \/ Open(p) \/ FetchFails(p)
         \/ Change(p) \/ UnlockEarly(p) \/ BodyEnds(p) \/ Close(p) \/ Upload(p)
         \/ UploadFails(p) \/ UnlockEarlyFails(p) \/ Die(p)
  PROVE  HoldInv' /\ (exclusive' => \E h \in Command : holders' = {h})
<1> DEFINE Moves ==
      \/ pc'[p] = pc[p]
      \/ pc[p] \in Busy /\ pc'[p] \in Busy
      \/ pc[p] = "idle" /\ pc'[p] = (IF Locking(p) THEN "waiting" ELSE "locked")
      \/ pc[p] = "waiting" /\ pc'[p] = "ended"
      \/ pc[p] = "open" /\ pc'[p] = "session" /\ kind[p] = "ssh" /\ ~ Locking(p)
      \/ pc[p] = "session" /\ pc'[p] = "closing" /\ ~ Locking(p)
      \/ pc'[p] = "dead"
<1>1. \A q \in Command : q # p => pc'[q] = pc[q]
  BY DEF Begin, LockFails, Fetch, Open, FetchFails, Change, UnlockEarly, UnlockEarlyFails,
       BodyEnds, Close,
     Upload, UploadFails, Die, Goes, TypeOK
<1>2. driver = "real" => kind[p] # "ssh"
  BY DEF HoldInv, HoldOK
<1>3. pc[p] = "session" => kind[p] = "ssh"
  BY DEF HoldInv, HoldOK
<1>4. kind[p] = "ssh" => ~ Locking(p)
  BY <1>2 DEF Locking
<1>5. UNCHANGED <<storage, driver, kind, holders, exclusive>>
  BY <1>4 DEF Begin, LockFails, Fetch, Open, FetchFails, Change, UnlockEarly, UnlockEarlyFails,
       BodyEnds, Close,
     Upload, UploadFails, Die, setupVars, lockVars
<1>6. Moves
  <2>1. CASE Begin(p)
    BY <2>1 DEF Begin, Goes, TypeOK
  <2>2. CASE LockFails(p)
    BY <2>2 DEF LockFails, Goes, AfterLockFailure, TypeOK
  <2>3. CASE Fetch(p) \/ Open(p) \/ FetchFails(p)
    BY <2>3 DEF Fetch, Open, FetchFails, Goes, OuterFinally, TypeOK, Busy, Copied
  <2>4. CASE Change(p) \/ Die(p)
    BY <2>4 DEF Change, Die, TypeOK
  <2>5. CASE UnlockEarly(p)
    BY <2>5, <1>4 DEF UnlockEarly, Goes, TypeOK
  <2>8. ~ UnlockEarlyFails(p)
    BY <1>4 DEF UnlockEarlyFails
  <2>6. CASE BodyEnds(p)
    BY <2>6, <1>3, <1>4 DEF BodyEnds, Goes, TypeOK, Busy, Copied
  <2>7. CASE Close(p) \/ Upload(p) \/ UploadFails(p)
    BY <2>7 DEF Close, Upload, UploadFails, Goes, OuterFinally, TypeOK, Busy, Copied
  <2> QED  BY <2>1, <2>2, <2>3, <2>4, <2>5, <2>6, <2>7, <2>8
<1>7. \A q \in Command : q # p => HoldOK(q)'
  BY <1>1, <1>5 DEF HoldInv, HoldOK, Locking, Writable
<1>8. /\ pc'[p] = "uploading" => Writable(p)
      /\ pc'[p] = "session" => kind[p] = "ssh"
  BY DEF Begin, LockFails, Fetch, Open, FetchFails, Change, UnlockEarly, UnlockEarlyFails,
       BodyEnds, Close,
     Upload, UploadFails, Die, Goes, TypeOK, OuterFinally, AfterLockFailure, Uploads, HoldInv,
     HoldOK
<1>9. HoldOK(p)'
  <2>1. HoldOK(p)
    BY DEF HoldInv
  <2> QED  BY <1>5, <1>6, <1>8, <2>1 DEF HoldOK, Locking, Writable, Busy, Copied
<1> QED  BY <1>5, <1>7, <1>9 DEF HoldInv, TypeOK

LEMMA HoldStep == TypeOK /\ HoldInv /\ [Next]_vars
                  => HoldInv' /\ (exclusive' => \E h \in Command : holders' = {h})
<1> SUFFICES ASSUME TypeOK, HoldInv, [Next]_vars
             PROVE  HoldInv' /\ (exclusive' => \E h \in Command : holders' = {h})
  OBVIOUS
<1>1. CASE UNCHANGED vars
  BY <1>1 DEF vars, TypeOK, HoldInv, HoldOK, Locking, Writable
<1>2. CASE ForceUnlock
  BY <1>2, ForceUnlockIInv
<1>3. ASSUME NEW p \in Command, Begin(p) \/ LockFails(p) \/ Step(p) \/ Die(p)
      PROVE  HoldInv' /\ (exclusive' => \E h \in Command : holders' = {h})
  BY <1>3, LockIInv, UnlockIInv, MoveIInv DEF Step
<1> QED  BY <1>1, <1>2, <1>3 DEF Next

LEMMA TypeStep == IInv /\ [Next]_vars => TypeOK'
<1> SUFFICES ASSUME IInv, [Next]_vars PROVE TypeOK'
  OBVIOUS
<1>1. exclusive' => \E h \in Command : holders' = {h}
  BY HoldStep DEF IInv
<1>2. TypeOK /\ None \in [Command -> 0 .. MaxChanges]
  BY CommandAssumption DEF IInv, None
<1>3. CASE UNCHANGED vars
  BY <1>2, <1>3 DEF vars, TypeOK
<1>4. CASE ForceUnlock
  <2>1. exclusive' \in BOOLEAN
    BY <1>4 DEF ForceUnlock
  <2> QED  BY <1>1, <1>2, <1>4, <2>1 DEF ForceUnlock, setupVars, fileVars, TypeOK
<1>5. ASSUME NEW p \in Command, Begin(p) \/ LockFails(p) \/ Step(p) \/ Die(p)
      PROVE  TypeOK'
  <2>1. UNCHANGED <<storage, driver, kind>>
    BY <1>5 DEF Begin, LockFails, Step, Lock, Fetch, Open, FetchFails, Change, UnlockEarly,
         UnlockEarlyFails,
       BodyEnds, Close, Upload, UploadFails, Unlock, UnlockFails, Die, setupVars
  <2>2. pc' \in [Command -> {"idle", "waiting", "locked", "fetched", "open", "session",
                             "closing", "uploading", "releasing", "ended", "unfreed",
                             "dead"}]
    BY <1>2, <1>5 DEF Begin, LockFails, Step, Lock, Fetch, Open, FetchFails, Change, UnlockEarly,
         UnlockEarlyFails,
       BodyEnds, Close, Upload, UploadFails, Unlock, UnlockFails, Die, Goes, TypeOK, OuterFinally,
       AfterLockFailure
  <2>3. outcome' \in [Command -> {"none", "ok", "raised", "interrupted", "lost"}]
    BY <1>2, <1>5 DEF Begin, LockFails, Step, Lock, Fetch, Open, FetchFails, Change, UnlockEarly,
         UnlockEarlyFails,
       BodyEnds, Close, Upload, UploadFails, Unlock, UnlockFails, Die, TypeOK
  <2>4. holders' \subseteq Command /\ exclusive' \in BOOLEAN
    <3>1. CASE Lock(p)
      <4>1. Exclusively(p) \in BOOLEAN
        BY DEF Exclusively, Writable
      <4> QED  BY <1>2, <3>1, <4>1 DEF Lock, TypeOK
    <3>2. CASE Release(p)
      BY <1>2, <3>2 DEF Release, Released, TypeOK
    <3>3. CASE UNCHANGED lockVars
      BY <1>2, <3>3 DEF lockVars, TypeOK
    <3> QED  BY <1>5, <3>1, <3>2, <3>3 DEF Begin, LockFails, Step, Fetch, Open, FetchFails, Change,
                UnlockEarly, UnlockEarlyFails, BodyEnds, Close, Upload, UploadFails, Unlock, UnlockFails, Die
  <2>5. /\ made' \in [Command -> 0 .. MaxChanges]
        /\ local' \in [Command -> [Command -> 0 .. MaxChanges]]
        /\ stored' \in [Command -> 0 .. MaxChanges]
    <3>1. CASE Change(p)
      <4>1. made[p] + 1 \in 0 .. MaxChanges /\ made' = [made EXCEPT ![p] = @ + 1]
        BY <1>2, <3>1, CommandAssumption DEF Change, TypeOK
      <4>2. local[p][p] \in 0 .. made[p] /\ stored[p] \in 0 .. made[p]
        BY <1>2 DEF IInv, FileInv, StoreOK, CopyOK, TypeOK
      <4>3. local[p][p] + 1 \in 0 .. MaxChanges /\ stored[p] + 1 \in 0 .. MaxChanges
        BY <1>2, <4>1, <4>2, CommandAssumption DEF TypeOK
      <4>4. local' \in {local, [local EXCEPT ![p][p] = @ + 1]}
            /\ stored' \in {stored, [stored EXCEPT ![p] = @ + 1]}
        BY <3>1 DEF Change
      <4>5. \E own \in [Command -> 0 .. MaxChanges] :
              local' \in {local, [local EXCEPT ![p] = own]}
        <5>1. [local[p] EXCEPT ![p] = @ + 1] \in [Command -> 0 .. MaxChanges]
          BY <1>2, <4>3 DEF TypeOK
        <5>2. local' \in {local, [local EXCEPT ![p] = [local[p] EXCEPT ![p] = @ + 1]]}
          BY <1>2, <4>4 DEF TypeOK
        <5> QED  BY <5>1, <5>2
      <4>6. local' \in [Command -> [Command -> 0 .. MaxChanges]]
        BY <1>2, <4>5 DEF TypeOK
      <4>7. made' \in [Command -> 0 .. MaxChanges] /\ stored' \in [Command -> 0 .. MaxChanges]
        BY <1>2, <4>1, <4>3, <4>4 DEF TypeOK
      <4> QED  BY <4>6, <4>7
    <3>2. CASE Fetch(p)
      BY <1>2, <3>2 DEF Fetch, TypeOK
    <3>3. CASE Upload(p)
      BY <1>2, <3>3 DEF Upload, TypeOK
    <3>4. CASE Unlock(p) \/ UnlockFails(p) \/ Die(p)
      BY <1>2, <3>4 DEF Unlock, UnlockFails, Die, TypeOK
    <3>5. CASE UNCHANGED fileVars
      BY <1>2, <3>5 DEF fileVars, TypeOK
    <3> QED  BY <1>5, <3>1, <3>2, <3>3, <3>4, <3>5 DEF Begin, LockFails, Step, Lock, Open,
                FetchFails, UnlockEarly, UnlockEarlyFails, BodyEnds, Close, UploadFails
  <2> QED  BY <1>1, <1>2, <2>1, <2>2, <2>3, <2>4, <2>5 DEF TypeOK
<1> QED  BY <1>3, <1>4, <1>5 DEF Next
-----------------------------------------------------------------------------
(* The copies and the state file. *)

LEMMA Numbers ==
  ASSUME TypeOK, NEW p \in Command
  PROVE  made[p] \in Nat /\ stored[p] \in Nat /\ \A q \in Command : local[q][p] \in Nat
BY CommandAssumption DEF TypeOK

LEMMA FetchFile ==
  ASSUME TypeOK, FileInv, NEW p \in Command, Fetch(p)
  PROVE  FileInv'
<1>1. /\ pc[p] = "locked" /\ pc'[p] = "fetched"
      /\ \A q \in Command : q # p => pc'[q] = pc[q]
  BY DEF Fetch, Goes, TypeOK
<1>2. UNCHANGED <<storage, driver, kind, outcome, made, stored>>
  BY DEF Fetch, setupVars
<1>3. \A q \in Command : StoreOK(q)'
  BY <1>1, <1>2 DEF FileInv, StoreOK, Guarded, Writable
<1>4. CASE storage = "remote"
  <2>1. /\ \A q \in Command : q # p => local'[q] = local[q]
        /\ \A q \in Command : local'[p][q] = stored[q]
    BY <1>4 DEF Fetch, TypeOK
  <2>2. stored[p] = 0 /\ made[p] = 0
    BY <1>1, Numbers DEF FileInv, StoreOK
  <2>3. ASSUME NEW q \in Command, NEW r \in Command
        PROVE  CopyOK(q, r)'
    <3>1. CopyOK(q, r) /\ StoreOK(r)
      BY DEF FileInv
    <3>2. CASE q = p
      BY <1>1, <1>2, <2>1, <2>2, <3>1, <3>2 DEF CopyOK, StoreOK, Writable, Copied
    <3>3. CASE q # p
      BY <1>1, <1>2, <2>1, <3>1, <3>3 DEF CopyOK, Writable, Copied, Locking
    <3> QED  BY <3>2, <3>3
  <2> QED  BY <1>3, <2>3 DEF FileInv
<1>5. CASE storage # "remote"
  <2>1. local' = local
    BY <1>5 DEF Fetch
  <2>2. \A q, r \in Command : CopyOK(q, r)'
    BY <1>2, <1>5, <2>1 DEF FileInv, CopyOK
  <2> QED  BY <1>3, <2>2 DEF FileInv
<1> QED  BY <1>4, <1>5

LEMMA ChangeFile ==
  ASSUME TypeOK, FileInv, NEW p \in Command, Change(p)
  PROVE  FileInv'
<1>1. pc[p] \in {"open", "closing"} /\ UNCHANGED <<storage, driver, kind, pc, outcome>>
  BY DEF Change, setupVars
<1>2. made'[p] = made[p] + 1 /\ \A q \in Command : q # p => made'[q] = made[q]
  BY DEF Change, TypeOK
<1>3. storage = "remote" => stored' = stored
  BY DEF Change
<1>4. storage = "remote" => /\ local'[p][p] = local[p][p] + 1
                            /\ \A q, r \in Command : q # p \/ r # p => local'[q][r] = local[q][r]
  BY DEF Change, TypeOK
<1>5. storage # "remote" => /\ local' = local /\ stored'[p] = stored[p] + 1
                            /\ \A q \in Command : q # p => stored'[q] = stored[q]
  BY DEF Change, TypeOK
<1>6. storage \in {"remote", "legacy"}
  BY DEF TypeOK, Storages
<1>7. ASSUME NEW r \in Command PROVE StoreOK(r)'
  BY <1>1, <1>2, <1>3, <1>5, <1>6, Numbers DEF FileInv, StoreOK, Guarded, Writable
<1>8. ASSUME NEW q \in Command, NEW r \in Command PROVE CopyOK(q, r)'
  <2>1. CopyOK(q, r) /\ local[q][r] \in Nat /\ made[r] \in Nat
    BY Numbers DEF FileInv
  <2>2. CASE storage = "remote"
    <3>1. CASE q = p /\ r = p
      BY <1>1, <1>2, <1>4, <2>1, <2>2, <3>1 DEF CopyOK, Writable, Copied, Locking
    <3>2. CASE q # p \/ r # p
      <4>1. local'[q][r] = local[q][r] /\ made'[r] \in {made[r], made[r] + 1}
            /\ (q = r => made'[r] = made[r]) /\ stored'[r] = stored[r]
        BY <1>2, <1>3, <1>4, <2>2, <3>2
      <4>2. local'[q][r] <= made'[r]
        BY <2>1, <4>1 DEF CopyOK
      <4> QED  BY <1>1, <2>1, <2>2, <4>1, <4>2 DEF CopyOK, Writable, Locking, Copied
    <3> QED  BY <3>1, <3>2
  <2>3. CASE storage # "remote"
    <3>1. local' = local /\ made'[r] \in {made[r], made[r] + 1}
      BY <1>2, <1>5, <2>3
    <3> QED  BY <1>1, <2>1, <2>3, <3>1 DEF CopyOK
  <2> QED  BY <2>2, <2>3
<1> QED  BY <1>7, <1>8 DEF FileInv

(* A guarded upload replaces the state file by a copy that differs from it in
   the changes of the uploading command only. *)
LEMMA UploadOwn ==
  ASSUME IInv, NEW p \in Command, Upload(p)
  PROVE  /\ storage = "legacy" => stored' = stored
         /\ storage = "remote" => stored' = local[p] /\ stored'[p] = made[p]
         /\ Guarded => \A q \in Command : q # p => stored'[q] = stored[q]
<1>1. pc[p] = "uploading" /\ storage \in {"remote", "legacy"}
  BY DEF Upload, Goes, IInv, TypeOK, Storages
<1>2. storage = "remote" => local[p][p] = made[p]
  BY <1>1 DEF IInv, FileInv, CopyOK, Copied
<1>3. Writable(p)
  BY <1>1 DEF IInv, HoldInv, HoldOK
<1>4. storage = "remote" /\ driver = "real" => \A q \in Command : q # p => local[p][q] = stored[q]
  BY <1>1, <1>3 DEF IInv, FileInv, CopyOK, Copied, Locking, Writable
<1>5. storage = "remote" /\ Guarded => driver = "real"
  BY DEF Guarded
<1> QED  BY <1>1, <1>2, <1>4, <1>5 DEF Upload

LEMMA UploadFile ==
  ASSUME IInv, NEW p \in Command, Upload(p)
  PROVE  FileInv'
<1>1. /\ pc[p] = "uploading" /\ pc'[p] = "releasing" /\ Writable(p)
      /\ \A q \in Command : q # p => pc'[q] = pc[q]
  BY DEF Upload, Goes, OuterFinally, IInv, TypeOK, HoldInv, HoldOK
<1>2. UNCHANGED <<storage, driver, kind, outcome, made, local>>
  BY DEF Upload, setupVars
<1>3. storage \in {"remote", "legacy"} /\ TypeOK
  BY DEF IInv, TypeOK, Storages
<1>4. ASSUME NEW r \in Command PROVE StoreOK(r)'
  <2>1. StoreOK(r) /\ CopyOK(p, r) /\ made[r] \in Nat /\ stored[r] \in Nat /\ local[p][r] \in Nat
    BY <1>3, Numbers DEF IInv, FileInv
  <2>2. CASE storage = "legacy"
    <3>1. stored' = stored
      BY <2>2, UploadOwn
    <3> QED  BY <1>1, <1>2, <2>1, <2>2, <3>1 DEF StoreOK, Guarded, Writable
  <2>3. CASE storage = "remote"
    <3>1. stored'[r] = local[p][r] /\ (r = p => stored'[r] = made[r])
          /\ (Guarded /\ r # p => stored'[r] = stored[r])
      BY <2>3, UploadOwn
    <3>2. stored'[r] <= made[r]
      BY <2>1, <3>1 DEF CopyOK
    <3>3. ~ Writable(r) => stored'[r] = 0
      BY <1>1, <2>1, <2>3, <3>1 DEF CopyOK
    <3> QED  BY <1>1, <1>2, <2>1, <2>3, <3>1, <3>2, <3>3 DEF StoreOK, Guarded, Writable
  <2> QED  BY <1>3, <2>2, <2>3
<1>5. ASSUME NEW q \in Command, NEW r \in Command PROVE CopyOK(q, r)'
  <2>1. CopyOK(q, r)
    BY DEF IInv, FileInv
  <2>2. CASE storage = "remote" /\ Locking(q) /\ pc'[q] \in Copied /\ q # r
    <3>1. q # p /\ pc[q] \in Copied
      BY <1>1, <2>2 DEF Copied
    <3>2. driver = "real" /\ Locking(p)
      BY <1>1, <2>2 DEF Locking, Writable
    <3>3. p \in holders /\ q \in holders
      BY <1>1, <2>2, <3>1, <3>2 DEF IInv, HoldInv, HoldOK, Busy, Copied
    <3>4. FALSE
      BY <1>1, <3>1, <3>3, HolderAlone DEF IInv
    <3> QED  BY <3>4
  <2>3. CASE ~ (storage = "remote" /\ Locking(q) /\ pc'[q] \in Copied /\ q # r)
    BY <1>1, <1>2, <2>1, <2>3 DEF CopyOK, Writable, Locking, Copied
  <2> QED  BY <2>2, <2>3
<1> QED  BY <1>4, <1>5 DEF FileInv

LEMMA LeaveFile ==
  ASSUME TypeOK, FileInv, NEW p \in Command, Unlock(p) \/ UnlockFails(p) \/ Die(p)
  PROVE  FileInv'
<1>1. /\ \A q \in Command : q # p => pc'[q] = pc[q]
      /\ pc'[p] = "dead" \/ (pc[p] = "releasing" /\ pc'[p] \in {"ended", "unfreed"})
  BY DEF Unlock, UnlockFails, Die, Goes, TypeOK
<1>2. UNCHANGED <<storage, driver, kind, outcome, made, stored>>
  BY DEF Unlock, UnlockFails, Die, setupVars
<1>3. /\ \A q \in Command : q # p => local'[q] = local[q]
      /\ \A r \in Command : local'[p][r] = 0
  BY DEF Unlock, UnlockFails, Die, TypeOK, None
<1>4. ASSUME NEW r \in Command PROVE StoreOK(r)'
  BY <1>1, <1>2 DEF FileInv, StoreOK, Guarded, Writable
<1>5. ASSUME NEW q \in Command, NEW r \in Command PROVE CopyOK(q, r)'
  <2>1. CopyOK(q, r) /\ made[r] \in Nat
    BY Numbers DEF FileInv
  <2>2. CASE q = p
    <3>1. local'[q][r] = 0 /\ pc'[q] \notin Copied
      BY <1>1, <1>3, <2>2 DEF Copied
    <3> QED  BY <1>2, <2>1, <3>1 DEF CopyOK
  <2>3. CASE q # p
    BY <1>1, <1>2, <1>3, <2>1, <2>3 DEF CopyOK, Writable, Locking, Copied
  <2> QED  BY <2>2, <2>3
<1> QED  BY <1>4, <1>5 DEF FileInv

LEMMA MoveFile ==
  ASSUME TypeOK, FileInv, NEW p \in Command,
         \/ Begin(p) \/ Lock(p) \/ LockFails(p) \/ Open(p) \/ FetchFails(p)
         \/ UnlockEarly(p) \/ UnlockEarlyFails(p) \/ BodyEnds(p) \/ Close(p) \/ UploadFails(p)
  PROVE  FileInv'
<1>1. \A q \in Command : q # p => pc'[q] = pc[q] /\ outcome'[q] = outcome[q]
  BY DEF Begin, Lock, LockFails, Open, FetchFails, UnlockEarly, UnlockEarlyFails, BodyEnds, Close,
       UploadFails,
     Goes, TypeOK
<1>2. UNCHANGED <<storage, driver, kind, made, stored, local>>
  BY DEF Begin, Lock, LockFails, Open, FetchFails, UnlockEarly, UnlockEarlyFails, BodyEnds, Close,
       UploadFails,
     setupVars, fileVars
<1>3. /\ pc'[p] \in Copied => pc[p] \in Copied
      /\ pc'[p] \in {"idle", "waiting", "locked", "fetched"} => pc[p] \in {"idle", "waiting"}
  BY DEF Begin, Lock, LockFails, Open, FetchFails, UnlockEarly, UnlockEarlyFails, BodyEnds, Close,
       UploadFails,
     Goes, TypeOK, OuterFinally, AfterLockFailure, Copied
<1>4. pc'[p] \in {"releasing", "ended", "unfreed"} /\ Writable(p) => outcome'[p] = "lost"
  BY DEF Begin, Lock, LockFails, Open, FetchFails, UnlockEarly, UnlockEarlyFails, BodyEnds, Close,
       UploadFails,
     Goes, TypeOK, OuterFinally, AfterLockFailure, Uploads
<1>5. ASSUME NEW r \in Command PROVE StoreOK(r)'
  BY <1>1, <1>2, <1>3, <1>4 DEF FileInv, StoreOK, Guarded, Writable
<1>6. ASSUME NEW q \in Command, NEW r \in Command PROVE CopyOK(q, r)'
  BY <1>1, <1>2, <1>3 DEF FileInv, CopyOK, Writable, Locking, Copied
<1> QED  BY <1>5, <1>6 DEF FileInv

LEMMA FileStep == IInv /\ [Next]_vars => FileInv'
<1> SUFFICES ASSUME IInv, [Next]_vars PROVE FileInv'
  OBVIOUS
<1>1. CASE UNCHANGED vars
  BY <1>1 DEF vars, IInv, FileInv, StoreOK, CopyOK, Guarded, Writable, Locking
<1>2. CASE ForceUnlock
  BY <1>2 DEF ForceUnlock, setupVars, fileVars, IInv, FileInv, StoreOK, CopyOK, Guarded, Writable,
     Locking
<1>3. ASSUME NEW p \in Command, Begin(p) \/ LockFails(p) \/ Step(p) \/ Die(p)
      PROVE  FileInv'
  BY <1>3, FetchFile, ChangeFile, UploadFile, LeaveFile, MoveFile DEF Step, IInv
<1> QED  BY <1>1, <1>2, <1>3 DEF Next

LEMMA Invariance == NoEarlyUnlock => (Spec => []IInv)
<1>1. NoEarlyUnlock /\ Init => IInv
  BY InitIInv
<1>2. IInv /\ [Next]_vars => IInv'
  BY HoldStep, TypeStep, FileStep DEF IInv
<1> QED  BY <1>1, <1>2, PTL DEF Spec
-----------------------------------------------------------------------------
(* Every variable keeps its type. *)
THEOREM TypeCorrect == NoEarlyUnlock => (Spec => []TypeOK)
<1>1. IInv => TypeOK
  BY DEF IInv
<1> QED  BY <1>1, Invariance, PTL

(* network_state lets a mutating command work alone. *)
THEOREM Exclusion == NoEarlyUnlock => (Spec => []WritersAlone)
<1>1. IInv => WritersAlone
  <2> SUFFICES ASSUME IInv, driver = "real", NEW p \in Command, NEW q \in Command, p # q,
                      Inside(p), Writable(p), Inside(q), Locking(q)
               PROVE  FALSE
    BY DEF WritersAlone
  <2>1. Locking(p)
    BY DEF Locking, Writable
  <2>2. p \in holders /\ q \in holders
    BY <2>1 DEF IInv, HoldInv, HoldOK, Inside, Busy, Copied
  <2> QED  BY <2>2, HolderAlone DEF IInv
<1> QED  BY <1>1, Invariance, PTL

(* What a command fetched stays current until it uploads. *)
THEOREM Currency == NoEarlyUnlock => (Spec => []CopyIsCurrent)
<1>1. IInv => CopyIsCurrent
  BY DEF IInv, FileInv, CopyOK, CopyIsCurrent, Copied
<1> QED  BY <1>1, Invariance, PTL

(* The finally clauses of network_state keep every change of a command that
   ended, however its body did. *)
THEOREM Durability == NoEarlyUnlock => (Spec => []ChangesRecorded)
<1>1. IInv => ChangesRecorded
  BY DEF IInv, FileInv, StoreOK, ChangesRecorded
<1> QED  BY <1>1, Invariance, PTL

(* A command that has not begun, waits, or has ended, holds no lock, however
   its body and the steps around it ended: only one that was killed, or whose
   unlock() raised, may have left it taken. *)
THEOREM LockFreed == NoEarlyUnlock => (Spec => []LockReturned)
<1>1. IInv => LockReturned
  BY DEF IInv, TypeOK, HoldInv, HoldOK, LockReturned, Busy, Copied
<1> QED  BY <1>1, Invariance, PTL

(* A command that is not mutating leaves no trace in a storage that copies. *)
THEOREM Discarding == NoEarlyUnlock => (Spec => []ReadersDiscarded)
<1>1. IInv => ReadersDiscarded
  BY DEF IInv, FileInv, StoreOK, ReadersDiscarded
<1> QED  BY <1>1, Invariance, PTL

(* No upload takes out of the state file what another command recorded. *)
THEOREM NoLostUpdate == NoEarlyUnlock => (Spec => NothingOverwritten)
<1> DEFINE Grows == Guarded => \A p \in Command : stored[p] <= stored'[p]
<1>1. IInv /\ [Next]_vars => [Grows]_vars
  <2> SUFFICES ASSUME IInv, Next, Guarded, NEW r \in Command
               PROVE  stored[r] <= stored'[r]
    OBVIOUS
  <2>1. stored[r] \in Nat /\ made[r] \in Nat /\ stored[r] <= made[r]
    BY Numbers DEF IInv, FileInv, StoreOK
  <2>2. CASE stored' = stored
    BY <2>1, <2>2
  <2>3. ASSUME NEW p \in Command, Change(p) PROVE stored[r] <= stored'[r]
    BY <2>1, <2>3 DEF Change, IInv, TypeOK
  <2>4. ASSUME NEW p \in Command, Upload(p) PROVE stored[r] <= stored'[r]
    <3>1. storage \in {"remote", "legacy"}
      BY DEF IInv, TypeOK, Storages
    <3> QED  BY <2>1, <2>4, <3>1, UploadOwn
  <2> QED  BY <2>2, <2>3, <2>4 DEF Next, Begin, LockFails, Step, Lock, Fetch, Open, FetchFails,
              UnlockEarly, UnlockEarlyFails, BodyEnds, Close, UploadFails, Unlock, UnlockFails, Die,
              ForceUnlock, fileVars
<1> QED  BY <1>1, Invariance, PTL DEF Spec, NothingOverwritten
=============================================================================
