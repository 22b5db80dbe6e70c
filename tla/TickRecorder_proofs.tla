------------------------ MODULE TickRecorder_proofs ------------------------
(***************************************************************************)
(* Proofs about TickRecorder for any number of days, rows and restarts and *)
(* any size of the queue, if no day ends between the start of the stream   *)
(* and the writer's look at the clock with rows in the queue (~Overlap).   *)
(***************************************************************************)
EXTENDS TickRecorder, TLAPS

Cleaning == {"stale", "staleUnlink", "check"}
Starting == {"start"} \cup Cleaning
Rolling == {"copy", "unlink", "open"}

DayOf(i) == queue[i][1]

TickTypes ==
    /\ today \in Days /\ asOf \in Days /\ recorded \in Nat
    /\ queue \in Seq(Rows) /\ buffer \subseteq Rows /\ kept \subseteq Rows
    /\ label \in Days \cup {NoDay} /\ old \in Days \cup {NoDay}
    /\ csv \in [Days -> SUBSET Rows] /\ gz \in [Days -> SUBSET Rows]

\* The queue is in the order of days, none before that of the open file.
QueueInv ==
    /\ \A i \in 1..Len(queue) : DayOf(i) <= today /\ label <= DayOf(i)
    /\ \A i, j \in 1..Len(queue) : i < j => DayOf(i) <= DayOf(j)
    /\ label <= today
    /\ writer \in Rolling => queue # <<>> /\ DayOf(1) # label
    /\ writer \in {"copy", "unlink"} => label # NoDay
    /\ writer \in Starting => label = NoDay /\ buffer = {}
    /\ writer = "start" => \A i \in 1..Len(queue) : DayOf(i) = today
    /\ writer \in Cleaning => asOf <= today /\ \A i \in 1..Len(queue) : asOf <= DayOf(i)

\* What is compressed and about to be unlinked is whole; the clean-up finds
\* files of the day it began, and older ones.
CopyInv ==
    /\ old # NoDay =>
         /\ writer \in {"staleUnlink", "unlink"} /\ gz[old] = csv[old]
         /\ writer = "staleUnlink" => old < asOf
         /\ writer = "unlink" => old = label
    /\ \A d \in Days : csv[d] # {} => d <= today /\ (writer \in Cleaning => d <= asOf)

\* A day in retention whose rows are only in the .gz: no row of it is to come,
\* so that its .gz is never replaced.
Sealed(r) == r[1] + Retention >= today /\ csv[r[1]] = {}

FileInv ==
    /\ \A r \in buffer : r[1] = label
    /\ \A r \in kept : r[1] <= today
    /\ \A r \in kept : r[1] + Retention >= today =>
                         r \in csv[r[1]] \/ (csv[r[1]] = {} /\ r \in gz[r[1]])
    /\ \A r \in kept : Sealed(r) =>
         /\ r[1] < today
         /\ \A i \in 1..Len(queue) : r[1] < DayOf(i)
         /\ label = NoDay \/ r[1] < label \/ (r[1] = label /\ writer = "open")

TickInv == TickTypes /\ QueueInv /\ CopyInv /\ FileInv

LEMMA DaysAre ==
    /\ Days \subseteq Nat /\ 0 \notin Days /\ NoDay = 0 /\ Retention \in Nat
    /\ \A r \in Rows : r[1] \in Days
BY TickAssumption DEF Days, Rows, NoDay

LEMMA NumbersAre ==
    ASSUME TickTypes
    PROVE  /\ today \in Nat /\ asOf \in Nat /\ label \in Nat /\ old \in Nat
           /\ \A r \in kept \cup buffer : r[1] \in Days /\ r[1] \in Nat
<1>1. \A d \in Days \cup {NoDay} : d \in Nat
  BY DaysAre
<1>2. \A r \in kept \cup buffer : r[1] \in Days
  BY DaysAre DEF TickTypes
<1> QED
  BY <1>1, <1>2 DEF TickTypes

LEMMA QueueIs ==
    ASSUME queue \in Seq(Rows)
    PROVE  /\ Len(queue) \in Nat
           /\ \A i \in 1..Len(queue) : queue[i] \in Rows /\ DayOf(i) \in Days
           /\ queue # <<>> => /\ Len(queue) > 0 /\ Head(queue) = queue[1]
                              /\ Tail(queue) \in Seq(Rows)
                              /\ Len(Tail(queue)) = Len(queue) - 1
                              /\ \A i \in 1..(Len(queue) - 1) : Tail(queue)[i] = queue[i + 1]
<1>1. Len(queue) \in Nat /\ \A i \in 1..Len(queue) : queue[i] \in Rows
  OBVIOUS
<1>2. \A i \in 1..Len(queue) : DayOf(i) \in Days
  BY <1>1, DaysAre DEF DayOf
<1>3. queue # <<>> => /\ Len(queue) > 0 /\ Head(queue) = queue[1]
                      /\ Tail(queue) \in Seq(Rows)
                      /\ Len(Tail(queue)) = Len(queue) - 1
                      /\ \A i \in 1..(Len(queue) - 1) : Tail(queue)[i] = queue[i + 1]
  OBVIOUS
<1> QED
  BY <1>1, <1>2, <1>3

LEMMA TickStart == TickInit => TickInv
<1> SUFFICES ASSUME TickInit PROVE TickInv
  OBVIOUS
<1>1. /\ today = 1 /\ asOf = 1
      /\ queue = <<>> /\ buffer = {} /\ label = NoDay /\ old = NoDay
      /\ writer = "start" /\ kept = {} /\ recorded = 0
      /\ csv = [d \in Days |-> {}] /\ gz = [d \in Days |-> {}]
  BY DEF TickInit
<1>2. TickTypes
  BY <1>1, TickAssumption DEF TickTypes, Days, NoDay
<1>3. QueueInv
  BY <1>1 DEF QueueInv, Rolling, Starting, Cleaning, NoDay
<1>4. CopyInv
  BY <1>1 DEF CopyInv
<1>5. FileInv
  BY <1>1 DEF FileInv
<1> QED
  BY <1>2, <1>3, <1>4, <1>5 DEF TickInv

-----------------------------------------------------------------------------
(* The queue.                                                              *)

LEMMA RecordStep == ASSUME TickInv, Record PROVE TickInv'
<1> DEFINE row == <<today, recorded'>>
<1>1. /\ recorded < MaxRows /\ recorded' = recorded + 1
      /\ queue' = queue \/ queue' = Append(queue, row)
      /\ UNCHANGED <<today, asOf, buffer, label, writer, old, csv, gz, kept>>
  BY DEF Record, fileVars
<1>2. row \in Rows /\ recorded' \in Nat /\ row[1] = today /\ today \in Nat /\ label <= today
  BY <1>1, DaysAre, TickAssumption DEF TickInv, TickTypes, QueueInv, Rows
<1> HIDE DEF row
<1>3. queue \in Seq(Rows) /\ Len(queue) \in Nat
  BY DEF TickInv, TickTypes
<1>4. /\ queue' \in Seq(Rows) /\ Len(queue') \in Nat /\ Len(queue') \in {Len(queue), Len(queue) + 1}
      /\ \A i \in 1..Len(queue') :
           \/ i \in 1..Len(queue) /\ queue'[i] = queue[i]
           \/ i = Len(queue) + 1 /\ queue'[i] = row
      /\ queue # <<>> => queue' # <<>> /\ queue'[1] = queue[1]
  BY <1>1, <1>2, <1>3
<1>5. TickTypes'
  BY <1>1, <1>2, <1>4 DEF TickInv, TickTypes
<1>6. QueueInv'
  <2>1. \A i \in 1..Len(queue') : DayOf(i)' <= today' /\ label' <= DayOf(i)'
    BY <1>1, <1>2, <1>3, <1>4 DEF TickInv, QueueInv, DayOf
  <2>2. \A i, j \in 1..Len(queue') : i < j => DayOf(i)' <= DayOf(j)'
    BY <1>1, <1>2, <1>3, <1>4 DEF TickInv, QueueInv, DayOf
  <2>3. writer \in Rolling => queue' # <<>> /\ DayOf(1)' # label
    BY <1>1, <1>4 DEF TickInv, QueueInv, DayOf
  <2>4. writer = "start" => \A i \in 1..Len(queue') : DayOf(i)' = today
    BY <1>1, <1>2, <1>3, <1>4 DEF TickInv, QueueInv, DayOf
  <2>5. writer \in Cleaning => asOf <= today /\ \A i \in 1..Len(queue') : asOf <= DayOf(i)'
    BY <1>1, <1>2, <1>3, <1>4 DEF TickInv, QueueInv, DayOf
  <2> QED
    BY <1>1, <2>1, <2>2, <2>3, <2>4, <2>5 DEF TickInv, QueueInv
<1>7. CopyInv'
  BY <1>1 DEF TickInv, CopyInv
<1>8. FileInv'
  <2>1. ASSUME NEW r \in kept, Sealed(r), NEW i \in 1..Len(queue')
        PROVE  r[1] < DayOf(i)'
    BY <1>1, <1>2, <1>4, <2>1 DEF TickInv, FileInv, DayOf
  <2> QED
    BY <1>1, <2>1 DEF TickInv, FileInv, Sealed
<1> QED
  BY <1>5, <1>6, <1>7, <1>8 DEF TickInv

LEMMA NextDayStep == ASSUME ~Overlap, TickInv, NextDay PROVE TickInv'
<1>1. /\ today' = today + 1 /\ today < MaxDays
      /\ writer # "start" \/ queue = <<>>
      /\ UNCHANGED <<asOf, queue, buffer, label, writer, old, csv, gz, kept, recorded>>
  BY DEF NextDay, fileVars
<1>2. today \in Nat /\ today' \in Days /\ MaxDays \in Nat /\ Retention \in Nat
  BY <1>1, TickAssumption DEF TickInv, TickTypes, Days
<1>3. /\ label \in Nat /\ old \in Nat /\ asOf \in Nat
      /\ \A i \in 1..Len(queue) : DayOf(i) \in Nat /\ DayOf(i)' = DayOf(i)
      /\ \A r \in kept : r[1] \in Nat
  <2>1. label \in Nat /\ old \in Nat /\ asOf \in Nat /\ \A r \in kept : r[1] \in Nat
    BY NumbersAre DEF TickInv
  <2>2. \A i \in 1..Len(queue) : DayOf(i) \in Nat
    BY DaysAre, QueueIs DEF TickInv, TickTypes
  <2>3. \A i \in 1..Len(queue) : DayOf(i)' = DayOf(i)
    BY <1>1 DEF DayOf
  <2> QED
    BY <2>1, <2>2, <2>3
<1>4. TickTypes'
  BY <1>1, <1>2 DEF TickInv, TickTypes
<1>5. QueueInv'
  <2>1. \A i \in 1..Len(queue) : DayOf(i) <= today /\ label <= DayOf(i)
    BY DEF TickInv, QueueInv
  <2>2. \A i \in 1..Len(queue) : DayOf(i) <= today'
    BY <1>1, <1>2, <1>3, <2>1
  <2>3. label <= today'
    BY <1>1, <1>2, <1>3 DEF TickInv, QueueInv
  <2>4. writer = "start" => 1..Len(queue) = {}
    BY <1>1
  <2>5. writer \in Cleaning => asOf <= today' /\ \A i \in 1..Len(queue) : asOf <= DayOf(i)
    BY <1>1, <1>2, <1>3 DEF TickInv, QueueInv
  <2> QED
    BY <1>1, <1>3, <2>1, <2>2, <2>3, <2>4, <2>5 DEF TickInv, QueueInv, DayOf
<1>6. CopyInv'
  <2>1. \A d \in Days : csv[d] # {} => d <= today' /\ (writer \in Cleaning => d <= asOf)
    BY <1>1, <1>2, DaysAre DEF TickInv, CopyInv
  <2>2. old # NoDay => /\ writer \in {"staleUnlink", "unlink"} /\ gz[old] = csv[old]
                       /\ writer = "staleUnlink" => old < asOf
                       /\ writer = "unlink" => old = label
    BY <1>1, <1>2, <1>3 DEF TickInv, CopyInv
  <2> QED
    BY <1>1, <2>1, <2>2 DEF CopyInv
<1>7. FileInv'
  <2>1. \A r \in kept : r[1] + Retention >= today' => r[1] + Retention >= today
    BY <1>1, <1>2, <1>3
  <2>2. \A r \in kept : Sealed(r)' => Sealed(r) /\ (r[1] < today => r[1] < today')
    BY <1>1, <1>2, <1>3, <2>1 DEF Sealed
  <2>3. \A r \in kept : r[1] <= today'
    BY <1>1, <1>2, <1>3 DEF TickInv, FileInv
  <2> QED
    BY <1>1, <1>3, <2>1, <2>2, <2>3 DEF TickInv, FileInv
<1> QED
  BY <1>4, <1>5, <1>6, <1>7 DEF TickInv

\* The process ends: what was in memory is gone, and a copy may stay partial.
LEMMA RestartedStep == ASSUME TickInv, Restarted PROVE TickInv'
<1>1. /\ queue' = <<>> /\ buffer' = {} /\ label' = NoDay /\ old' = NoDay /\ writer' = "start"
      /\ gz' = gz \/ \E d \in {old} \cap Days : csv[d] # {} /\ gz' = [gz EXCEPT ![d] = {}]
      /\ UNCHANGED <<today, asOf, csv, kept, recorded>>
  <2>1. /\ gz' \in {gz} \cup {[gz EXCEPT ![d] = {}] : d \in {old} \cap Days}
        /\ gz' # gz => csv[old] # {}
    BY DEF Restarted
  <2> QED
    BY <2>1 DEF Restarted
<1>2. /\ gz' \in [Days -> SUBSET Rows]
      /\ \A d \in Days : csv[d] = {} => gz'[d] = gz[d]
  BY <1>1 DEF TickInv, TickTypes
<1>3. TickTypes'
  BY <1>1, <1>2 DEF TickInv, TickTypes
<1>4. QueueInv'
  BY <1>1, DaysAre DEF TickInv, TickTypes, QueueInv, Rolling, Starting, Cleaning
<1>5. CopyInv'
  BY <1>1 DEF TickInv, CopyInv, Cleaning
<1>6. FileInv'
  <2>1. \A r \in kept : r[1] \in Days
    BY DaysAre DEF TickInv, TickTypes
  <2> QED
    BY <1>1, <1>2, <2>1 DEF TickInv, FileInv, Sealed
<1> QED
  BY <1>3, <1>4, <1>5, <1>6 DEF TickInv

-----------------------------------------------------------------------------
(* The writer.                                                             *)

\* The writer looks at the clock: every row of the queue is of this day.
LEMMA BeginsKeeps == ASSUME TickInv, StaleBegins PROVE TickInv'
<1>1. /\ writer = "start" /\ writer' = "stale" /\ asOf' = today
      /\ UNCHANGED <<today, queue, buffer, label, old, csv, gz, kept, recorded>>
  BY DEF StaleBegins, fileVars
<1>2. today \in Nat
  BY NumbersAre DEF TickInv
<1>3. TickTypes'
  BY <1>1 DEF TickInv, TickTypes
<1>4. QueueInv'
  BY <1>1, <1>2 DEF TickInv, QueueInv, DayOf, Rolling, Starting, Cleaning
<1>5. CopyInv'
  BY <1>1 DEF TickInv, CopyInv
<1>6. FileInv'
  BY <1>1 DEF TickInv, FileInv, Sealed, DayOf
<1> QED
  BY <1>3, <1>4, <1>5, <1>6 DEF TickInv

\* What the buffer holds is written to the file of its day, which is not
\* compressed yet, or is lost.
LEMMA FlushKeeps ==
  ASSUME TickInv, writer = "loop", Flush,
         UNCHANGED <<today, asOf, queue, label, old, gz, recorded>>,
         writer' \notin Starting,
         writer' \in Rolling => queue # <<>> /\ DayOf(1) # label,
         writer' \in {"copy", "unlink"} => label # NoDay
  PROVE  TickInv'
<1>1. PICK written \in SUBSET buffer :
        /\ buffer' = {}
        /\ csv' = IF label = NoDay THEN csv ELSE [csv EXCEPT ![label] = @ \cup written]
        /\ kept' = kept \cup written
  BY DEF Flush
<1>2. /\ \A r \in written : r \in Rows /\ r[1] = label /\ r[1] \in Days
      /\ label \in Days \cup {NoDay} /\ old = NoDay
  BY <1>1, DaysAre DEF TickInv, TickTypes, FileInv, CopyInv
<1>3. /\ csv' \in [Days -> SUBSET Rows]
      /\ \A d \in Days : csv[d] \subseteq csv'[d] /\ (d # label => csv'[d] = csv[d])
      /\ \A r \in written : r \in csv'[r[1]]
  <2>1. CASE label = NoDay
    BY <1>1, <1>2, <2>1, DaysAre DEF TickInv, TickTypes
  <2>2. CASE label # NoDay
    BY <1>1, <1>2, <2>2 DEF TickInv, TickTypes
  <2> QED BY <2>1, <2>2
<1>4. TickTypes'
  BY <1>1, <1>2, <1>3 DEF TickInv, TickTypes
<1>5. QueueInv'
  BY <1>1 DEF TickInv, QueueInv, DayOf, Starting
<1>6. CopyInv'
  <2>1. label <= today
    BY DEF TickInv, QueueInv
  <2> QED
    BY <1>2, <1>3, <2>1 DEF TickInv, CopyInv, Starting
<1>7. FileInv'
  <2>1. \A r \in kept : r[1] \in Days
    BY DaysAre DEF TickInv, TickTypes
  <2>2. label <= today
    BY DEF TickInv, QueueInv
  <2>3. \A r \in kept' : r[1] <= today
    BY <1>1, <1>2, <2>2 DEF TickInv, FileInv
  <2>4. ASSUME NEW r \in kept', Sealed(r)'
        PROVE  /\ r \in kept /\ Sealed(r)
               /\ label = NoDay \/ r[1] < label
    <3>1. r \in kept
      BY <1>1, <1>3, <2>4 DEF Sealed
    <3>2. Sealed(r)
      BY <1>3, <2>1, <2>4, <3>1 DEF Sealed
    <3> QED BY <3>1, <3>2 DEF TickInv, FileInv
  <2>5. ASSUME NEW r \in kept', r[1] + Retention >= today
        PROVE  r \in csv'[r[1]] \/ (csv'[r[1]] = {} /\ r \in gz[r[1]])
    <3>1. CASE r \in written
      BY <1>3, <3>1
    <3>2. CASE r \in kept /\ r \in csv[r[1]]
      BY <1>3, <2>1, <3>2
    <3>3. CASE r \in kept /\ csv[r[1]] = {} /\ r \in gz[r[1]]
      <4>1. label = NoDay \/ r[1] < label
        BY <2>5, <3>3 DEF TickInv, FileInv, Sealed
      <4>2. r[1] # label
        <5>1. r[1] \in Days /\ r[1] \in Nat /\ label \in Nat
          BY <2>1, <3>3, NumbersAre DEF TickInv
        <5> QED BY <4>1, <5>1, DaysAre
      <4> QED BY <1>3, <2>1, <3>3, <4>2
    <3> QED BY <1>1, <2>5, <3>1, <3>2, <3>3 DEF TickInv, FileInv
  <2>6. \A r \in kept' : Sealed(r)' =>
          r[1] < today /\ \A i \in 1..Len(queue) : r[1] < DayOf(i)
    BY <2>4 DEF TickInv, FileInv
  <2>7. \A i \in 1..Len(queue) : DayOf(i)' = DayOf(i)
    BY DEF DayOf
  <2> QED
    BY <1>1, <2>3, <2>4, <2>5, <2>6, <2>7 DEF FileInv
<1> QED
  BY <1>4, <1>5, <1>6, <1>7 DEF TickInv

\* A copy of the file of day d, whole or partial.
LEMMA CopyIs ==
  ASSUME TickInv, NEW d \in Days, csv[d] # {}, Copy(d)
  PROVE  /\ gz' \in [Days -> SUBSET Rows]
         /\ \A e \in Days : csv[e] = {} => gz'[e] = gz[e]
         /\ old' = NoDay \/ (old' = d /\ gz'[d] = csv[d])
BY DEF Copy, TickInv, TickTypes

\* The .gz of a day with a .csv is replaced, which Sealed excludes.
LEMMA CopyKeeps ==
  ASSUME TickInv, NEW d \in Days, csv[d] # {}, Copy(d),
         UNCHANGED <<today, asOf, queue, buffer, label, csv, kept, recorded>>,
         \/ writer = "stale" /\ writer' = "staleUnlink" /\ d # asOf
         \/ writer = "copy" /\ writer' = "unlink" /\ d = label
  PROVE  TickInv'
<1>1. /\ gz' \in [Days -> SUBSET Rows]
      /\ \A e \in Days : csv[e] = {} => gz'[e] = gz[e]
      /\ old' = NoDay \/ (old' = d /\ gz'[d] = csv[d])
  BY CopyIs
<1>2. TickTypes'
  BY <1>1 DEF TickInv, TickTypes
<1>3. QueueInv'
  BY DEF TickInv, QueueInv, DayOf, Rolling, Starting, Cleaning
<1>4. CopyInv'
  <2>1. writer' = "staleUnlink" => d < asOf
    <3>1. d \in Nat /\ asOf \in Nat /\ (writer = "stale" => d <= asOf)
      BY DaysAre, NumbersAre DEF TickInv, CopyInv, Cleaning
    <3> QED BY <3>1
  <2>2. writer' = "unlink" => d = label
    OBVIOUS
  <2>3. writer' \in {"staleUnlink", "unlink"}
    OBVIOUS
  <2>4. d # NoDay
    BY DaysAre
  <2> QED
    BY <1>1, <2>1, <2>2, <2>3, <2>4 DEF TickInv, CopyInv, Cleaning
<1>5. FileInv'
  <2>1. ASSUME NEW r \in kept, Sealed(r)
        PROVE  /\ r[1] < today /\ \A i \in 1..Len(queue) : r[1] < DayOf(i)'
               /\ label = NoDay \/ r[1] < label
    <3>1. writer # "open"
      OBVIOUS
    <3> QED BY <2>1, <3>1 DEF TickInv, FileInv, DayOf
  <2>2. \A r \in kept : Sealed(r)' <=> Sealed(r)
    BY DEF Sealed
  <2>3. \A r \in kept : r[1] \in Days
    BY NumbersAre DEF TickInv
  <2> QED
    BY <1>1, <2>1, <2>2, <2>3 DEF TickInv, FileInv
<1> QED
  BY <1>2, <1>3, <1>4, <1>5 DEF TickInv

\* The .csv of a day that was copied whole goes, and what is past retention.
LEMMA UnlinkKeeps ==
  ASSUME TickInv,
         UNCHANGED <<today, asOf, queue, buffer, label, kept, recorded>>, old' = NoDay,
         \/ csv' = Unlinked /\ gz' = gz
         \/ csv' = Pruned(Unlinked) /\ gz' = Pruned(gz),
         \/ writer = "staleUnlink" /\ writer' \in Cleaning
         \/ writer = "unlink" /\ writer' = "open"
         \/ writer \in Cleaning /\ writer' \notin Starting \cup Rolling /\ old = NoDay
  PROVE  TickInv'
<1>1. /\ today \in Nat /\ asOf \in Nat /\ label \in Nat /\ old \in Nat
      /\ \A r \in kept : r[1] \in Days /\ r[1] \in Nat
      /\ Retention \in Nat
  BY NumbersAre, DaysAre DEF TickInv
<1>2. /\ csv' \in [Days -> SUBSET Rows] /\ gz' \in [Days -> SUBSET Rows]
      /\ \A d \in Days : csv'[d] \in {csv[d], {}}
      /\ \A d \in Days : d + Retention >= today => gz'[d] = gz[d]
      /\ \A d \in Days : d + Retention >= today /\ d # old => csv'[d] = csv[d]
  <2>1. /\ Unlinked \in [Days -> SUBSET Rows]
        /\ \A d \in Days : Unlinked[d] \in {csv[d], {}} /\ (d # old => Unlinked[d] = csv[d])
    BY DEF TickInv, TickTypes, Unlinked
  <2>2. ASSUME NEW f \in [Days -> SUBSET Rows]
        PROVE  /\ Pruned(f) \in [Days -> SUBSET Rows]
               /\ \A d \in Days : Pruned(f)[d] \in {f[d], {}}
               /\ \A d \in Days : d + Retention >= today => Pruned(f)[d] = f[d]
    <3>1. \A d \in Days : d + Retention >= today => ~(d + Retention < today)
      BY <1>1, DaysAre
    <3> QED BY <3>1 DEF Pruned
  <2>3. gz \in [Days -> SUBSET Rows]
    BY DEF TickInv, TickTypes
  <2> HIDE DEF Unlinked, Pruned
  <2> QED BY <2>1, <2>2, <2>3
<1>3. TickTypes'
  BY <1>2 DEF TickInv, TickTypes
<1>4. QueueInv'
  BY DEF TickInv, QueueInv, DayOf, Rolling, Starting, Cleaning
<1>5. CopyInv'
  BY <1>2 DEF TickInv, CopyInv, Starting, Cleaning
<1>6. ASSUME NEW r \in kept, r[1] = old
      PROVE  /\ gz[old] = csv[old]
             /\ r[1] < today /\ \A i \in 1..Len(queue) : r[1] < DayOf(i)
             /\ label = NoDay \/ (r[1] = label /\ writer' = "open")
  <2>1. old # NoDay
    BY <1>1, <1>6, DaysAre
  <2>2. /\ writer \in {"staleUnlink", "unlink"} /\ gz[old] = csv[old]
        /\ writer = "staleUnlink" => old < asOf /\ label = NoDay /\ asOf <= today
        /\ writer = "unlink" => old = label /\ writer' = "open"
    BY <2>1 DEF TickInv, CopyInv, QueueInv, Starting, Cleaning
  <2>3. \A i \in 1..Len(queue) : /\ DayOf(i) \in Nat /\ DayOf(i) <= today /\ label <= DayOf(i)
                                /\ 1 \in 1..Len(queue) /\ DayOf(1) <= DayOf(i)
    <3>1. Len(queue) \in Nat /\ \A i \in 1..Len(queue) : DayOf(i) \in Nat
      BY QueueIs, DaysAre DEF TickInv, TickTypes
    <3>2. ASSUME NEW i \in 1..Len(queue) PROVE 1 \in 1..Len(queue) /\ DayOf(1) <= DayOf(i)
      <4>1. i = 1 \/ 1 < i
        BY <3>1
      <4> QED BY <3>1, <4>1 DEF TickInv, QueueInv
    <3> QED BY <3>1, <3>2 DEF TickInv, QueueInv
  <2>4. CASE writer = "staleUnlink"
    <3>1. \A i \in 1..Len(queue) : asOf <= DayOf(i)
      BY <2>4 DEF TickInv, QueueInv, Cleaning
    <3> QED BY <1>1, <1>6, <2>2, <2>3, <2>4, <3>1
  <2>5. CASE writer = "unlink"
    <3>1. queue # <<>> /\ DayOf(1) # label
      BY <2>5 DEF TickInv, QueueInv, Rolling
    <3>2. 1 \in 1..Len(queue)
      BY <3>1, QueueIs DEF TickInv, TickTypes
    <3>3. label < DayOf(1) /\ label < today
      BY <1>1, <2>3, <3>1, <3>2
    <3>4. \A i \in 1..Len(queue) : label < DayOf(i)
      BY <1>1, <2>3, <3>2, <3>3
    <3> QED BY <1>6, <2>2, <2>5, <3>3, <3>4
  <2> QED
    BY <2>2, <2>4, <2>5
<1>7. FileInv'
  <2>1. ASSUME NEW r \in kept, r[1] + Retention >= today
        PROVE  r \in csv'[r[1]] \/ (csv'[r[1]] = {} /\ r \in gz'[r[1]])
    <3>1. r \in csv[r[1]] \/ (csv[r[1]] = {} /\ r \in gz[r[1]])
      BY <2>1 DEF TickInv, FileInv
    <3> QED BY <1>1, <1>2, <1>6, <2>1, <3>1
  <2>2. ASSUME NEW r \in kept, Sealed(r)'
        PROVE  /\ r[1] < today /\ \A i \in 1..Len(queue) : r[1] < DayOf(i)
               /\ label = NoDay \/ r[1] < label \/ (r[1] = label /\ writer' = "open")
    <3>1. CASE r[1] = old
      BY <1>6, <3>1
    <3>2. CASE r[1] # old
      <4>1. Sealed(r)
        BY <1>1, <1>2, <2>2, <3>2 DEF Sealed
      <4>2. writer # "open"
        BY DEF Cleaning
      <4> QED BY <4>1, <4>2 DEF TickInv, FileInv
    <3> QED BY <3>1, <3>2
  <2>3. \A i \in 1..Len(queue) : DayOf(i)' = DayOf(i)
    BY DEF DayOf
  <2> QED
    BY <2>1, <2>2, <2>3 DEF TickInv, FileInv
<1> QED
  BY <1>3, <1>4, <1>5, <1>7 DEF TickInv

\* The next row of the queue joins the buffer of its day.
LEMMA TakeKeeps ==
  ASSUME TickInv, queue # <<>>, queue' = Tail(queue), label' = DayOf(1),
         \/ buffer' = {Head(queue)}
         \/ label = DayOf(1) /\ buffer' = buffer \cup {Head(queue)},
         old = NoDay, writer' = "loop",
         UNCHANGED <<today, asOf, old, csv, gz, kept, recorded>>
  PROVE  TickInv'
<1>1. /\ queue \in Seq(Rows) /\ Len(queue) \in Nat /\ Len(queue) > 0
      /\ Head(queue) = queue[1] /\ queue' \in Seq(Rows) /\ Len(queue') = Len(queue) - 1
      /\ \A i \in 1..Len(queue') : i \in Nat /\ i + 1 \in 1..Len(queue) /\ queue'[i] = queue[i + 1]
      /\ 1 \in 1..Len(queue) /\ queue[1] \in Rows /\ DayOf(1) \in Days
      /\ \A i \in 1..Len(queue) : DayOf(i) \in Days
  BY QueueIs DEF TickInv, TickTypes
<1>2. \A i \in 1..Len(queue') : DayOf(i)' = DayOf(i + 1)
  BY <1>1 DEF DayOf
<1>3. TickTypes'
  BY <1>1 DEF TickInv, TickTypes
<1>4. QueueInv'
  <2>1. \A i, j \in 1..Len(queue) : i < j => DayOf(i) <= DayOf(j)
    BY DEF TickInv, QueueInv
  <2>2. \A i \in 1..Len(queue) : DayOf(i) <= today
    BY DEF TickInv, QueueInv
  <2>3. \A i \in 1..Len(queue') : label' <= DayOf(i)'
    BY <1>1, <1>2, <2>1
  <2>4. \A i \in 1..Len(queue') : DayOf(i)' <= today'
    BY <1>1, <1>2, <2>2
  <2>5. ASSUME NEW i \in 1..Len(queue'), NEW j \in 1..Len(queue'), i < j
        PROVE  DayOf(i)' <= DayOf(j)'
    BY <1>1, <1>2, <2>1, <2>5
  <2>6. label' <= today'
    BY <1>1, <2>2
  <2> QED
    BY <2>3, <2>4, <2>5, <2>6 DEF QueueInv, Rolling, Starting, Cleaning
<1>5. CopyInv'
  BY DEF TickInv, CopyInv, Cleaning
<1>6. FileInv'
  <2>1. \A r \in buffer' : r[1] = label'
    BY <1>1 DEF TickInv, FileInv, DayOf
  <2>2. ASSUME NEW r \in kept, Sealed(r)
        PROVE  /\ r[1] < today /\ r[1] < label'
               /\ \A i \in 1..Len(queue') : r[1] < DayOf(i)'
    BY <1>1, <1>2, <2>2 DEF TickInv, FileInv
  <2>3. \A r \in kept : Sealed(r)' <=> Sealed(r)
    BY DEF Sealed
  <2> QED
    BY <2>1, <2>2, <2>3 DEF TickInv, FileInv
<1> QED
  BY <1>3, <1>4, <1>5, <1>6 DEF TickInv

-----------------------------------------------------------------------------
(* The actions of the writer.                                              *)

\* No copy is under way but where the unlink follows.
LEMMA NoCopy ==
  ASSUME TickInv, writer \notin {"staleUnlink", "unlink"}
  PROVE  old = NoDay
BY DEF TickInv, CopyInv

LEMMA CleanupStep ==
  ASSUME TickInv, StaleBegins \/ StaleCopy \/ StaleUnlink \/ StaleDone
  PROVE  TickInv'
<1>1. CASE StaleCopy
  <2>1. PICK d \in Days \ {asOf} : csv[d] # {} /\ Copy(d)
    BY <1>1 DEF StaleCopy
  <2> QED
    BY <1>1, <2>1, CopyKeeps DEF StaleCopy, clockVars
<1>2. CASE StaleUnlink
  <2>1. /\ UNCHANGED <<today, asOf, queue, buffer, label, kept, recorded>> /\ old' = NoDay
        /\ csv' = Unlinked /\ gz' = gz /\ writer = "staleUnlink" /\ writer' \in Cleaning
    BY <1>2 DEF StaleUnlink, clockVars, Cleaning
  <2> QED
    BY <2>1, UnlinkKeeps
<1>3. CASE StaleDone
  <2>1. old = NoDay
    BY <1>3, NoCopy DEF StaleDone
  <2>2. Unlinked = csv
    BY <2>1 DEF Unlinked
  <2>3. /\ UNCHANGED <<today, asOf, queue, buffer, label, kept, recorded>> /\ old' = NoDay
        /\ csv' = Pruned(Unlinked) /\ gz' = Pruned(gz)
        /\ writer \in Cleaning /\ writer' \notin Starting \cup Rolling
    BY <1>3, <2>1, <2>2 DEF StaleDone, DiskCheck, clockVars, Starting, Cleaning, Rolling
  <2> QED
    BY <2>1, <2>3, UnlinkKeeps
<1> QED
  BY <1>1, <1>2, <1>3, BeginsKeeps

LEMMA RollStep ==
  ASSUME TickInv, RollFlush \/ RollCopy \/ RollUnlink \/ RollOpen
  PROVE  TickInv'
<1>1. queue # <<>> => Head(queue)[1] = DayOf(1)
  BY QueueIs DEF TickInv, TickTypes, DayOf
<1>2. CASE RollFlush
  <2>1. /\ writer = "loop" /\ Flush /\ queue # <<>> /\ DayOf(1) # label
        /\ writer' = IF label = NoDay THEN "open" ELSE "copy"
        /\ UNCHANGED <<today, asOf, queue, label, old, gz, recorded>>
    BY <1>1, <1>2 DEF RollFlush, clockVars
  <2> QED
    BY <2>1, FlushKeeps DEF Starting, Cleaning
<1>3. CASE RollCopy
  <2>1. /\ writer = "copy" /\ writer' = "unlink"
        /\ UNCHANGED <<today, asOf, queue, buffer, label, csv, kept, recorded>>
        /\ IF csv[label] = {} THEN UNCHANGED <<gz, old>> ELSE Copy(label)
    BY <1>3 DEF RollCopy, clockVars
  <2>2. label \in Days /\ old = NoDay
    BY <2>1, NoCopy DEF TickInv, TickTypes, QueueInv
  <2>3. CASE csv[label] # {}
    BY <2>1, <2>2, <2>3, CopyKeeps
  <2>4. CASE csv[label] = {}
    <3>1. UNCHANGED <<gz, old>>
      BY <2>1, <2>4
    <3>2. TickTypes' /\ QueueInv' /\ CopyInv'
      BY <2>1, <2>2, <3>1 DEF TickInv, TickTypes, QueueInv, CopyInv, DayOf, Rolling, Starting,
                        Cleaning
    <3>3. FileInv'
      <4>1. ASSUME NEW r \in kept, Sealed(r)
            PROVE  /\ r[1] < today /\ \A i \in 1..Len(queue) : r[1] < DayOf(i)'
                   /\ label = NoDay \/ r[1] < label
        BY <2>1, <4>1 DEF TickInv, FileInv, DayOf
      <4>2. \A r \in kept : Sealed(r)' <=> Sealed(r)
        BY <2>1 DEF Sealed
      <4> QED
        BY <2>1, <3>1, <4>1, <4>2 DEF TickInv, FileInv
    <3> QED BY <3>2, <3>3 DEF TickInv
  <2> QED BY <2>3, <2>4
<1>4. CASE RollUnlink
  <2>1. /\ UNCHANGED <<today, asOf, queue, buffer, label, kept, recorded>> /\ old' = NoDay
        /\ csv' = Pruned(Unlinked) /\ gz' = Pruned(gz)
        /\ writer = "unlink" /\ writer' = "open"
    BY <1>4 DEF RollUnlink, clockVars
  <2> QED
    BY <2>1, UnlinkKeeps
<1>5. CASE RollOpen
  <2>1. /\ writer = "open" /\ label' = Head(queue)[1] /\ buffer' = {Head(queue)}
        /\ queue' = Tail(queue) /\ writer' = "loop"
        /\ UNCHANGED <<today, asOf, old, csv, gz, kept, recorded>>
    BY <1>5 DEF RollOpen, fileVars, clockVars
  <2>2. queue # <<>> /\ old = NoDay
    BY <2>1, NoCopy DEF TickInv, QueueInv, Rolling
  <2> QED
    BY <1>1, <2>1, <2>2, TakeKeeps
<1> QED
  BY <1>2, <1>3, <1>4, <1>5

LEMMA WriterLoopStep ==
  ASSUME TickInv, TakeRow \/ PeriodicFlush \/ LastFlush
  PROVE  TickInv'
<1>1. CASE TakeRow
  <2>1. /\ writer = "loop" /\ queue # <<>> /\ Head(queue)[1] = label
        /\ buffer' = buffer \cup {Head(queue)} /\ queue' = Tail(queue)
        /\ UNCHANGED <<label, writer, today, asOf, old, csv, gz, kept, recorded>>
    BY <1>1 DEF TakeRow, fileVars, clockVars
  <2>2. label = DayOf(1) /\ old = NoDay
    BY <2>1, QueueIs, NoCopy DEF TickInv, TickTypes, DayOf
  <2> QED
    BY <2>1, <2>2, TakeKeeps
<1>2. CASE PeriodicFlush \/ LastFlush
  <2>1. /\ writer = "loop" /\ Flush /\ writer' \in {"loop", "over"}
        /\ UNCHANGED <<today, asOf, queue, label, old, gz, recorded>>
    BY <1>2 DEF PeriodicFlush, LastFlush, DiskCheck, clockVars
  <2>2. writer' \notin Starting /\ writer' \notin Rolling /\ writer' \notin {"copy", "unlink"}
    BY <2>1 DEF Starting, Cleaning, Rolling
  <2> QED
    BY <2>1, <2>2, FlushKeeps
<1> QED
  BY <1>1, <1>2

LEMMA TickStep == ASSUME ~Overlap, TickInv, [TickNext]_tickVars PROVE TickInv'
<1>1. CASE StopRecorder \/ UNCHANGED tickVars
  <2>1. UNCHANGED <<today, asOf, queue, buffer, label, writer, old, csv, gz, kept, recorded>>
    BY <1>1 DEF StopRecorder, tickVars, fileVars, clockVars
  <2>2. TickTypes' /\ QueueInv' /\ CopyInv'
    BY <2>1 DEF TickInv, TickTypes, QueueInv, CopyInv, DayOf
  <2>3. FileInv'
    BY <2>1 DEF TickInv, FileInv, Sealed, DayOf
  <2> QED BY <2>2, <2>3 DEF TickInv
<1> QED
  BY <1>1, RecordStep, NextDayStep, RestartedStep, CleanupStep, RollStep, WriterLoopStep DEF TickNext

(***************************************************************************)
(* For any number of days, rows, restarts and any queue, every row that    *)
(* was written stays in the files of its day for the time of the           *)
(* retention, unless a day ends between the start of the stream and the    *)
(* writer's look at the clock.                                             *)
(***************************************************************************)
THEOREM WrittenStays == ASSUME ~Overlap PROVE TickSpec => []FlushedKept
<1>1. TickInv => FlushedKept
  BY DEF TickInv, FileInv, FlushedKept
<1>2. TickInv /\ [TickNext]_tickVars => TickInv'
  BY TickStep
<1> QED
  BY <1>1, <1>2, TickStart, PTL DEF TickSpec

-----------------------------------------------------------------------------
(* Types, whether or not a day ends during the start.                      *)

Stages == {"start", "stale", "staleUnlink", "check", "loop", "copy", "unlink", "open", "over"}

FilesTyped ==
    /\ csv \in [Days -> SUBSET Rows] /\ gz \in [Days -> SUBSET Rows] /\ kept \subseteq Rows
    /\ buffer \subseteq Rows
    /\ label \in Days \cup {NoDay} /\ old \in Days \cup {NoDay}

\* A rollover has the row that caused it still at the head of the queue.
LoopTyped ==
    /\ today \in Days /\ asOf \in Days
    /\ queue \in Seq(Rows) /\ Len(queue) <= QueueMax
    /\ open \in BOOLEAN /\ stop \in BOOLEAN /\ diskStopped \in BOOLEAN
    /\ writer \in Stages
    /\ recorded \in 0..MaxRows /\ restarts \in 0..MaxRestarts
    /\ writer \in Rolling => queue # <<>>
    /\ writer \in {"copy", "unlink"} => label # NoDay

LEMMA TypesAre == FilesTyped /\ LoopTyped => TickTypeOK
BY DEF FilesTyped, LoopTyped, TickTypeOK, Stages

LEMMA TypedStart == TickInit => FilesTyped /\ LoopTyped
<1>1. 1 \in Days /\ 0 \in 0..MaxRows /\ 0 \in 0..MaxRestarts /\ 0 <= QueueMax
  BY TickAssumption DEF Days
<1>2. <<>> \in Seq(Rows) /\ Len(<<>>) = 0
  OBVIOUS
<1> QED
  BY <1>1, <1>2 DEF TickInit, FilesTyped, LoopTyped, Stages, Rolling, NoDay

LEMMA HeadTyped ==
    ASSUME LoopTyped, queue # <<>>
    PROVE  /\ Head(queue) \in Rows /\ Head(queue)[1] \in Days
           /\ Tail(queue) \in Seq(Rows) /\ Len(Tail(queue)) <= QueueMax
<1>1. /\ Len(queue) > 0 /\ Head(queue) = queue[1] /\ queue[1] \in Rows
      /\ Len(Tail(queue)) = Len(queue) - 1 /\ Tail(queue) \in Seq(Rows) /\ Len(queue) \in Nat
  BY QueueIs DEF LoopTyped
<1>2. QueueMax \in Nat /\ Len(queue) <= QueueMax
  BY TickAssumption DEF LoopTyped
<1>3. Len(Tail(queue)) <= QueueMax
  BY <1>1, <1>2
<1> QED
  BY <1>1, <1>3, DaysAre

LEMMA RecordTyped == ASSUME FilesTyped, LoopTyped, Record PROVE FilesTyped' /\ LoopTyped'
<1>1. recorded < MaxRows /\ recorded' = recorded + 1
      /\ UNCHANGED <<today, asOf, buffer, label, open, writer, old, stop, diskStopped,
                     csv, gz, kept, restarts>>
  BY DEF Record, fileVars
<1>2. recorded' \in 0..MaxRows /\ recorded' \in 1..MaxRows
  BY <1>1, TickAssumption DEF LoopTyped
<1>3. <<today, recorded'>> \in Rows
  BY <1>2 DEF LoopTyped, Rows
<1>4. queue' \in Seq(Rows) /\ Len(queue') <= QueueMax /\ (queue # <<>> => queue' # <<>>)
  <2>1. Len(queue) \in Nat /\ QueueMax \in Nat
    BY TickAssumption DEF LoopTyped
  <2>2. CASE queue' = queue
    BY <2>2 DEF LoopTyped
  <2>3. CASE Len(queue) # QueueMax /\ queue' = Append(queue, <<today, recorded'>>)
    <3>1. /\ Append(queue, <<today, recorded'>>) \in Seq(Rows)
          /\ Len(Append(queue, <<today, recorded'>>)) = Len(queue) + 1
      BY <1>3 DEF LoopTyped
    <3>2. Len(queue') = Len(queue) + 1 /\ Len(queue) + 1 <= QueueMax
      BY <2>1, <2>3, <3>1 DEF LoopTyped
    <3>3. queue' # <<>>
      BY <2>1, <3>2
    <3> QED
      BY <2>3, <3>1, <3>2, <3>3
  <2> QED
    BY <2>2, <2>3 DEF Record
<1> QED
  BY <1>1, <1>2, <1>4 DEF FilesTyped, LoopTyped

LEMMA ClockTyped ==
    ASSUME FilesTyped, LoopTyped, NextDay \/ StopRecorder \/ UNCHANGED tickVars
    PROVE  FilesTyped' /\ LoopTyped'
<1>1. /\ today' \in Days /\ stop' \in BOOLEAN
      /\ UNCHANGED <<asOf, queue, buffer, label, open, writer, old, diskStopped, csv, gz,
                     kept, recorded, restarts>>
  <2>1. CASE NextDay
    <3>1. today' \in Days
      BY <2>1, TickAssumption DEF NextDay, LoopTyped, Days
    <3> QED
      BY <2>1, <3>1 DEF NextDay, LoopTyped, fileVars
  <2>2. CASE StopRecorder \/ UNCHANGED tickVars
    BY <2>2 DEF StopRecorder, LoopTyped, tickVars, fileVars, clockVars
  <2> QED
    BY <2>1, <2>2
<1> QED
  BY <1>1 DEF FilesTyped, LoopTyped

LEMMA RestartTyped == ASSUME FilesTyped, LoopTyped, Restarted PROVE FilesTyped' /\ LoopTyped'
<1>1. /\ restarts < MaxRestarts /\ restarts' = restarts + 1
      /\ queue' = <<>> /\ buffer' = {} /\ label' = NoDay /\ old' = NoDay
      /\ open' = FALSE /\ stop' = FALSE /\ diskStopped' = FALSE /\ writer' = "start"
      /\ UNCHANGED <<today, asOf, csv, kept, recorded>>
      /\ gz' \in {gz} \cup {[gz EXCEPT ![d] = {}] : d \in {old} \cap Days}
  BY DEF Restarted
<1>2. gz' \in [Days -> SUBSET Rows]
  BY <1>1 DEF FilesTyped
<1>3. restarts' \in 0..MaxRestarts
  BY <1>1, TickAssumption DEF LoopTyped
<1>4. queue' \in Seq(Rows) /\ Len(queue') <= QueueMax
  <2>1. <<>> \in Seq(Rows) /\ Len(<<>>) = 0 /\ QueueMax \in Nat
    BY TickAssumption
  <2> QED
    BY <1>1, <2>1
<1> QED
  BY <1>1, <1>2, <1>3, <1>4 DEF FilesTyped, LoopTyped, Stages, Rolling

\* The files after a copy, an unlink, a deletion and a flush.
LEMMA CopyTyped ==
    ASSUME FilesTyped, NEW d \in Days, Copy(d)
    PROVE  gz' \in [Days -> SUBSET Rows] /\ old' \in Days \cup {NoDay}
BY DEF Copy, FilesTyped

LEMMA UnlinkedTyped == ASSUME FilesTyped PROVE Unlinked \in [Days -> SUBSET Rows]
BY DEF Unlinked, FilesTyped

LEMMA PrunedTyped ==
    ASSUME NEW f \in [Days -> SUBSET Rows] PROVE Pruned(f) \in [Days -> SUBSET Rows]
BY DEF Pruned

LEMMA FlushTyped ==
    ASSUME FilesTyped, Flush
    PROVE  buffer' = {} /\ csv' \in [Days -> SUBSET Rows] /\ kept' \subseteq Rows
<1>1. PICK written \in {{}, IF open THEN buffer ELSE {}} :
        /\ csv' = IF label = NoDay THEN csv ELSE [csv EXCEPT ![label] = @ \cup written]
        /\ kept' = kept \cup written
  BY DEF Flush
<1>2. written \subseteq Rows
  BY <1>1 DEF FilesTyped
<1> QED
  BY <1>1, <1>2 DEF FilesTyped, Flush

LEMMA CleanupTyped ==
    ASSUME FilesTyped, LoopTyped, StaleBegins \/ StaleCopy \/ StaleUnlink \/ StaleDone
    PROVE  FilesTyped' /\ LoopTyped'
<1>1. /\ csv' \in [Days -> SUBSET Rows] /\ gz' \in [Days -> SUBSET Rows]
      /\ old' \in Days \cup {NoDay}
  <2>1. CASE StaleCopy
    BY <2>1, CopyTyped DEF StaleCopy, FilesTyped
  <2>2. CASE StaleUnlink
    BY <2>2, UnlinkedTyped DEF StaleUnlink, FilesTyped
  <2>3. CASE StaleDone
    BY <2>3, PrunedTyped DEF StaleDone, FilesTyped
  <2>4. CASE StaleBegins
    BY <2>4 DEF StaleBegins, FilesTyped, fileVars
  <2> QED
    BY <2>1, <2>2, <2>3, <2>4
<1>2. /\ writer' \in Stages \ Rolling /\ diskStopped' \in BOOLEAN /\ asOf' \in Days
      /\ UNCHANGED <<queue, buffer, label, open, stop, kept, today, recorded, restarts>>
  BY DEF StaleBegins, StaleCopy, StaleUnlink, StaleDone, DiskCheck, LoopTyped, Stages,
         Rolling, fileVars, clockVars
<1> QED
  BY <1>1, <1>2 DEF FilesTyped, LoopTyped, clockVars, Rolling

LEMMA RollTyped ==
    ASSUME FilesTyped, LoopTyped, RollFlush \/ RollCopy \/ RollUnlink
    PROVE  FilesTyped' /\ LoopTyped'
<1>1. /\ csv' \in [Days -> SUBSET Rows] /\ gz' \in [Days -> SUBSET Rows] /\ kept' \subseteq Rows
      /\ old' \in Days \cup {NoDay} /\ buffer' \subseteq Rows
  <2>1. CASE RollFlush
    BY <2>1, FlushTyped DEF RollFlush, FilesTyped
  <2>2. CASE RollCopy
    <3>1. label \in Days
      BY <2>2 DEF RollCopy, FilesTyped, LoopTyped
    <3> QED
      BY <2>2, <3>1, CopyTyped DEF RollCopy, FilesTyped
  <2>3. CASE RollUnlink
    BY <2>3, UnlinkedTyped, PrunedTyped DEF RollUnlink, FilesTyped
  <2> QED
    BY <2>1, <2>2, <2>3
<1>2. /\ writer' \in {"copy", "unlink", "open"} /\ queue # <<>>
      /\ writer' \in {"copy", "unlink"} => label # NoDay
      /\ UNCHANGED <<queue, label, open, stop, diskStopped, clockVars>>
  BY DEF RollFlush, RollCopy, RollUnlink, LoopTyped, Rolling
<1> QED
  BY <1>1, <1>2 DEF FilesTyped, LoopTyped, clockVars, Stages

LEMMA TakeTyped ==
    ASSUME FilesTyped, LoopTyped, TakeRow \/ RollOpen
    PROVE  FilesTyped' /\ LoopTyped'
<1>1. queue # <<>>
  BY DEF TakeRow, RollOpen, LoopTyped, Rolling
<1>2. /\ queue' = Tail(queue) /\ buffer' \subseteq buffer \cup {Head(queue)}
      /\ label' \in {label, Head(queue)[1]} /\ writer' = "loop" /\ open' \in BOOLEAN
      /\ UNCHANGED <<old, stop, diskStopped, fileVars, clockVars>>
  BY DEF TakeRow, RollOpen, LoopTyped
<1>3. queue' \in Seq(Rows) /\ Len(queue') <= QueueMax
  BY <1>1, <1>2, HeadTyped
<1>4. buffer' \subseteq Rows /\ label' \in Days \cup {NoDay}
  BY <1>1, <1>2, HeadTyped DEF FilesTyped
<1> QED
  BY <1>2, <1>3, <1>4 DEF FilesTyped, LoopTyped, fileVars, clockVars, Stages, Rolling

LEMMA WriteTyped ==
    ASSUME FilesTyped, LoopTyped, PeriodicFlush \/ LastFlush
    PROVE  FilesTyped' /\ LoopTyped'
<1>1. /\ Flush /\ writer' \in {"loop", "over"} /\ diskStopped' \in BOOLEAN
      /\ UNCHANGED <<queue, label, open, old, stop, gz, clockVars>>
  BY DEF PeriodicFlush, LastFlush, DiskCheck, LoopTyped
<1> QED
  BY <1>1, FlushTyped DEF FilesTyped, LoopTyped, clockVars, Stages, Rolling

\* The types of the recorder, for any bounds and with the overlap as well.
LEMMA TickTyped == TickSpec => []TickTypeOK
<1>1. FilesTyped /\ LoopTyped /\ [TickNext]_tickVars => (FilesTyped /\ LoopTyped)'
  BY RecordTyped, ClockTyped, RestartTyped, CleanupTyped, RollTyped, TakeTyped, WriteTyped
     DEF TickNext
<1> QED
  BY <1>1, TypedStart, TypesAre, PTL DEF TickSpec
=============================================================================
