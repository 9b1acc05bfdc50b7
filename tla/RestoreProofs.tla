---------------------------- MODULE RestoreProofs ----------------------------
(***************************************************************************)
(* Proofs about Restore, for every set of backups and every number of      *)
(* attempts: types, with or without an order of the directory changes, and *)
(* under an order of them what recovery finds, what is acknowledged and    *)
(* that a restore implements AtomicRestore.                                *)
(*                                                                         *)
(* Good says of one directory that recovery can finish what it holds; the  *)
(* invariant says it of every directory a power loss may leave, and adds   *)
(* what the running process knows of the one it sees.                      *)
(***************************************************************************)
EXTENDS Restore, TLAPS, FiniteSetTheorems

-----------------------------------------------------------------------------
(***************************************************************************)
(* Files, names and single changes of a directory.                         *)
(***************************************************************************)

\* No two files are confused: absence, the databases and the markers all differ.
LEMMA Files ==
    \A k, j : /\ Db(k) = Db(j) => k = j
              /\ Marker(k) = Marker(j) => k = j
              /\ Db(k) # None /\ Marker(k) # None /\ Db(k) # Marker(j)
              /\ Db(k)[2] = k
BY DEF Db, Marker, None

\* Which files there are.
LEMMA Members ==
    /\ None \in Database /\ Database \subseteq File
    /\ \A k \in 0..MaxRestores : Db(k) \in Database
    /\ \A k \in Attempt : Marker(k) \in File /\ Db(k) \in Database
    /\ \A f \in Database : f # None => \E k \in 0..MaxRestores : f = Db(k)
<1>1. Attempt \subseteq 0..MaxRestores
  BY RestoreAssumption DEF Attempt
<1>. QED
  BY <1>1 DEF Database, File

\* The names of the data directory; no backup names one of the fixed three.
LEMMA NameMembers ==
    /\ "live" \in Name /\ "old" \in Name /\ "marker" \in Name /\ Backup \subseteq Name
    /\ \A b \in Backup : b # "live" /\ b # "old" /\ b # "marker"
    /\ \A x \in Name : x \in Backup \/ x = "live" \/ x = "old" \/ x = "marker"
BY RestoreAssumption DEF Name

\* A change of one name leaves the others.
LEMMA PutName ==
    ASSUME NEW d \in [Name -> File], NEW x, NEW f \in File
    PROVE  /\ Put(d, x, f) \in [Name -> File]
           /\ x \in Name => Put(d, x, f)[x] = f
           /\ \A y \in Name : y # x => Put(d, x, f)[y] = d[y]
           /\ \A y \in Name : Put(d, x, f)[y] = d[y] \/ (y = x /\ Put(d, x, f)[y] = f)
BY DEF Put

\* Only one marker is in the directory, so recovery reads its transaction.
LEMMA CurrentIs ==
    ASSUME NEW k \in Attempt, dir["marker"] = Marker(k)
    PROVE  Current = k /\ T = tx[k] /\ Restored = Db(k) /\ Val = dir[tx[k].backup]
<1>1. \A j \in Attempt : Marker(j) = dir["marker"] <=> j = k
  BY Files
<1>2. Current = k
  BY <1>1 DEF Current
<1>. QED
  BY <1>2 DEF T, Restored, Val

-----------------------------------------------------------------------------
(***************************************************************************)
(* Types, whatever order directory changes reach the disk in.              *)
(***************************************************************************)
Directories ==
    /\ dir \in [Name -> File] /\ images \subseteq [Name -> File] /\ dir \in images
    /\ \A im \in images : im["live"] \in Database /\ im["old"] \in Database

TypeInv ==
    /\ TypeOK /\ Directories
    /\ pc \in Installing \cup {"link"} \/ rollback => n \in Attempt

\* A change of one name keeps every possible directory typed.
LEMMA EntryTyped ==
    ASSUME Directories, NEW x, NEW f \in File,
           x \in {"live", "old"} => f \in Database, Entry(x, f)
    PROVE  Directories'
<1>. DEFINE Typed(d) == d \in [Name -> File] /\ d["live"] \in Database /\ d["old"] \in Database
<1>1. ASSUME NEW d, Typed(d) PROVE Typed(Put(d, x, f))
  BY <1>1, PutName, NameMembers
<1>2. \A im \in images : Typed(im)
  BY DEF Directories
<1>3. dir \in images /\ Typed(dir)
  BY <1>2 DEF Directories
<1>4. dir' = Put(dir, x, f)
  BY DEF Entry
<1>5. \A im \in images' : Typed(im)
  <2>1. CASE Ordered
    BY <2>1, <1>1, <1>2, <1>3, <1>4 DEF Entry
  <2>2. CASE ~Ordered
    <3>1. images' = images \cup {Put(im, x, f) : im \in images}
      BY <2>2 DEF Entry
    <3>. HIDE DEF Typed
    <3>. QED
      BY <3>1, <1>1, <1>2
  <2>. QED
    BY <2>1, <2>2
<1>6. dir' \in images'
  BY <1>3, <1>4 DEF Entry
<1>. QED
  BY <1>3, <1>5, <1>6 DEF Directories

\* So does a change that may not be made, and a sync.
LEMMA EntryIfTyped ==
    ASSUME Directories, NEW c, NEW x, EntryIf(c, x, None)
    PROVE  Directories'
<1>1. CASE Entry(x, None)
  BY <1>1, EntryTyped, Members
<1>2. CASE UNCHANGED <<dir, images>>
  BY <1>2 DEF Directories
<1>. QED
  BY <1>1, <1>2 DEF EntryIf

\* A sync, or no change, leaves directories.
LEMMA SyncTyped ==
    ASSUME Directories, Sync \/ UNCHANGED <<dir, images>>
    PROVE  Directories'
BY DEF Directories, Sync

Busy == Installing \cup {"link"}
Places == Busy \cup Recovering \cup {"off", "recover", "ready", "refused", "done", "serving"}

\* A step that only goes on to the next place.
LEMMA GotoTyped ==
    ASSUME TypeInv, Directories', NEW to \in Places, to \in Busy => n \in Attempt, Goto(to)
    PROVE  TypeInv'
BY DEF TypeInv, TypeOK, Goto, Directories, Places, Busy

\* A step that acknowledges the database in place.
LEMMA AcknowledgeTyped ==
    ASSUME TypeInv, Directories', NEW to \in Places \ Busy, Acknowledge(to)
    PROVE  TypeInv'
<1>1. dir["live"] \in Database
  BY DEF TypeInv, Directories
<1>. QED
  BY <1>1 DEF TypeInv, TypeOK, Acknowledge, Directories, Places, Busy

\* In the initial states everything has its type.
LEMMA TypeInit == Init => TypeInv
<1>. SUFFICES ASSUME Init PROVE TypeInv
  OBVIOUS
<1>1. Backup # {}
  BY RestoreAssumption
<1>2. NoTransaction \in [backup : Backup, hadLive : BOOLEAN, original : Database]
  BY <1>1, Members DEF NoTransaction
<1>3. PICK live \in {None, Db(0)} : dir = [x \in Name |-> IF x = "live" THEN live ELSE None]
  BY DEF Init
<1>4. 0 \in 0..MaxRestores
  BY RestoreAssumption
<1>5. live \in Database /\ live \in File /\ None \in File
  BY <1>4, Members
<1>6. dir \in [Name -> File] /\ dir["live"] = live /\ dir["old"] = None
  BY <1>3, <1>5, NameMembers
<1>7. Directories
  BY <1>5, <1>6, Members DEF Init, Directories
<1>8. tx \in [Attempt -> [backup : Backup, hadLive : BOOLEAN, original : Database]]
  BY <1>2 DEF Init
<1>9. pc = "off" /\ ack \in Database /\ n \in 0..MaxRestores /\ rollback = FALSE
  BY <1>4, <1>5, <1>6 DEF Init
<1>10. text \in [Attempt -> {"none", "empty", "written", "synced"}]
  BY DEF Init
<1>. QED
  BY <1>7, <1>8, <1>9, <1>10 DEF TypeInv, TypeOK, Directories, Installing

\* Every step keeps the types: what it links is a database or the attempt's own marker.
LEMMA TypeNext == TypeInv /\ [Next]_vars => TypeInv'
<1>. SUFFICES ASSUME TypeInv, [Next]_vars PROVE TypeInv'
  OBVIOUS
<1>1. Directories
  BY DEF TypeInv
<1>2. /\ dir["live"] \in Database /\ dir["old"] \in Database
      /\ None \in Database /\ None \in File /\ Database \subseteq File
      /\ \A k \in Attempt : Marker(k) \in File /\ Db(k) \in Database
  BY <1>1, Members DEF Directories
<1>3. pc \in Busy => n \in Attempt
  BY DEF TypeInv, Busy
<1>4. n \in 0..MaxRestores
  BY DEF TypeInv, TypeOK
<1>. DEFINE Entered(x, f) == Entry(x, f) => Directories'
<1>5. Entered("live", dir["old"]) /\ Entered("old", dir["live"]) /\ Entered("live", None)
  BY <1>1, <1>2, EntryTyped
<1>6. \A x : Entered(x, None)
  BY <1>1, <1>2, EntryTyped
<1>7. \A k \in Attempt : Entered("live", Db(k)) /\ Entered("marker", Marker(k))
  BY <1>1, <1>2, EntryTyped
<1>8. \A k \in Attempt, b \in Backup : Entered(b, Db(k))
  BY <1>1, <1>2, EntryTyped
<1>9. \A c, x : EntryIf(c, x, None) => Directories'
  BY <1>1, EntryIfTyped
<1>10. Sync \/ UNCHANGED <<dir, images>> => Directories'
  BY <1>1, SyncTyped
<1>. HIDE DEF Entered
<1>. USE DEF Entered
<1>11. CASE Start
  BY <1>10, <1>11 DEF Start, TypeInv, TypeOK, Directories, Busy, Installing, Recovering
<1>12. CASE Accept
  BY <1>10, <1>12, AcknowledgeTyped DEF Accept, Places, Busy, Installing
<1>13. CASE ReadTransaction
  <2>. DEFINE To == {"r.sync", "o.old", "o.val", "p.link"}
  <2>1. PICK to \in To : Goto(to)
    BY <1>13 DEF ReadTransaction
  <2>2. Directories'
    BY <1>10, <1>13 DEF ReadTransaction
  <2>. QED
    BY <2>1, <2>2, GotoTyped DEF Places, Busy, Recovering, Installing
<1>14. CASE RecoverRestored
  <2>. DEFINE To == {"r.val", "r.old", "r.clean", "clear"}
  <2>1. PICK to \in To : Goto(to)
    BY <1>14 DEF RecoverRestored, Step
  <2>2. Directories'
    BY <1>9, <1>10, <1>14 DEF RecoverRestored
  <2>. QED
    BY <2>1, <2>2, GotoTyped DEF Places, Busy, Recovering, Installing
<1>15. CASE RecoverOriginal
  <2>. DEFINE To == {"p.sync", "o.old", "o.val", "o.check", "clear"}
  <2>1. PICK to \in To : Goto(to)
    BY <1>15 DEF RecoverOriginal, Step
  <2>2. Directories'
    BY <1>5, <1>9, <1>10, <1>15 DEF RecoverOriginal
  <2>. QED
    BY <2>1, <2>2, GotoTyped DEF Places, Busy, Recovering, Installing
<1>16. CASE Refuse
  BY <1>10, <1>16, GotoTyped DEF Refuse, Places, Busy, Installing
<1>17. CASE ClearMarker
  <2>1. Directories'
    BY <1>6, <1>10, <1>17 DEF ClearMarker
  <2>2. Goto("clear.sync") \/ Goto("off") \/ Acknowledge("ready")
    BY <1>17 DEF ClearMarker, Step
  <2>. QED
    BY <2>1, <2>2, GotoTyped, AcknowledgeTyped DEF Places, Busy, Recovering, Installing
<1>18. ASSUME NEW b \in Backup, BindCandidate(b) PROVE TypeInv'
  <2>1. n + 1 \in Attempt /\ n + 1 \in 0..MaxRestores
    BY <1>4, <1>18, RestoreAssumption DEF BindCandidate, Attempt
  <2>2. Directories'
    BY <1>8, <1>18, <2>1 DEF BindCandidate, BindAnonymousRegular
  <2>3. [NoTransaction EXCEPT !.backup = b] \in
              [backup : Backup, hadLive : BOOLEAN, original : Database]
    BY <1>2 DEF NoTransaction
  <2>. QED
    BY <1>18, <2>1, <2>2, <2>3
       DEF BindCandidate, TypeInv, TypeOK, Directories, Installing
<1>19. CASE CreateMarker
  <2>1. n \in Attempt
    BY <1>3, <1>19 DEF CreateMarker, Busy, Installing
  <2>2. Directories'
    BY <1>7, <1>19, <2>1 DEF CreateMarker
  <2>3. tx' \in [Attempt -> [backup : Backup, hadLive : BOOLEAN, original : Database]]
    <3>. DEFINE R == [backup : Backup, hadLive : BOOLEAN, original : Database]
                r == [tx[n] EXCEPT !.hadLive = dir["live"] # None, !.original = dir["live"]]
    <3>1. tx \in [Attempt -> R] /\ tx[n] \in R
      BY <2>1 DEF TypeInv, TypeOK
    <3>2. r \in R
      BY <1>2, <3>1
    <3>3. tx' = [tx EXCEPT ![n] = r]
      BY <1>19 DEF CreateMarker
    <3>. HIDE DEF R, r
    <3>4. tx' \in [Attempt -> R]
      BY <3>1, <3>2, <3>3
    <3>. QED
      BY <3>4 DEF R
  <2>. QED
    BY <1>19, <2>1, <2>2, <2>3 DEF CreateMarker, TypeInv, TypeOK, Directories, Installing
<1>20. CASE WriteMarker
  <2>1. n \in Attempt
    BY <1>3, <1>20 DEF WriteMarker, Busy, Installing
  <2>2. CASE (pc = "created" /\ Written("written", "written")) \/
             (pc = "written" /\ Written("marked", "synced"))
    BY <1>10, <2>1, <2>2 DEF Written, TypeInv, TypeOK, Directories, Installing
  <2>3. CASE pc = "marked" /\ Sync /\ Goto(IF tx[n].hadLive THEN "retain" ELSE "link")
    <3>1. Goto("retain") \/ Goto("link")
      BY <2>3
    <3>. QED
      BY <1>10, <2>1, <2>3, <3>1, GotoTyped DEF Places, Busy, Installing
  <2>. QED
    BY <1>20, <2>2, <2>3 DEF WriteMarker
<1>21. CASE RetainOriginal
  <2>1. n \in Attempt
    BY <1>3, <1>21 DEF RetainOriginal, Step, Busy, Installing
  <2>. DEFINE To == {"retained", "release", "released", "link"}
  <2>2. PICK to \in To : Goto(to)
    BY <1>21 DEF RetainOriginal, Step
  <2>3. Directories'
    BY <1>5, <1>10, <1>21 DEF RetainOriginal
  <2>. QED
    BY <2>1, <2>2, <2>3, GotoTyped DEF Places, Busy, Installing
<1>22. CASE LinkRestored
  <2>1. n \in Attempt
    BY <1>3, <1>22 DEF LinkRestored, Step, Busy, Installing
  <2>2. Goto("linked") \/ Goto("unbind")
    BY <1>22 DEF LinkRestored, Step
  <2>3. Directories'
    BY <1>7, <1>10, <1>22, <2>1 DEF LinkRestored
  <2>. QED
    BY <2>1, <2>2, <2>3, GotoTyped DEF Places, Busy, Installing
<1>23. CASE LinkFails
  BY <1>3, <1>10, <1>23 DEF Busy, LinkFails, TypeInv, TypeOK, Directories, Recovering, Installing
<1>24. CASE Finalize
  <2>1. n \in Attempt
    BY <1>3, <1>24 DEF Finalize, Step, Busy, Installing
  <2>2. Directories'
    BY <1>6, <1>9, <1>10, <1>24 DEF Finalize
  <2>3. Goto("unretain") \/ Goto("unmark") \/ Goto("finish") \/ Acknowledge("done")
    BY <1>24 DEF Finalize, Step
  <2>. QED
    BY <2>1, <2>2, <2>3, GotoTyped, AcknowledgeTyped DEF Places, Busy, Installing
<1>25. CASE InstallFails
  BY <1>9, <1>25, GotoTyped DEF InstallFails, Places, Busy, Installing
<1>26. CASE CreateDatabase
  <2>1. Db(0) \in Database /\ Db(0) \in File
    BY RestoreAssumption, Members
  <2>2. Directories'
    BY <1>1, <1>26, <2>1, PutName, NameMembers DEF CreateDatabase, Directories
  <2>. QED
    BY <1>26, <2>1, <2>2
       DEF CreateDatabase, TypeInv, TypeOK, Directories, Installing
<1>27. CASE Serve
  BY <1>10, <1>27, GotoTyped DEF Serve, Step, Places, Busy, Installing
<1>28. CASE Crash
  BY <1>10, <1>28, GotoTyped DEF Crash, Places, Busy, Installing
<1>29. CASE PowerLoss
  <2>1. Directories'
    BY <1>1, <1>29 DEF PowerLoss, Directories
  <2>2. text' \in [Attempt -> {"none", "empty", "written", "synced"}]
    BY <1>29 DEF PowerLoss, TypeInv, TypeOK
  <2>. QED
    BY <1>29, <2>1, <2>2 DEF PowerLoss, TypeInv, TypeOK, Directories, Installing
<1>30. CASE UNCHANGED vars
  BY <1>10, <1>30 DEF vars, TypeInv, TypeOK, Directories
<1>. QED
  BY <1>11, <1>12, <1>13, <1>14, <1>15, <1>16, <1>17, <1>18, <1>19, <1>20, <1>21, <1>22,
     <1>23, <1>24, <1>25, <1>26, <1>27, <1>28, <1>29, <1>30 DEF Next

\* Types hold in every reachable state, whether or not the file system keeps the order of
\* directory changes; in particular the directory that processes see is one that a power
\* loss may leave: nothing was replaced behind the process that holds the lease.
THEOREM RestoreTypeCorrect == Spec => []TypeOK
<1>1. TypeInv => TypeOK
  BY DEF TypeInv
<1>. QED
  BY TypeInit, TypeNext, <1>1, PTL DEF Spec

-----------------------------------------------------------------------------
(***************************************************************************)
(* What recovery can finish: a directory d, with the transactions t that m *)
(* attempts described and how much s of their markers has been written.    *)
(***************************************************************************)

\* A validation name links the database that its own attempt bound there.
Names(d, t, m) ==
    \A x \in Backup : d[x] = None \/ \E j \in 1..m : d[x] = Db(j) /\ t[j].backup = x

\* Without a marker there is farm.db, or nothing, and no name shares its inode.
Plain(d, m) ==
    /\ d["old"] = None
    /\ d["live"] = None \/ \E j \in 0..m : d["live"] = Db(j)
    /\ \A x \in Backup : d["live"] # None => d[x] # d["live"]

\* With one, farm.db is on a side of transaction r that recovery recognises.
Sides(d, k, r) ==
    \/ d["live"] = r.original /\ d["old"] \in {None, r.original}
    \/ d["live"] = Db(k) /\ d["old"] \in {None, r.original}
    \/ r.hadLive /\ d["live"] = None /\ d["old"] = r.original

Marked(d, k, r, s) ==
    /\ s # "none" /\ Sides(d, k, r)
    /\ s # "synced" => d["live"] = r.original /\ d["old"] = None
    /\ d[r.backup] \in {None, Db(k)}
    /\ \A x \in Backup : r.hadLive => d[x] # r.original

Good(d, t, s, m) ==
    /\ Names(d, t, m)
    /\ \/ d["marker"] = None /\ Plain(d, m)
       \/ \E k \in 1..m : d["marker"] = Marker(k) /\ Marked(d, k, t[k], s[k])

\* A transaction that an attempt has written down.
Recorded(k, r) ==
    /\ r.backup \in Backup
    /\ r.hadLive <=> r.original # None
    /\ r.hadLive => \E j \in 0..(k - 1) : r.original = Db(j)

\* Later attempts and the progress of a marker leave a good directory good.
LEMMA GoodMoves ==
    ASSUME NEW d, NEW t, NEW s, NEW m \in Nat, Good(d, t, s, m),
           NEW t2, NEW s2, NEW m2 \in Nat, m <= m2,
           \A j \in 1..m : /\ t2[j].backup = t[j].backup
                           /\ s[j] # "none" => /\ t2[j] = t[j] /\ s2[j] # "none"
                                               /\ s[j] = "synced" => s2[j] = "synced"
    PROVE  Good(d, t2, s2, m2)
<1>1. 1..m \subseteq 1..m2 /\ 0..m \subseteq 0..m2
  OBVIOUS
<1>2. Names(d, t2, m2)
  BY <1>1 DEF Good, Names
<1>3. CASE d["marker"] = None /\ Plain(d, m)
  <2>1. Plain(d, m2)
    BY <1>1, <1>3 DEF Plain
  <2>. QED
    BY <1>2, <1>3, <2>1 DEF Good
<1>4. ASSUME NEW k \in 1..m, d["marker"] = Marker(k), Marked(d, k, t[k], s[k])
      PROVE  Good(d, t2, s2, m2)
  <2>1. s[k] # "none"
    BY <1>4 DEF Marked
  <2>2. t2[k] = t[k] /\ s2[k] # "none" /\ (s[k] = "synced" => s2[k] = "synced")
    BY <2>1
  <2>3. Marked(d, k, t2[k], s2[k])
    BY <1>4, <2>2 DEF Marked
  <2>. QED
    BY <1>1, <1>2, <1>4, <2>3 DEF Good
<1>. QED
  BY <1>3, <1>4 DEF Good

\* Removing a validation name leaves a good directory good.
LEMMA GoodWithout ==
    ASSUME NEW d \in [Name -> File], NEW t, NEW s, NEW m, Good(d, t, s, m), NEW x \in Backup,
           \A k \in 1..m : s[k] # "none" => Recorded(k, t[k])
    PROVE  Good(Put(d, x, None), t, s, m)
<1>. DEFINE e == Put(d, x, None)
<1>1. /\ e["live"] = d["live"] /\ e["old"] = d["old"] /\ e["marker"] = d["marker"]
      /\ \A y \in Backup : e[y] = d[y] \/ e[y] = None
  BY PutName, NameMembers, Members
<1>. HIDE DEF e
<1>2. Names(e, t, m)
  BY <1>1 DEF Good, Names
<1>3. CASE d["marker"] = None /\ Plain(d, m)
  <2>1. Plain(e, m)
    BY <1>1, <1>3 DEF Plain
  <2>. QED
    BY <1>1, <1>2, <1>3, <2>1 DEF Good, e
<1>4. ASSUME NEW k \in 1..m, d["marker"] = Marker(k), Marked(d, k, t[k], s[k])
      PROVE  Good(e, t, s, m)
  <2>1. Recorded(k, t[k])
    BY <1>4 DEF Marked
  <2>2. Marked(e, k, t[k], s[k])
    BY <1>1, <1>4, <2>1 DEF Marked, Sides, Recorded
  <2>. QED
    BY <1>1, <1>2, <1>4, <2>2 DEF Good
<1>. QED
  BY <1>3, <1>4 DEF Good, e

\* Once the marker is durable farm.db and the retained original may move between its sides.
LEMMA GoodSide ==
    ASSUME NEW d \in [Name -> File], NEW t, NEW s, NEW m, Good(d, t, s, m),
           NEW x \in {"live", "old"}, NEW f \in File, NEW k \in Attempt,
           d["marker"] = Marker(k), s[k] = "synced", Sides(Put(d, x, f), k, t[k]),
           t[k].backup \in Backup
    PROVE  Good(Put(d, x, f), t, s, m)
<1>. DEFINE e == Put(d, x, f)
<1>1. e["marker"] = d["marker"] /\ \A y \in Backup : e[y] = d[y]
  BY PutName, NameMembers
<1>2. Sides(e, k, t[k])
  OBVIOUS
<1>. HIDE DEF e
<1>3. k \in 1..m /\ Marked(d, k, t[k], s[k])
  BY Files DEF Good
<1>4. Marked(e, k, t[k], s[k])
  BY <1>1, <1>2, <1>3 DEF Marked
<1>. QED
  BY <1>1, <1>3, <1>4 DEF Good, Names, e

\* The marker may go once only farm.db is left of its transaction.
LEMMA GoodUnmarked ==
    ASSUME NEW d \in [Name -> File], NEW t, NEW s, NEW m \in Nat, Good(d, t, s, m),
           NEW k \in Attempt, d["marker"] = Marker(k), Recorded(k, t[k]),
           d["old"] = None, d["live"] = Db(k) => d[t[k].backup] = None
    PROVE  Good(Put(d, "marker", None), t, s, m)
<1>. DEFINE e == Put(d, "marker", None)
<1>1. /\ e["marker"] = None /\ e["old"] = d["old"] /\ e["live"] = d["live"]
      /\ \A y \in Backup : e[y] = d[y]
  BY PutName, NameMembers, Members
<1>. HIDE DEF e
<1>2. k \in 1..m /\ Marked(d, k, t[k], s[k])
  BY Files DEF Good
<1>3. Names(d, t, m)
  BY DEF Good
<1>4. CASE d["live"] = Db(k)
  <2>1. \A x \in Backup : d[x] # Db(k)
    <3>. SUFFICES ASSUME NEW x \in Backup, d[x] = Db(k) PROVE FALSE
      OBVIOUS
    <3>1. t[k].backup = x
      BY <1>3, Files DEF Names
    <3>. QED
      BY <1>4, <3>1, Files
  <2>. QED
    BY <1>1, <1>2, <1>3, <1>4, <2>1 DEF Good, Plain, Names, e
<1>5. CASE d["live"] = t[k].original
  <2>1. t[k].original = None \/ \E j \in 0..m : t[k].original = Db(j)
    BY <1>2 DEF Recorded
  <2>2. \A x \in Backup : d["live"] # None => d[x] # d["live"]
    BY <1>2, <1>5 DEF Marked, Recorded
  <2>. QED
    BY <1>1, <1>3, <1>5, <2>1, <2>2 DEF Good, Plain, Names, e
<1>6. CASE t[k].hadLive /\ d["live"] = None /\ d["old"] = t[k].original
  BY <1>6 DEF Recorded
<1>. QED
  BY <1>2, <1>4, <1>5, <1>6 DEF Marked, Sides

-----------------------------------------------------------------------------
(***************************************************************************)
(* The inductive invariant.                                                *)
(***************************************************************************)
AttemptInv == \A k \in Attempt : text[k] # "none" => k <= n /\ Recorded(k, tx[k])

AllGood == \A im \in images : Good(im, tx, text, n)

\* Every power loss would lead to the same database, except while the restored name is
\* linked and not yet synced: by installExactRestore or, after a crash, in recovery.
Settled == \A im \in images : Version(im) = Version(dir)
Exposed == \E k \in Attempt : dir["marker"] = Marker(k) /\ dir["live"] = Db(k)
Open == {"linked", "off", "recover", "refused", "r.sync"}
Recoverable == AllGood /\ (Settled \/ (pc \in Open /\ Exposed))

\* What installExactRestore knows of the directory at each of its steps.
InstallInv ==
    LET o == tx[n].original
    IN  /\ pc = "bound" =>
              dir["marker"] = None /\ dir[tx[n].backup] = Db(n) /\ text[n] = "none"
        /\ pc \in Busy \ {"bound", "finish"} => dir["marker"] = Marker(n)
        /\ pc \in Busy \ {"bound", "created", "written", "finish"} => text[n] = "synced"
        /\ pc = "created" => text[n] = "empty"
        /\ pc \in {"created", "written", "marked", "retain"} => dir["live"] = o /\ dir["old"] = None
        /\ pc \in {"retain", "retained", "release", "released"} => tx[n].hadLive
        /\ pc \in {"retained", "release"} => dir["live"] = o /\ dir["old"] = o
        /\ pc \in {"released", "link"} => dir["live"] = None /\ dir["old"] = o
        /\ pc \in {"linked", "unbind", "unretain"} => dir["live"] = Db(n) /\ dir["old"] = o
        /\ pc \in {"unretain", "unmark"} => dir[tx[n].backup] = None
        /\ pc = "unmark" => dir["live"] = Db(n) /\ dir["old"] = None

\* What recovery knows when it finishes the transaction of attempt k.
RecoveryInv(k) ==
    LET o == tx[k].original
        val == dir[tx[k].backup]
    IN  /\ text[k] \in {"written", "synced"}
        /\ pc \in {"r.sync", "r.val", "r.old", "r.clean"} => dir["live"] = Db(k)
        /\ pc \in {"r.old", "r.clean"} => val = None
        /\ pc \in {"r.clean", "o.val", "o.check", "clear"} => dir["old"] = None
        /\ pc \in {"p.link", "p.sync", "o.old"} => tx[k].hadLive
        /\ pc = "p.link" => dir["live"] = None /\ dir["old"] = o
        /\ pc = "p.sync" => dir["live"] = o /\ dir["old"] = o
        /\ pc \in {"o.old", "o.val", "o.check"} => dir["live"] = o
        /\ pc = "clear" => dir["live"] = o \/ (dir["live"] = Db(k) /\ val = None)

Known ==
    /\ InstallInv
    /\ pc \in Recovering \ {"clear.sync"} =>
          \E k \in Attempt : dir["marker"] = Marker(k) /\ RecoveryInv(k)
    /\ pc = "refused" => \E k \in Attempt : dir["marker"] = Marker(k) /\ text[k] = "empty"
    /\ pc \in {"ready", "done", "serving", "clear.sync", "finish"} => dir["marker"] = None
    /\ pc \in {"ready", "done", "serving"} => ack = dir["live"]
    /\ pc \in {"done", "serving"} => images = {dir}

IInv == TypeInv /\ AttemptInv /\ Recoverable /\ Known

\* What the invariant says of the directory that processes see.
LEMMA Here ==
    ASSUME IInv
    PROVE  /\ Good(dir, tx, text, n) /\ Names(dir, tx, n)
           /\ dir["marker"] = None => Plain(dir, n) /\ Settled
           /\ dir["marker"] # None => \E k \in Attempt : dir["marker"] = Marker(k)
           /\ \A k \in Attempt : dir["marker"] = Marker(k) =>
                 /\ k \in 1..n /\ Marked(dir, k, tx[k], text[k]) /\ Recorded(k, tx[k])
                 /\ tx[k].original # Db(k) /\ tx[k].backup \in Backup
                 /\ dir["live"] # Db(k) => Settled
<1>1. Good(dir, tx, text, n) /\ dir \in [Name -> File] /\ n \in 0..MaxRestores
  BY DEF IInv, Recoverable, AllGood, TypeInv, TypeOK
<1>2. 1..n \subseteq Attempt
  BY <1>1, RestoreAssumption DEF Attempt
<1>3. dir["marker"] = None => Plain(dir, n) /\ Settled
  BY <1>1, Files DEF Good, IInv, Recoverable, Exposed
<1>4. dir["marker"] # None => \E k \in Attempt : dir["marker"] = Marker(k)
  BY <1>1, <1>2 DEF Good
<1>5. ASSUME NEW k \in Attempt, dir["marker"] = Marker(k)
      PROVE  /\ k \in 1..n /\ Marked(dir, k, tx[k], text[k]) /\ Recorded(k, tx[k])
             /\ tx[k].original # Db(k) /\ tx[k].backup \in Backup
             /\ dir["live"] # Db(k) => Settled
  <2>1. k \in 1..n /\ Marked(dir, k, tx[k], text[k])
    BY <1>1, <1>5, Files DEF Good
  <2>2. Recorded(k, tx[k])
    BY <2>1 DEF Marked, IInv, AttemptInv
  <2>3. tx[k].original # Db(k)
    <3>1. CASE tx[k].hadLive
      <4>1. PICK j \in 0..(k - 1) : tx[k].original = Db(j)
        BY <2>2, <3>1 DEF Recorded
      <4>2. j # k
        BY DEF Attempt
      <4>. QED
        BY <4>1, <4>2, Files
    <3>2. CASE ~tx[k].hadLive
      BY <2>2, <3>2, Files DEF Recorded
    <3>. QED
      BY <3>1, <3>2
  <2>4. dir["live"] # Db(k) => Settled
    BY <1>5, Files DEF IInv, Recoverable, Exposed
  <2>. QED
    BY <2>1, <2>2, <2>3, <2>4 DEF Recorded
<1>. QED
  BY <1>1, <1>3, <1>4, <1>5 DEF Good

-----------------------------------------------------------------------------
(***************************************************************************)
(* What each shape of step does to the directories a power loss may leave. *)
(***************************************************************************)
Moves == UNCHANGED <<text, tx, n>>

\* The database that a start finds depends on farm.db and the retained original only.
LEMMA VersionKept ==
    ASSUME NEW d, NEW e, e["live"] = d["live"], e["old"] = d["old"] \/ d["live"] # None
    PROVE  Version(e) = Version(d)
BY DEF Version, Recovered

\* The attempts keep what they recorded.
LEMMA AttemptsKept == ASSUME AttemptInv, Moves PROVE AttemptInv'
BY DEF AttemptInv, Moves

\* Nothing new may be left behind.
LEMMA QuietStep ==
    ASSUME AllGood, UNCHANGED <<dir, images>>, Moves
    PROVE  AllGood' /\ (Settled => Settled') /\ (Exposed => Exposed')
BY DEF AllGood, Settled, Exposed, Moves

\* A sync leaves one directory only, which recovery can finish if it could before.
LEMMA SyncStep ==
    ASSUME AllGood, dir \in images, Sync, Moves
    PROVE  AllGood' /\ Settled'
BY DEF AllGood, Settled, Sync, Moves

\* One entry changes, in order with the earlier changes.
LEMMA EntryStep ==
    ASSUME Ordered, AllGood, NEW x, NEW f, Entry(x, f), Good(Put(dir, x, f), tx, text, n), Moves,
           Settled => Version(Put(dir, x, f)) = Version(dir)
    PROVE  AllGood' /\ (Settled => Settled')
<1>1. dir' = Put(dir, x, f) /\ images' = images \cup {dir'}
  BY DEF Entry
<1>2. tx' = tx /\ text' = text /\ n' = n
  BY DEF Moves
<1>3. AllGood'
  BY <1>1, <1>2 DEF AllGood
<1>4. Settled => Settled'
  BY <1>1 DEF Settled
<1>. QED
  BY <1>3, <1>4

\* A validation name is removed, or it was gone.
LEMMA UnbindStep ==
    ASSUME Ordered, IInv, NEW c, NEW b \in Backup, EntryIf(c, b, None), Moves
    PROVE  /\ AllGood' /\ (Settled => Settled') /\ (Exposed => Exposed')
           /\ dir'["live"] = dir["live"] /\ dir'["old"] = dir["old"]
           /\ dir'["marker"] = dir["marker"]
           /\ dir'[b] = dir[b] \/ dir'[b] = None
           /\ c => dir'[b] = None
<1>1. AllGood /\ dir \in [Name -> File] /\ Good(dir, tx, text, n)
  BY Here DEF IInv, Recoverable, TypeInv, TypeOK
<1>2. CASE c
  <2>1. Entry(b, None)
    BY <1>2 DEF EntryIf
  <2>. DEFINE e == Put(dir, b, None)
  <2>2. /\ e["live"] = dir["live"] /\ e["old"] = dir["old"] /\ e["marker"] = dir["marker"]
        /\ e[b] = None
    BY <1>1, PutName, NameMembers, Members
  <2>3. \A k \in 1..n : text[k] # "none" => Recorded(k, tx[k])
    BY RestoreAssumption DEF IInv, AttemptInv, TypeInv, TypeOK, Attempt
  <2>4. Good(e, tx, text, n)
    BY <1>1, <2>3, GoodWithout
  <2>5. dir' = e
    BY <2>1 DEF Entry
  <2>. HIDE DEF e
  <2>6. Version(e) = Version(dir)
    BY <2>2, VersionKept
  <2>7. AllGood' /\ (Settled => Settled')
    BY <1>1, <2>1, <2>4, <2>6, EntryStep DEF e
  <2>8. Exposed => Exposed'
    BY <2>2, <2>5 DEF Exposed
  <2>. QED
    BY <2>2, <2>5, <2>7, <2>8
<1>3. CASE ~c
  <2>1. UNCHANGED <<dir, images>>
    BY <1>3 DEF EntryIf
  <2>. QED
    BY <1>1, <1>3, <2>1, QuietStep
<1>. QED
  BY <1>2, <1>3

\* farm.db or the retained original moves between the sides of a durable marker.
LEMMA SideStep ==
    ASSUME Ordered, IInv, NEW x \in {"live", "old"}, NEW f \in File, Entry(x, f), Moves,
           NEW k \in Attempt, dir["marker"] = Marker(k), text[k] = "synced",
           Sides(Put(dir, x, f), k, tx[k])
    PROVE  /\ AllGood' /\ dir'["marker"] = dir["marker"] /\ dir'[x] = f
           /\ \A y \in Name : y # x => dir'[y] = dir[y]
           /\ Settled /\ Version(Put(dir, x, f)) = Version(dir) => Settled'
<1>1. AllGood /\ dir \in [Name -> File] /\ Good(dir, tx, text, n) /\ tx[k].backup \in Backup
  BY Here DEF IInv, Recoverable, TypeInv, TypeOK
<1>2. Good(Put(dir, x, f), tx, text, n)
  BY <1>1, GoodSide
<1>3. dir' = Put(dir, x, f) /\ images' = images \cup {dir'} /\ tx' = tx /\ text' = text /\ n' = n
  BY DEF Entry, Moves
<1>4. AllGood'
  BY <1>1, <1>2, <1>3 DEF AllGood
<1>5. Settled /\ Version(Put(dir, x, f)) = Version(dir) => Settled'
  BY <1>3 DEF Settled
<1>. QED
  BY <1>1, <1>3, <1>4, <1>5, PutName, NameMembers

-----------------------------------------------------------------------------
(***************************************************************************)
(* How often a file is linked.                                             *)
(***************************************************************************)
\* One name links f.
LEMMA LinkedOnce ==
    ASSUME NEW f, NEW x \in Name, dir[x] = f, \A y \in Name : dir[y] = f => y = x
    PROVE  Links(f) = 1
<1>1. {y \in Name : dir[y] = f} = {x}
  OBVIOUS
<1>. QED
  BY <1>1, FS_Singleton DEF Links

\* Two names link f.
LEMMA LinkedTwice ==
    ASSUME NEW f, NEW x \in Name, NEW z \in Name, x # z, dir[x] = f, dir[z] = f,
           \A y \in Name : dir[y] = f => y = x \/ y = z
    PROVE  Links(f) = 2
<1>1. {y \in Name : dir[y] = f} = {x} \cup {z}
  OBVIOUS
<1>2. IsFiniteSet({x}) /\ Cardinality({x}) = 1
  BY FS_Singleton
<1>3. Cardinality({x} \cup {z}) = 2
  BY <1>2, FS_AddElement
<1>. QED
  BY <1>1, <1>3 DEF Links

\* Under the marker of attempt k, its restored database is linked by farm.db and the
\* validation name at most, its original by farm.db and the retained name at most.
LEMMA WhoLinks ==
    ASSUME IInv, NEW k \in Attempt, dir["marker"] = Marker(k)
    PROVE  /\ \A y \in Name : dir[y] = Db(k) => y = "live" \/ y = tx[k].backup
           /\ tx[k].hadLive =>
                 \A y \in Name : dir[y] = tx[k].original => y = "live" \/ y = "old"
<1>1. /\ Names(dir, tx, n) /\ Marked(dir, k, tx[k], text[k]) /\ Recorded(k, tx[k])
      /\ tx[k].original # Db(k) /\ tx[k].backup \in Backup
  BY Here
<1>2. dir["old"] # Db(k)
  BY <1>1, Files DEF Marked, Sides
<1>3. \A x \in Backup : dir[x] = Db(k) => x = tx[k].backup
  BY <1>1, Files DEF Names
<1>4. tx[k].hadLive => dir["marker"] # tx[k].original
  BY <1>1, Files DEF Recorded
<1>5. \A x \in Backup : tx[k].hadLive => dir[x] # tx[k].original
  BY <1>1 DEF Marked
<1>. QED
  BY <1>2, <1>3, <1>4, <1>5, Files, NameMembers

-----------------------------------------------------------------------------
(***************************************************************************)
(* What the process knows after a step to recovery, or to the installation.*)
(***************************************************************************)
\* To a step of recovery.
LEMMA ToRecovery ==
    ASSUME NEW k \in Attempt, dir'["marker"] = Marker(k), RecoveryInv(k)',
           pc' \in Recovering \ {"clear.sync"}
    PROVE  Known'
BY DEF Known, InstallInv, Recovering, Busy, Installing

\* To a step of the installation.
LEMMA ToInstall ==
    ASSUME pc' \in Busy, InstallInv', pc' = "finish" => dir'["marker"] = None
    PROVE  Known'
BY DEF Known, Recovering, Busy, Installing

\* To the end of the process, or to the next start.
LEMMA ToOff == ASSUME pc' \in {"off", "recover"} PROVE Known'
BY DEF Known, InstallInv, Recovering, Busy, Installing

\* A step from a place where no power loss would lead elsewhere.
LEMMA Closed ==
    ASSUME IInv, pc \notin Open
    PROVE  Settled
BY DEF IInv, Recoverable

-----------------------------------------------------------------------------
(***************************************************************************)
(* Recovery keeps the invariant.                                           *)
(***************************************************************************)

\* Recovery begins with the directory as it is, or accepts it as it is.
LEMMA KeepsStart == ASSUME IInv, TypeInv', Start PROVE IInv'
<1>1. Moves /\ UNCHANGED <<dir, images>> /\ pc = "off" /\ pc' = "recover"
  BY DEF Start, Moves
<1>2. Recoverable'
  BY <1>1, QuietStep DEF IInv, Recoverable, Open
<1>. QED
  BY <1>1, <1>2, AttemptsKept, ToOff DEF IInv

\* Accept keeps the invariant.
LEMMA KeepsAccept == ASSUME IInv, TypeInv', Accept PROVE IInv'
<1>1. /\ Moves /\ UNCHANGED <<dir, images>> /\ pc' = "ready" /\ ack' = dir["live"]
      /\ dir["marker"] = None
  BY DEF Accept, Acknowledge, Moves
<1>2. Settled
  BY <1>1, Here
<1>3. Recoverable'
  BY <1>1, <1>2, QuietStep DEF IInv, Recoverable
<1>4. Known'
  BY <1>1 DEF Known, InstallInv, Recovering, Busy, Installing
<1>. QED
  BY <1>1, <1>3, <1>4, AttemptsKept DEF IInv

\* The attempt whose marker recovery reads.
LEMMA Reading ==
    ASSUME IInv, pc = "transaction" \/ (pc = "recover" /\ MarkerReadable)
    PROVE  \E k \in Attempt : /\ dir["marker"] = Marker(k) /\ text[k] \in {"written", "synced"}
                              /\ Current = k /\ T = tx[k] /\ Restored = Db(k)
                              /\ Val = dir[tx[k].backup]
<1>1. CASE pc = "transaction"
  <2>1. PICK k \in Attempt : dir["marker"] = Marker(k) /\ RecoveryInv(k)
    BY <1>1 DEF IInv, Known, Recovering
  <2>2. text[k] \in {"written", "synced"}
    BY <2>1 DEF RecoveryInv
  <2>. QED
    BY <2>1, <2>2, CurrentIs
<1>2. CASE pc = "recover" /\ MarkerReadable
  <2>1. PICK k \in Attempt : dir["marker"] = Marker(k)
    BY <1>2, Here DEF MarkerReadable
  <2>. QED
    BY <1>2, <2>1, CurrentIs DEF MarkerReadable
<1>. QED
  BY <1>1, <1>2

\* ReadTransaction keeps it: each side of a transaction is where recovery goes on from.
LEMMA KeepsReadTransaction == ASSUME IInv, TypeInv', ReadTransaction PROVE IInv'
<1>1. PICK k \in Attempt : /\ dir["marker"] = Marker(k) /\ text[k] \in {"written", "synced"}
                           /\ Current = k /\ T = tx[k] /\ Restored = Db(k)
                           /\ Val = dir[tx[k].backup]
  BY Reading DEF ReadTransaction
<1>2. UNCHANGED <<dir, images>>
  BY DEF ReadTransaction
<1>3. /\ Marked(dir, k, tx[k], text[k]) /\ Recorded(k, tx[k])
      /\ tx[k].original # Db(k) /\ (dir["live"] # Db(k) => Settled)
  BY <1>1, Here
<1>4. CASE IsRestored /\ Goto("r.sync")
  <2>1. Moves /\ pc' = "r.sync" /\ dir["live"] = Db(k)
    BY <1>1, <1>4 DEF Goto, Moves, IsRestored
  <2>2. Recoverable'
    BY <1>1, <1>2, <2>1, QuietStep DEF IInv, Recoverable, Open, Exposed
  <2>3. RecoveryInv(k)'
    BY <1>1, <1>2, <2>1 DEF RecoveryInv, Moves
  <2>4. Known'
    BY <1>1, <1>2, <2>1, <2>3, ToRecovery DEF Recovering
  <2>. QED
    BY <2>1, <2>2, <2>4, AttemptsKept DEF IInv
<1>5. CASE IsOriginal /\ Goto("o.old")
  <2>1. Moves /\ pc' = "o.old" /\ tx[k].hadLive /\ dir["live"] = tx[k].original
    BY <1>1, <1>5 DEF Goto, Moves, IsOriginal
  <2>2. Recoverable'
    BY <1>2, <1>3, <2>1, QuietStep DEF IInv, Recoverable
  <2>3. RecoveryInv(k)'
    BY <1>1, <1>2, <2>1 DEF RecoveryInv, Moves
  <2>4. Known'
    BY <1>1, <1>2, <2>1, <2>3, ToRecovery DEF Recovering
  <2>. QED
    BY <2>1, <2>2, <2>4, AttemptsKept DEF IInv
<1>6. CASE NoLive /\ ~T.hadLive /\ dir["old"] = None /\ Goto("o.val")
  <2>1. /\ Moves /\ pc' = "o.val" /\ dir["live"] = None /\ dir["old"] = None
        /\ tx[k].original = None
    BY <1>1, <1>3, <1>6 DEF Goto, Moves, NoLive, Recorded
  <2>2. Recoverable'
    BY <1>2, <1>3, <2>1, Files, QuietStep DEF IInv, Recoverable
  <2>3. RecoveryInv(k)'
    BY <1>1, <1>2, <2>1 DEF RecoveryInv, Moves
  <2>4. Known'
    BY <1>1, <1>2, <2>1, <2>3, ToRecovery DEF Recovering
  <2>. QED
    BY <2>1, <2>2, <2>4, AttemptsKept DEF IInv
<1>7. CASE NoLive /\ OldHas(1) /\ Goto("p.link")
  <2>1. /\ Moves /\ pc' = "p.link" /\ tx[k].hadLive
        /\ dir["live"] = None /\ dir["old"] = tx[k].original
    BY <1>1, <1>7 DEF Goto, Moves, NoLive, OldHas
  <2>2. Recoverable'
    BY <1>2, <1>3, <2>1, Files, QuietStep DEF IInv, Recoverable
  <2>3. RecoveryInv(k)'
    BY <1>1, <1>2, <2>1 DEF RecoveryInv, Moves
  <2>4. Known'
    BY <1>1, <1>2, <2>1, <2>3, ToRecovery DEF Recovering
  <2>. QED
    BY <2>1, <2>2, <2>4, AttemptsKept DEF IInv
<1>. QED
  BY <1>4, <1>5, <1>6, <1>7 DEF ReadTransaction

\* The attempt that recovery is finishing.
LEMMA InRecovery ==
    ASSUME IInv, pc \in Recovering \ {"clear.sync"}
    PROVE  \E k \in Attempt :
              /\ dir["marker"] = Marker(k) /\ RecoveryInv(k)
              /\ Current = k /\ T = tx[k] /\ Restored = Db(k) /\ Val = dir[tx[k].backup]
              /\ Marked(dir, k, tx[k], text[k]) /\ Recorded(k, tx[k])
              /\ tx[k].original # Db(k) /\ tx[k].backup \in Backup
<1>1. PICK k \in Attempt : dir["marker"] = Marker(k) /\ RecoveryInv(k)
  BY DEF IInv, Known
<1>. QED
  BY <1>1, CurrentIs, Here

\* The restored name is made durable, then the other names and the marker go.
LEMMA KeepsRecoverRestored ==
    ASSUME IInv, TypeInv', RecoverRestored, Ordered PROVE IInv'
<1>0. pc \in {"r.sync", "r.val", "r.old", "r.clean"}
  BY DEF RecoverRestored, Step
<1>1. PICK k \in Attempt :
              /\ dir["marker"] = Marker(k) /\ RecoveryInv(k)
              /\ Current = k /\ T = tx[k] /\ Restored = Db(k) /\ Val = dir[tx[k].backup]
              /\ Marked(dir, k, tx[k], text[k]) /\ Recorded(k, tx[k])
              /\ tx[k].original # Db(k) /\ tx[k].backup \in Backup
  BY <1>0, InRecovery DEF Recovering
<1>2. dir["live"] = Db(k) /\ text[k] \in {"written", "synced"}
  BY <1>0, <1>1 DEF RecoveryInv
<1>3. AllGood /\ dir \in images /\ dir \in [Name -> File] /\ Known
  BY DEF IInv, Recoverable, TypeInv, TypeOK
<1>4. CASE Step("r.sync", "r.val") /\ Sync
  <2>1. Moves /\ pc' = "r.val" /\ dir' = dir
    BY <1>4 DEF Step, Goto, Moves, Sync
  <2>2. Recoverable'
    BY <1>3, <1>4, <2>1, SyncStep DEF Recoverable
  <2>3. RecoveryInv(k)'
    BY <1>2, <2>1 DEF RecoveryInv, Moves
  <2>4. Known'
    BY <1>1, <2>1, <2>3, ToRecovery DEF Recovering
  <2>. QED
    BY <2>1, <2>2, <2>4, AttemptsKept DEF IInv
<1>5. CASE Step("r.val", "r.old") /\ EntryIf(Val = Restored, T.backup, None)
  <2>1. Moves /\ pc' = "r.old" /\ pc = "r.val"
    BY <1>5 DEF Step, Goto, Moves
  <2>2. EntryIf(Val = Restored, tx[k].backup, None)
    BY <1>1, <1>5
  <2>3. /\ AllGood' /\ (Settled => Settled') /\ dir'["live"] = dir["live"]
        /\ dir'["marker"] = dir["marker"]
        /\ dir'[tx[k].backup] = dir[tx[k].backup] \/ dir'[tx[k].backup] = None
        /\ Val = Restored => dir'[tx[k].backup] = None
    BY <1>1, <2>1, <2>2, UnbindStep
  <2>4. dir'[tx[k].backup] = None
    BY <1>1, <2>3 DEF Marked
  <2>5. Recoverable'
    BY <2>1, <2>3, Closed DEF Recoverable, Open
  <2>6. RecoveryInv(k)'
    BY <1>2, <2>1, <2>3, <2>4 DEF RecoveryInv, Moves
  <2>7. Known'
    BY <1>1, <2>1, <2>3, <2>6, ToRecovery DEF Recovering
  <2>. QED
    BY <2>1, <2>5, <2>7, AttemptsKept DEF IInv
<1>6. CASE Step("r.old", "r.clean") /\ EntryIf(dir["old"] # None, "old", None)
  <2>1. Moves /\ pc' = "r.clean" /\ pc = "r.old"
    BY <1>6 DEF Step, Goto, Moves
  <2>2. /\ AllGood' /\ Settled' /\ dir'["live"] = Db(k) /\ dir'["old"] = None
        /\ dir'["marker"] = Marker(k) /\ dir'[tx[k].backup] = dir[tx[k].backup]
    <3>1. Settled
      BY <2>1, Closed DEF Open
    <3>2. CASE dir["old"] = None
      <4>1. UNCHANGED <<dir, images>>
        BY <1>6, <3>2 DEF EntryIf
      <4>. QED
        BY <1>1, <1>2, <1>3, <2>1, <3>1, <3>2, <4>1, QuietStep
    <3>3. CASE dir["old"] # None
      <4>1. Entry("old", None) /\ text[k] = "synced"
        BY <1>1, <1>6, <3>3 DEF EntryIf, Marked
      <4>. DEFINE e == Put(dir, "old", None)
      <4>2. e["live"] = Db(k) /\ e["old"] = None
        BY <1>2, <1>3, PutName, NameMembers, Members
      <4>. HIDE DEF e
      <4>3. Sides(e, k, tx[k])
        BY <4>2 DEF Sides
      <4>4. Version(e) = Version(dir)
        BY <1>2, <4>2, Files, VersionKept
      <4>5. /\ AllGood' /\ dir'["marker"] = dir["marker"] /\ dir'["old"] = None /\ Settled'
            /\ \A y \in Name : y # "old" => dir'[y] = dir[y]
        BY <1>1, <2>1, <3>1, <4>1, <4>3, <4>4, SideStep, Members DEF e
      <4>. QED
        BY <1>1, <1>2, <4>5, NameMembers
    <3>. QED
      BY <3>2, <3>3
  <2>3. Recoverable'
    BY <2>2 DEF Recoverable
  <2>4. RecoveryInv(k)'
    BY <1>1, <1>2, <2>1, <2>2 DEF RecoveryInv, Moves
  <2>5. Known'
    BY <2>1, <2>2, <2>4, ToRecovery DEF Recovering
  <2>. QED
    BY <2>1, <2>3, <2>5, AttemptsKept DEF IInv
<1>7. CASE Step("r.clean", "clear") /\ Sync
  <2>1. Moves /\ pc' = "clear" /\ pc = "r.clean" /\ dir' = dir
    BY <1>7 DEF Step, Goto, Moves, Sync
  <2>2. Recoverable'
    BY <1>3, <1>7, <2>1, SyncStep DEF Recoverable
  <2>3. RecoveryInv(k)'
    BY <1>1, <1>2, <2>1 DEF RecoveryInv, Moves
  <2>4. Known'
    BY <1>1, <2>1, <2>3, ToRecovery DEF Recovering
  <2>. QED
    BY <2>1, <2>2, <2>4, AttemptsKept DEF IInv
<1>. QED
  BY <1>4, <1>5, <1>6, <1>7 DEF RecoverRestored

\* The original is linked again and made durable, then the other names go.
LEMMA KeepsRecoverOriginal ==
    ASSUME IInv, TypeInv', RecoverOriginal, Ordered PROVE IInv'
<1>0. pc \in {"p.link", "p.sync", "o.old", "o.val", "o.check"}
  BY DEF RecoverOriginal, Step
<1>1. PICK k \in Attempt :
              /\ dir["marker"] = Marker(k) /\ RecoveryInv(k)
              /\ Current = k /\ T = tx[k] /\ Restored = Db(k) /\ Val = dir[tx[k].backup]
              /\ Marked(dir, k, tx[k], text[k]) /\ Recorded(k, tx[k])
              /\ tx[k].original # Db(k) /\ tx[k].backup \in Backup
  BY <1>0, InRecovery DEF Recovering
<1>2. /\ text[k] \in {"written", "synced"} /\ (tx[k].hadLive => tx[k].original # None)
      /\ pc \in {"p.link", "p.sync", "o.old"} => tx[k].hadLive
  BY <1>1 DEF RecoveryInv, Recorded
<1>3. /\ AllGood /\ dir \in images /\ dir \in [Name -> File] /\ Known /\ Settled
      /\ dir["old"] \in File
  BY <1>0, Closed, NameMembers DEF IInv, Recoverable, TypeInv, TypeOK, Open
<1>4. CASE Step("p.link", "p.sync") /\ Entry("live", dir["old"])
  <2>1. Moves /\ pc' = "p.sync" /\ pc = "p.link"
    BY <1>4 DEF Step, Goto, Moves
  <2>2. tx[k].hadLive /\ dir["live"] = None /\ dir["old"] = tx[k].original
    BY <1>1, <2>1 DEF RecoveryInv
  <2>3. text[k] = "synced"
    BY <1>1, <1>2, <2>2 DEF Marked
  <2>. DEFINE e == Put(dir, "live", dir["old"])
  <2>4. e["live"] = tx[k].original /\ e["old"] = tx[k].original
    BY <1>3, <2>2, PutName, NameMembers
  <2>. HIDE DEF e
  <2>5. Sides(e, k, tx[k])
    BY <2>4 DEF Sides
  <2>6. Version(e) = Version(dir)
    BY <1>2, <2>2, <2>4 DEF Version, Recovered
  <2>7. /\ AllGood' /\ Settled' /\ dir'["marker"] = dir["marker"] /\ dir'["live"] = dir["old"]
        /\ \A y \in Name : y # "live" => dir'[y] = dir[y]
    BY <1>1, <1>3, <1>4, <2>1, <2>3, <2>5, <2>6, SideStep DEF e
  <2>8. dir'["live"] = tx[k].original /\ dir'["old"] = tx[k].original
    BY <2>2, <2>7, NameMembers
  <2>9. RecoveryInv(k)'
    BY <1>2, <2>1, <2>2, <2>8 DEF RecoveryInv, Moves
  <2>10. Known'
    BY <1>1, <2>1, <2>7, <2>9, ToRecovery DEF Recovering
  <2>. QED
    BY <2>1, <2>7, <2>10, AttemptsKept DEF IInv, Recoverable
<1>5. CASE Step("p.sync", "o.old") /\ Sync
  <2>1. Moves /\ pc' = "o.old" /\ pc = "p.sync" /\ dir' = dir
    BY <1>5 DEF Step, Goto, Moves, Sync
  <2>2. Recoverable'
    BY <1>3, <1>5, <2>1, SyncStep DEF Recoverable
  <2>3. RecoveryInv(k)'
    BY <1>1, <2>1 DEF RecoveryInv, Moves
  <2>4. Known'
    BY <1>1, <2>1, <2>3, ToRecovery DEF Recovering
  <2>. QED
    BY <2>1, <2>2, <2>4, AttemptsKept DEF IInv
<1>6. CASE Step("o.old", "o.val") /\ EntryIf(dir["old"] # None, "old", None)
  <2>1. Moves /\ pc' = "o.val" /\ pc = "o.old"
    BY <1>6 DEF Step, Goto, Moves
  <2>2. tx[k].hadLive /\ dir["live"] = tx[k].original /\ dir["live"] # None
    BY <1>1, <1>2, <2>1 DEF RecoveryInv
  <2>3. /\ AllGood' /\ Settled' /\ dir'["live"] = tx[k].original /\ dir'["old"] = None
        /\ dir'["marker"] = Marker(k)
    <3>1. CASE dir["old"] = None
      <4>1. UNCHANGED <<dir, images>>
        BY <1>6, <3>1 DEF EntryIf
      <4>. QED
        BY <1>1, <1>3, <2>1, <2>2, <3>1, <4>1, QuietStep
    <3>2. CASE dir["old"] # None
      <4>1. Entry("old", None) /\ text[k] = "synced"
        BY <1>1, <1>6, <3>2 DEF EntryIf, Marked
      <4>. DEFINE e == Put(dir, "old", None)
      <4>2. e["live"] = dir["live"] /\ e["old"] = None
        BY <1>3, PutName, NameMembers, Members
      <4>. HIDE DEF e
      <4>3. Sides(e, k, tx[k])
        BY <2>2, <4>2 DEF Sides
      <4>4. Version(e) = Version(dir)
        BY <2>2, <4>2, VersionKept
      <4>5. /\ AllGood' /\ dir'["marker"] = dir["marker"] /\ dir'["old"] = None /\ Settled'
            /\ \A y \in Name : y # "old" => dir'[y] = dir[y]
        BY <1>1, <1>3, <2>1, <4>1, <4>3, <4>4, SideStep, Members DEF e
      <4>. QED
        BY <1>1, <2>2, <4>5, NameMembers
    <3>. QED
      BY <3>1, <3>2
  <2>4. RecoveryInv(k)'
    BY <1>2, <2>1, <2>3 DEF RecoveryInv, Moves
  <2>5. Known'
    BY <2>1, <2>3, <2>4, ToRecovery DEF Recovering
  <2>. QED
    BY <2>1, <2>3, <2>5, AttemptsKept DEF IInv, Recoverable
<1>7. CASE /\ Step("o.val", "o.check")
           /\ EntryIf(Val = Restored /\ Links(Restored) = 1, T.backup, None)
  <2>1. Moves /\ pc' = "o.check" /\ pc = "o.val"
    BY <1>7 DEF Step, Goto, Moves
  <2>2. EntryIf(Val = Restored /\ Links(Restored) = 1, tx[k].backup, None)
    BY <1>1, <1>7
  <2>3. /\ AllGood' /\ (Settled => Settled') /\ dir'["live"] = dir["live"]
        /\ dir'["marker"] = dir["marker"] /\ dir'["old"] = dir["old"]
    BY <1>1, <2>1, <2>2, UnbindStep
  <2>4. RecoveryInv(k)'
    BY <1>1, <2>1, <2>3 DEF RecoveryInv, Moves
  <2>5. Known'
    BY <1>1, <2>1, <2>3, <2>4, ToRecovery DEF Recovering
  <2>. QED
    BY <1>3, <2>1, <2>3, <2>5, AttemptsKept DEF IInv, Recoverable
<1>8. CASE Step("o.check", "clear") /\ UNCHANGED <<dir, images>>
  <2>1. Moves /\ pc' = "clear" /\ pc = "o.check" /\ dir' = dir
    BY <1>8 DEF Step, Goto, Moves
  <2>2. Recoverable'
    BY <1>3, <1>8, <2>1, QuietStep DEF Recoverable
  <2>3. RecoveryInv(k)'
    BY <1>1, <2>1 DEF RecoveryInv, Moves
  <2>4. Known'
    BY <1>1, <2>1, <2>3, ToRecovery DEF Recovering
  <2>. QED
    BY <2>1, <2>2, <2>4, AttemptsKept DEF IInv
<1>. QED
  BY <1>4, <1>5, <1>6, <1>7, <1>8 DEF RecoverOriginal

\* Of all its checks, recovery can only fail the one of an unwritten marker.
LEMMA OnlyUnwritten ==
    ASSUME IInv, Contradiction
    PROVE  pc = "recover" /\ \E k \in Attempt : dir["marker"] = Marker(k) /\ text[k] = "empty"
<1>1. \/ pc = "recover" /\ dir["marker"] = None
      \/ pc = "recover" /\ dir["marker"] # None /\ ~MarkerReadable
      \/ pc = "transaction" \/ (pc = "recover" /\ MarkerReadable)
      \/ pc \in {"r.val", "r.old", "r.clean", "o.old", "o.check"}
  BY DEF Contradiction
<1>2. CASE pc = "recover" /\ dir["marker"] = None
  <2>1. dir["old"] = None
    BY <1>2, Here DEF Plain
  <2>. QED
    BY <1>2, <2>1 DEF Contradiction, MarkerReadable
<1>3. CASE pc = "recover" /\ dir["marker"] # None /\ ~MarkerReadable
  <2>1. PICK k \in Attempt : dir["marker"] = Marker(k)
    BY <1>3, Here
  <2>2. Current = k /\ text[k] # "none"
    BY <2>1, CurrentIs, Here DEF Marked
  <2>3. text[k] \in {"none", "empty", "written", "synced"}
    BY DEF IInv, TypeInv, TypeOK
  <2>. QED
    BY <1>3, <2>1, <2>2, <2>3 DEF MarkerReadable
<1>4. CASE pc = "transaction" \/ (pc = "recover" /\ MarkerReadable)
  <2>1. PICK k \in Attempt : /\ dir["marker"] = Marker(k) /\ text[k] \in {"written", "synced"}
                             /\ Current = k /\ T = tx[k] /\ Restored = Db(k)
                             /\ Val = dir[tx[k].backup]
    BY <1>4, Reading
  <2>2. Sides(dir, k, tx[k]) /\ Recorded(k, tx[k]) /\ tx[k].original # Db(k)
    BY <2>1, Here DEF Marked
  <2>3. \/ NoLive /\ T.hadLive /\ ~OldHas(1)
        \/ NoLive /\ ~T.hadLive /\ dir["old"] # None
        \/ ~NoLive /\ ~IsRestored /\ ~IsOriginal
    BY <1>4 DEF Contradiction, MarkerReadable
  <2>4. CASE dir["live"] # None
    BY <2>1, <2>2, <2>3, <2>4 DEF Sides, NoLive, IsRestored, IsOriginal, Recorded
  <2>5. CASE dir["live"] = None /\ tx[k].hadLive
    <3>1. dir["old"] = tx[k].original
      BY <2>2, <2>5, Files DEF Sides, Recorded
    <3>2. Links(tx[k].original) = 1
      <4>1. \A y \in Name : dir[y] = tx[k].original => y = "old"
        BY <2>1, <2>2, <2>5, WhoLinks DEF Recorded
      <4>. QED
        BY <3>1, <4>1, LinkedOnce, NameMembers
    <3>. QED
      BY <2>1, <2>3, <2>5, <3>1, <3>2 DEF NoLive, OldHas
  <2>6. CASE dir["live"] = None /\ ~tx[k].hadLive
    BY <2>1, <2>2, <2>3, <2>6, Files DEF Sides, NoLive, Recorded
  <2>. QED
    BY <2>4, <2>5, <2>6
<1>5. CASE pc \in {"r.val", "r.old", "r.clean", "o.old", "o.check"}
  <2>1. PICK k \in Attempt :
              /\ dir["marker"] = Marker(k) /\ RecoveryInv(k)
              /\ Current = k /\ T = tx[k] /\ Restored = Db(k) /\ Val = dir[tx[k].backup]
              /\ Marked(dir, k, tx[k], text[k]) /\ Recorded(k, tx[k])
              /\ tx[k].original # Db(k) /\ tx[k].backup \in Backup
    BY <1>5, InRecovery DEF Recovering
  <2>2. /\ \A y \in Name : dir[y] = Db(k) => y = "live" \/ y = tx[k].backup
        /\ tx[k].hadLive => \A y \in Name : dir[y] = tx[k].original => y = "live" \/ y = "old"
    BY <2>1, WhoLinks
  <2>3. tx[k].original # None => tx[k].hadLive
    BY <2>1 DEF Recorded
  <2>4. dir["old"] \in {None, tx[k].original}
    BY <2>1 DEF Marked, Sides
  <2>5. tx[k].backup \in Name /\ tx[k].backup # "live"
    BY <2>1, NameMembers
  <2>6. CASE pc = "r.val"
    <3>1. dir["live"] = Db(k) /\ Val # None /\ Links(Db(k)) # 2
      BY <2>1, <2>6 DEF Contradiction, RecoveryInv
    <3>2. dir[tx[k].backup] = Db(k)
      BY <2>1, <3>1 DEF Marked
    <3>3. Links(Db(k)) = 2
      BY <2>2, <2>5, <3>1, <3>2, LinkedTwice, NameMembers
    <3>. QED
      BY <3>1, <3>3
  <2>7. CASE pc = "r.old"
    <3>1. dir["live"] = Db(k) /\ dir["old"] # None /\ ~OldHas(1)
      BY <2>1, <2>7 DEF Contradiction, RecoveryInv
    <3>2. dir["old"] = tx[k].original /\ tx[k].hadLive
      BY <2>3, <2>4, <3>1
    <3>3. Links(tx[k].original) = 1
      BY <2>1, <2>2, <3>1, <3>2, LinkedOnce, NameMembers
    <3>. QED
      BY <2>1, <3>1, <3>2, <3>3 DEF OldHas
  <2>8. CASE pc = "r.clean"
    <3>1. dir["live"] = Db(k) /\ dir[tx[k].backup] = None /\ Links(Db(k)) # 1
      BY <2>1, <2>8 DEF Contradiction, RecoveryInv
    <3>2. \A y \in Name : dir[y] = Db(k) => y = "live"
      BY <2>2, <3>1, Files
    <3>. QED
      BY <3>1, <3>2, LinkedOnce, NameMembers
  <2>9. CASE pc = "o.old"
    <3>1. /\ dir["live"] = tx[k].original /\ tx[k].hadLive
          /\ ~OldHas(2) /\ ~(dir["old"] = None /\ Links(tx[k].original) = 1)
      BY <2>1, <2>9 DEF Contradiction, RecoveryInv
    <3>2. tx[k].original # None
      BY <2>1, <3>1 DEF Recorded
    <3>3. CASE dir["old"] = None
      <4>1. Links(tx[k].original) = 1
        BY <2>2, <3>1, <3>2, <3>3, LinkedOnce, NameMembers
      <4>. QED
        BY <3>1, <3>3, <4>1
    <3>4. CASE dir["old"] = tx[k].original
      <4>1. "live" \in Name /\ "old" \in Name /\ "live" # "old"
        BY NameMembers
      <4>2. \A y \in Name : dir[y] = tx[k].original => y = "live" \/ y = "old"
        BY <2>2, <3>1
      <4>3. dir["live"] = tx[k].original /\ dir["old"] = tx[k].original
        BY <3>1, <3>4
      <4>4. Links(tx[k].original) = 2
        BY <4>1, <4>2, <4>3, LinkedTwice
      <4>. QED
        BY <2>1, <3>1, <3>4, <4>4 DEF OldHas
    <3>. QED
      BY <2>4, <3>3, <3>4
  <2>10. CASE pc = "o.check"
    <3>1. /\ dir["live"] = tx[k].original /\ dir["old"] = None /\ tx[k].hadLive
          /\ Links(tx[k].original) # 1
      BY <2>1, <2>10 DEF Contradiction, RecoveryInv
    <3>2. \A y \in Name : dir[y] = tx[k].original => y = "live"
      BY <2>1, <2>2, <3>1 DEF Recorded
    <3>. QED
      BY <3>1, <3>2, LinkedOnce, NameMembers
  <2>. QED
    BY <1>5, <2>6, <2>7, <2>8, <2>9, <2>10
<1>. QED
  BY <1>1, <1>2, <1>3, <1>4, <1>5

\* Refuse keeps it: only an empty marker is refused.
LEMMA KeepsRefuse == ASSUME IInv, TypeInv', Refuse PROVE IInv'
<1>1. pc = "recover" /\ \E k \in Attempt : dir["marker"] = Marker(k) /\ text[k] = "empty"
  BY OnlyUnwritten DEF Refuse
<1>2. Moves /\ UNCHANGED <<dir, images>> /\ pc' = "refused"
  BY DEF Refuse, Goto, Moves
<1>3. Recoverable'
  BY <1>1, <1>2, QuietStep DEF IInv, Recoverable, Open
<1>4. Known'
  BY <1>1, <1>2 DEF Known, InstallInv, Recovering, Busy, Installing, Moves
<1>. QED
  BY <1>2, <1>3, <1>4, AttemptsKept DEF IInv

\* The marker goes last, when nothing of the transaction is left but farm.db.
LEMMA KeepsClearMarker == ASSUME IInv, TypeInv', ClearMarker, Ordered PROVE IInv'
<1>1. AllGood /\ dir \in images /\ dir \in [Name -> File] /\ Known
  BY DEF IInv, Recoverable, TypeInv, TypeOK
<1>2. CASE Step("clear", "clear.sync") /\ Entry("marker", None)
  <2>1. Moves /\ pc' = "clear.sync" /\ pc = "clear"
    BY <1>2 DEF Step, Goto, Moves
  <2>2. PICK k \in Attempt :
              /\ dir["marker"] = Marker(k) /\ RecoveryInv(k) /\ Recorded(k, tx[k])
              /\ tx[k].original # Db(k)
    BY <2>1, InRecovery DEF Recovering
  <2>3. dir["old"] = None /\ (dir["live"] = Db(k) => dir[tx[k].backup] = None)
    BY <2>1, <2>2 DEF RecoveryInv
  <2>. DEFINE e == Put(dir, "marker", None)
  <2>4. Good(dir, tx, text, n) /\ n \in Nat
    BY Here, RestoreAssumption DEF IInv, TypeInv, TypeOK
  <2>5. Good(e, tx, text, n)
    BY <1>1, <2>2, <2>3, <2>4, GoodUnmarked
  <2>6. e["live"] = dir["live"] /\ e["old"] = dir["old"] /\ e["marker"] = None
    BY <1>1, PutName, NameMembers, Members
  <2>7. dir' = e
    BY <1>2 DEF Entry
  <2>. HIDE DEF e
  <2>8. Version(e) = Version(dir)
    BY <2>6, VersionKept
  <2>9. AllGood' /\ (Settled => Settled')
    BY <1>1, <1>2, <2>1, <2>5, <2>8, EntryStep DEF e
  <2>10. Recoverable'
    BY <2>1, <2>9, Closed DEF Recoverable, Open
  <2>11. Known'
    BY <2>1, <2>6, <2>7 DEF Known, InstallInv, Recovering, Busy, Installing
  <2>. QED
    BY <2>1, <2>10, <2>11, AttemptsKept DEF IInv
<1>3. CASE pc = "clear.sync" /\ Sync /\ Goto("off")
  <2>1. Moves /\ pc' = "off"
    BY <1>3 DEF Goto, Moves
  <2>2. Recoverable'
    BY <1>1, <1>3, <2>1, SyncStep DEF Recoverable
  <2>. QED
    BY <2>1, <2>2, ToOff, AttemptsKept DEF IInv
<1>4. CASE pc = "clear.sync" /\ Sync /\ Acknowledge("ready")
  <2>1. /\ Moves /\ pc' = "ready" /\ dir' = dir /\ ack' = dir["live"] /\ dir["marker"] = None
    BY <1>1, <1>4 DEF Acknowledge, Moves, Sync, Known
  <2>2. Recoverable'
    BY <1>1, <1>4, <2>1, SyncStep DEF Recoverable
  <2>3. Known'
    BY <2>1 DEF Known, InstallInv, Recovering, Busy, Installing
  <2>. QED
    BY <2>1, <2>2, <2>3, AttemptsKept DEF IInv
<1>. QED
  BY <1>2, <1>3, <1>4 DEF ClearMarker

-----------------------------------------------------------------------------
(***************************************************************************)
(* The installation keeps the invariant.                                   *)
(***************************************************************************)

\* A candidate is bound under the name of its backup: its marker is not written yet.
LEMMA KeepsBindCandidate ==
    ASSUME IInv, TypeInv', Ordered, NEW b \in Backup, BindCandidate(b) PROVE IInv'
<1>1. /\ pc = "ready" /\ pc' = "bound" /\ n < MaxRestores /\ n' = n + 1 /\ text' = text
      /\ dir[b] = None /\ Entry(b, Db(n + 1))
      /\ tx' = [tx EXCEPT ![n + 1] = [NoTransaction EXCEPT !.backup = b]]
  BY DEF BindCandidate, BindAnonymousRegular
<1>2. /\ n \in Nat /\ n + 1 \in Attempt /\ 1..n \subseteq Attempt
      /\ DOMAIN tx = Attempt /\ dir \in [Name -> File]
  BY <1>1, RestoreAssumption DEF IInv, TypeInv, TypeOK, Attempt
<1>3. tx'[n + 1].backup = b /\ \A k \in Attempt : k # n + 1 => tx'[k] = tx[k]
  BY <1>1, <1>2 DEF NoTransaction
<1>4. text[n + 1] = "none"
  BY <1>2 DEF IInv, AttemptInv
<1>5. AttemptInv'
  <2>. SUFFICES ASSUME NEW k \in Attempt, text[k] # "none"
                PROVE  k <= n + 1 /\ Recorded(k, tx'[k])
    BY <1>1 DEF AttemptInv
  <2>1. k <= n /\ Recorded(k, tx[k])
    BY DEF IInv, AttemptInv
  <2>2. k # n + 1
    BY <1>4
  <2>. QED
    BY <1>2, <1>3, <2>1, <2>2 DEF Attempt
<1>6. \A im \in images : Good(im, tx', text', n')
  <2>. SUFFICES ASSUME NEW im \in images PROVE Good(im, tx', text', n')
    OBVIOUS
  <2>1. Good(im, tx, text, n)
    BY DEF IInv, Recoverable, AllGood
  <2>2. \A j \in 1..n : j \in Attempt /\ j # n + 1
    BY <1>2
  <2>3. \A j \in 1..n : tx'[j] = tx[j] /\ text'[j] = text[j]
    BY <1>1, <1>3, <2>2
  <2>4. n' \in Nat /\ n <= n'
    BY <1>1, <1>2
  <2>. QED
    BY <1>2, <2>1, <2>3, <2>4, GoodMoves
<1>. DEFINE e == Put(dir, b, Db(n + 1))
<1>7. /\ dir' = e /\ images' = images \cup {dir'} /\ e[b] = Db(n + 1)
      /\ e["live"] = dir["live"] /\ e["old"] = dir["old"] /\ e["marker"] = dir["marker"]
      /\ \A y \in Backup : y # b => e[y] = dir[y]
  BY <1>1, <1>2, PutName, NameMembers, Members DEF Entry
<1>. HIDE DEF e
<1>8. dir["marker"] = None /\ dir \in images /\ Settled
  BY <1>1, Here DEF IInv, Known, TypeInv, TypeOK
<1>9. Good(dir', tx', text', n')
  <2>1. Names(dir, tx', n') /\ Plain(dir, n')
    BY <1>6, <1>8, Files DEF Good
  <2>2. dir["live"] # Db(n + 1)
    <3>1. dir["live"] = None \/ \E j \in 0..n : dir["live"] = Db(j)
      BY <1>8, Here DEF Plain
    <3>2. \A j \in 0..n : j # n + 1
      BY <1>2
    <3>. QED
      BY <3>1, <3>2, Files
  <2>3. Plain(dir', n')
    BY <1>7, <2>1, <2>2 DEF Plain
  <2>4. n + 1 \in 1..n'
    BY <1>1, <1>2
  <2>5. Names(dir', tx', n')
    BY <1>3, <1>7, <2>1, <2>4 DEF Names
  <2>. QED
    BY <1>7, <1>8, <2>3, <2>5 DEF Good
<1>10. Version(dir') = Version(dir)
  BY <1>7, VersionKept
<1>11. Recoverable'
  BY <1>6, <1>7, <1>8, <1>9, <1>10 DEF Recoverable, AllGood, Settled
<1>12. InstallInv'
  BY <1>1, <1>3, <1>4, <1>7, <1>8 DEF InstallInv, Busy, Installing
<1>13. Known'
  BY <1>1, <1>12, ToInstall DEF Busy, Installing
<1>. QED
  BY <1>5, <1>11, <1>13 DEF IInv

\* The marker is created before anything of the transaction is done.
LEMMA KeepsCreateMarker == ASSUME IInv, TypeInv', Ordered, CreateMarker PROVE IInv'
<1>1. /\ pc = "bound" /\ pc' = "created" /\ n' = n /\ Entry("marker", Marker(n))
      /\ dir["old"] = None /\ dir["marker"] = None
      /\ text' = [text EXCEPT ![n] = "empty"]
      /\ tx' = [tx EXCEPT ![n].hadLive = dir["live"] # None, ![n].original = dir["live"]]
  BY DEF CreateMarker
<1>2. /\ n \in Attempt /\ n \in Nat /\ 1..n \subseteq Attempt /\ n \in 1..n
      /\ dir \in [Name -> File] /\ dir \in images
      /\ tx[n] \in [backup : Backup, hadLive : BOOLEAN, original : Database]
      /\ DOMAIN tx = Attempt /\ DOMAIN text = Attempt
  BY <1>1, RestoreAssumption DEF IInv, TypeInv, TypeOK, Attempt, Busy, Installing
<1>3. /\ tx'[n].backup = tx[n].backup /\ tx'[n].original = dir["live"]
      /\ tx'[n].hadLive <=> dir["live"] # None
      /\ text'[n] = "empty"
      /\ \A k \in Attempt : k # n => tx'[k] = tx[k] /\ text'[k] = text[k]
  BY <1>1, <1>2
<1>4. dir[tx[n].backup] = Db(n) /\ text[n] = "none" /\ tx[n].backup \in Backup
  BY <1>1, <1>2 DEF IInv, Known, InstallInv
<1>5. Plain(dir, n) /\ Settled
  BY <1>1, Here
<1>6. Recorded(n, tx'[n])
  <2>1. dir["live"] # Db(n)
    BY <1>4, <1>5, Files DEF Plain
  <2>2. dir["live"] = None \/ \E j \in 0..(n - 1) : dir["live"] = Db(j)
    <3>1. \A j \in 0..n : j = n \/ j \in 0..(n - 1)
      BY <1>2
    <3>. QED
      BY <1>5, <2>1, <3>1 DEF Plain
  <2>. QED
    BY <1>3, <1>4, <2>2 DEF Recorded
<1>7. AttemptInv'
  BY <1>1, <1>2, <1>3, <1>6 DEF AttemptInv, IInv
<1>8. \A im \in images : Good(im, tx', text', n')
  <2>. SUFFICES ASSUME NEW im \in images PROVE Good(im, tx', text', n')
    OBVIOUS
  <2>1. Good(im, tx, text, n)
    BY DEF IInv, Recoverable, AllGood
  <2>2. \A j \in 1..n : /\ tx'[j].backup = tx[j].backup
                        /\ text[j] # "none" =>
                              /\ tx'[j] = tx[j] /\ text'[j] # "none"
                              /\ text[j] = "synced" => text'[j] = "synced"
    BY <1>2, <1>3, <1>4
  <2>3. n' \in Nat /\ n <= n'
    BY <1>1, <1>2
  <2>. QED
    BY <1>2, <2>1, <2>2, <2>3, GoodMoves
<1>. DEFINE e == Put(dir, "marker", Marker(n))
<1>9. /\ dir' = e /\ images' = images \cup {dir'} /\ e["marker"] = Marker(n)
      /\ e["live"] = dir["live"] /\ e["old"] = dir["old"]
      /\ \A y \in Backup : e[y] = dir[y]
  BY <1>1, <1>2, PutName, NameMembers, Members DEF Entry
<1>. HIDE DEF e
<1>10. Marked(dir', n, tx'[n], text'[n])
  <2>. USE <1>1, <1>3, <1>4, <1>5, <1>9
  <2>1. Sides(dir', n, tx'[n])
    BY DEF Sides, Plain
  <2>2. text'[n] # "none" /\ dir'["live"] = tx'[n].original /\ dir'["old"] = None
    BY DEF Plain
  <2>3. dir'[tx'[n].backup] \in {None, Db(n)}
    OBVIOUS
  <2>4. \A x \in Backup : tx'[n].hadLive => dir'[x] # tx'[n].original
    BY DEF Plain
  <2>. QED
    BY <2>1, <2>2, <2>3, <2>4 DEF Marked
<1>11. Names(dir', tx', n')
  <2>1. Names(dir, tx', n')
    BY <1>2, <1>8 DEF Good
  <2>. QED
    BY <1>9, <2>1 DEF Names
<1>12. Good(dir', tx', text', n')
  BY <1>1, <1>2, <1>9, <1>10, <1>11 DEF Good
<1>13. Version(dir') = Version(dir)
  BY <1>9, VersionKept
<1>14. Recoverable'
  BY <1>5, <1>8, <1>9, <1>12, <1>13 DEF Recoverable, AllGood, Settled
<1>15. InstallInv'
  BY <1>1, <1>3, <1>9 DEF InstallInv, Busy, Installing
<1>16. Known'
  BY <1>1, <1>15, ToInstall DEF Busy, Installing
<1>. QED
  BY <1>7, <1>14, <1>16 DEF IInv

\* The attempt that is being installed.
LEMMA InInstall ==
    ASSUME IInv, pc \in Busy \ {"bound", "finish"}
    PROVE  /\ n \in Attempt /\ n \in 1..n /\ dir["marker"] = Marker(n)
           /\ Marked(dir, n, tx[n], text[n]) /\ Recorded(n, tx[n])
           /\ tx[n].original # Db(n) /\ tx[n].backup \in Backup
           /\ InstallInv /\ AllGood /\ dir \in images /\ dir \in [Name -> File]
           /\ dir["live"] # Db(n) => Settled
<1>1. /\ n \in Attempt /\ dir["marker"] = Marker(n) /\ InstallInv /\ AllGood
      /\ dir \in images /\ dir \in [Name -> File]
  BY DEF IInv, Known, InstallInv, TypeInv, TypeOK, Busy, Recoverable
<1>. QED
  BY <1>1, Here

\* The marker is written and made durable before farm.db is touched.
LEMMA KeepsWriteMarker == ASSUME IInv, TypeInv', Ordered, WriteMarker PROVE IInv'
<1>1. pc \in Busy \ {"bound", "finish"} /\ pc \in {"created", "written", "marked"}
  BY DEF WriteMarker, Busy, Installing
<1>2. /\ n \in Attempt /\ n \in 1..n /\ dir["marker"] = Marker(n)
      /\ Marked(dir, n, tx[n], text[n]) /\ Recorded(n, tx[n])
      /\ InstallInv /\ AllGood /\ dir \in images
      /\ dir["live"] # Db(n) => Settled
  BY <1>1, InInstall
<1>3. dir["live"] = tx[n].original /\ dir["old"] = None /\ Settled
  BY <1>1, <1>2, Closed DEF InstallInv, Open
<1>4. ASSUME NEW to \in {"written", "marked"}, NEW tt \in {"written", "synced"}, Written(to, tt),
             to = "marked" => tt = "synced", text[n] = "synced" => tt = "synced"
      PROVE  IInv'
  <2>1. /\ pc' = to /\ UNCHANGED <<dir, images, tx, n, ack>>
        /\ text' = [text EXCEPT ![n] = tt] /\ DOMAIN text = Attempt
    BY <1>4 DEF Written, IInv, TypeInv, TypeOK
  <2>2. text'[n] = tt /\ \A k \in Attempt : k # n => text'[k] = text[k]
    BY <1>2, <2>1
  <2>3. text[n] # "none" /\ n \in Nat /\ 1..n \subseteq Attempt
    BY <1>2, RestoreAssumption DEF Marked, IInv, TypeInv, TypeOK, Attempt
  <2>4. AttemptInv'
    BY <2>1, <2>2, <2>3 DEF AttemptInv, IInv
  <2>5. AllGood'
    <3>. SUFFICES ASSUME NEW im \in images PROVE Good(im, tx, text', n)
      BY <2>1 DEF AllGood
    <3>1. Good(im, tx, text, n)
      BY <1>2 DEF AllGood
    <3>2. \A j \in 1..n : text[j] # "none" => /\ text'[j] # "none"
                                              /\ text[j] = "synced" => text'[j] = "synced"
      BY <1>4, <2>2, <2>3
    <3>. QED
      BY <2>3, <3>1, <3>2, GoodMoves
  <2>6. Recoverable'
    BY <1>3, <2>1, <2>5 DEF Recoverable, Settled
  <2>7. InstallInv'
    BY <1>2, <1>3, <1>4, <2>1, <2>2 DEF InstallInv, Busy, Installing
  <2>8. Known'
    BY <2>1, <2>7, ToInstall DEF Busy, Installing
  <2>. QED
    BY <2>4, <2>6, <2>8 DEF IInv
<1>5. CASE pc = "created" /\ Written("written", "written")
  <2>1. text[n] = "empty"
    BY <1>2, <1>5 DEF InstallInv
  <2>. QED
    BY <1>4, <1>5, <2>1
<1>6. CASE pc = "written" /\ Written("marked", "synced")
  BY <1>4, <1>6
<1>7. CASE pc = "marked" /\ Sync /\ Goto(IF tx[n].hadLive THEN "retain" ELSE "link")
  <2>1. /\ Moves /\ dir' = dir /\ pc' \in {"retain", "link"}
        /\ IF tx[n].hadLive THEN pc' = "retain" ELSE pc' = "link"
    BY <1>7 DEF Goto, Moves, Sync
  <2>2. Recoverable'
    BY <1>2, <1>7, <2>1, SyncStep DEF Recoverable
  <2>3. text[n] = "synced" /\ (~tx[n].hadLive => tx[n].original = None)
    BY <1>2, <1>7 DEF InstallInv, Busy, Installing, Recorded
  <2>4. InstallInv'
    BY <1>2, <1>3, <2>1, <2>3 DEF InstallInv, Moves
  <2>5. Known'
    BY <2>1, <2>4, ToInstall DEF Busy, Installing
  <2>. QED
    BY <2>1, <2>2, <2>5, AttemptsKept DEF IInv
<1>. QED
  BY <1>5, <1>6, <1>7 DEF WriteMarker

\* The original is retained under its second name, and only then released.
LEMMA KeepsRetainOriginal == ASSUME IInv, TypeInv', Ordered, RetainOriginal PROVE IInv'
<1>1. pc \in {"retain", "retained", "release", "released"}
  BY DEF RetainOriginal, Step
<1>2. /\ n \in Attempt /\ dir["marker"] = Marker(n)
      /\ Recorded(n, tx[n]) /\ InstallInv /\ AllGood /\ dir \in images /\ dir \in [Name -> File]
  BY <1>1, InInstall DEF Busy, Installing
<1>3. /\ Settled /\ tx[n].hadLive /\ tx[n].original # None /\ text[n] = "synced"
      /\ dir["live"] \in File /\ "old" \in Name /\ "live" \in Name
  BY <1>1, <1>2, Closed, NameMembers DEF InstallInv, Open, Busy, Installing, Recorded
<1>4. CASE Step("retain", "retained") /\ Entry("old", dir["live"])
  <2>1. Moves /\ pc' = "retained" /\ dir["live"] = tx[n].original
    BY <1>2, <1>4 DEF Step, Goto, Moves, InstallInv
  <2>. DEFINE e == Put(dir, "old", dir["live"])
  <2>2. e["live"] = tx[n].original /\ e["old"] = tx[n].original
    BY <1>2, <1>3, <2>1, PutName
  <2>. HIDE DEF e
  <2>3. Sides(e, n, tx[n]) /\ Version(e) = Version(dir)
    BY <1>3, <2>1, <2>2, VersionKept DEF Sides
  <2>4. /\ AllGood' /\ Settled' /\ dir'["marker"] = dir["marker"] /\ dir'["old"] = dir["live"]
        /\ \A y \in Name : y # "old" => dir'[y] = dir[y]
    BY <1>2, <1>3, <1>4, <2>1, <2>3, SideStep DEF e
  <2>5. dir'["live"] = tx[n].original /\ dir'["old"] = tx[n].original
    BY <1>3, <2>1, <2>4
  <2>6. InstallInv'
    BY <1>2, <1>3, <2>1, <2>4, <2>5 DEF InstallInv, Moves
  <2>7. Known'
    BY <2>1, <2>6, ToInstall DEF Busy, Installing
  <2>. QED
    BY <2>1, <2>4, <2>7, AttemptsKept DEF IInv, Recoverable
<1>5. CASE (Step("retained", "release") \/ Step("released", "link")) /\ Sync
  <2>1. /\ Moves /\ dir' = dir
        /\ (pc = "retained" /\ pc' = "release") \/ (pc = "released" /\ pc' = "link")
    BY <1>5 DEF Step, Goto, Moves, Sync
  <2>2. Recoverable'
    BY <1>2, <1>5, <2>1, SyncStep DEF Recoverable
  <2>3. InstallInv'
    BY <1>2, <1>3, <2>1 DEF InstallInv, Moves
  <2>4. Known'
    BY <2>1, <2>3, ToInstall DEF Busy, Installing
  <2>. QED
    BY <2>1, <2>2, <2>4, AttemptsKept DEF IInv
<1>6. CASE Step("release", "released") /\ Entry("live", None)
  <2>1. /\ Moves /\ pc' = "released"
        /\ dir["live"] = tx[n].original /\ dir["old"] = tx[n].original
    BY <1>2, <1>6 DEF Step, Goto, Moves, InstallInv
  <2>. DEFINE e == Put(dir, "live", None)
  <2>2. e["live"] = None /\ e["old"] = tx[n].original
    BY <1>2, <1>3, <2>1, PutName, Members
  <2>. HIDE DEF e
  <2>3. Sides(e, n, tx[n])
    BY <1>3, <2>2 DEF Sides
  <2>4. Version(e) = Version(dir)
    BY <1>3, <2>1, <2>2 DEF Version, Recovered
  <2>5. /\ AllGood' /\ Settled' /\ dir'["marker"] = dir["marker"] /\ dir'["live"] = None
        /\ \A y \in Name : y # "live" => dir'[y] = dir[y]
    BY <1>2, <1>3, <1>6, <2>1, <2>3, <2>4, SideStep, Members DEF e
  <2>6. dir'["old"] = tx[n].original
    BY <1>3, <2>1, <2>5
  <2>7. InstallInv'
    BY <1>2, <1>3, <2>1, <2>5, <2>6 DEF InstallInv, Moves
  <2>8. Known'
    BY <2>1, <2>7, ToInstall DEF Busy, Installing
  <2>. QED
    BY <2>1, <2>5, <2>8, AttemptsKept DEF IInv, Recoverable
<1>. QED
  BY <1>4, <1>5, <1>6 DEF RetainOriginal

\* The one step after which a crash leads to another database than before.
LEMMA KeepsLinkRestored == ASSUME IInv, TypeInv', Ordered, LinkRestored PROVE IInv'
<1>1. pc \in {"link", "linked"}
  BY DEF LinkRestored, Step
<1>2. /\ n \in Attempt /\ dir["marker"] = Marker(n)
      /\ Recorded(n, tx[n]) /\ InstallInv /\ AllGood /\ dir \in images /\ dir \in [Name -> File]
  BY <1>1, InInstall DEF Busy, Installing
<1>3. text[n] = "synced" /\ dir["old"] = tx[n].original /\ Db(n) \in File
  BY <1>1, <1>2, Members DEF InstallInv, Busy, Installing
<1>4. CASE Step("link", "linked") /\ Entry("live", Db(n))
  <2>1. Moves /\ pc' = "linked"
    BY <1>4 DEF Step, Goto, Moves
  <2>. DEFINE e == Put(dir, "live", Db(n))
  <2>2. e["live"] = Db(n) /\ e["old"] = tx[n].original
    BY <1>2, <1>3, PutName, NameMembers
  <2>. HIDE DEF e
  <2>3. Sides(e, n, tx[n])
    BY <2>2 DEF Sides
  <2>4. /\ AllGood' /\ dir'["marker"] = dir["marker"] /\ dir'["live"] = Db(n)
        /\ \A y \in Name : y # "live" => dir'[y] = dir[y]
    BY <1>2, <1>3, <1>4, <2>1, <2>3, SideStep DEF e
  <2>5. dir'["old"] = tx[n].original
    BY <1>3, <2>4, NameMembers
  <2>6. InstallInv'
    BY <1>2, <1>3, <2>1, <2>4, <2>5 DEF InstallInv, Moves
  <2>7. Known'
    BY <2>1, <2>6, ToInstall DEF Busy, Installing
  <2>8. Recoverable'
    BY <1>2, <2>1, <2>4 DEF Recoverable, Exposed, Open
  <2>. QED
    BY <2>1, <2>7, <2>8, AttemptsKept DEF IInv
<1>5. CASE Step("linked", "unbind") /\ Sync
  <2>1. Moves /\ dir' = dir /\ pc' = "unbind" /\ pc = "linked"
    BY <1>5 DEF Step, Goto, Moves, Sync
  <2>2. Recoverable'
    BY <1>2, <1>5, <2>1, SyncStep DEF Recoverable
  <2>3. InstallInv'
    BY <1>2, <1>3, <2>1 DEF InstallInv, Moves
  <2>4. Known'
    BY <2>1, <2>3, ToInstall DEF Busy, Installing
  <2>. QED
    BY <2>1, <2>2, <2>4, AttemptsKept DEF IInv
<1>. QED
  BY <1>4, <1>5 DEF LinkRestored

\* A link that fails leads to recovery in the same process.
LEMMA KeepsLinkFails == ASSUME IInv, TypeInv', LinkFails PROVE IInv'
<1>1. /\ pc = "link" /\ pc' = "transaction" /\ Moves /\ UNCHANGED <<dir, images>>
  BY DEF LinkFails, Moves
<1>2. /\ n \in Attempt /\ dir["marker"] = Marker(n) /\ text[n] = "synced" /\ AllGood /\ Settled
  BY <1>1, InInstall, Closed DEF Busy, Installing, InstallInv, Open
<1>3. Recoverable'
  BY <1>1, <1>2, QuietStep DEF Recoverable
<1>4. Known'
  <2>1. PICK k \in Attempt : k = n
    BY <1>2
  <2>2. dir'["marker"] = Marker(k) /\ RecoveryInv(k)'
    BY <1>1, <1>2, <2>1 DEF RecoveryInv, Moves
  <2>. QED
    BY <1>1, <2>2, ToRecovery DEF Recovering
<1>. QED
  BY <1>1, <1>3, <1>4, AttemptsKept DEF IInv

\* The restored name is alone before the marker goes, and durable before it is reported.
LEMMA KeepsFinalize == ASSUME IInv, TypeInv', Ordered, Finalize PROVE IInv'
<1>1. CASE Step("unbind", "unretain") /\ Entry(tx[n].backup, None)
  <2>1. pc = "unbind" /\ pc' = "unretain" /\ Moves
    BY <1>1 DEF Step, Goto, Moves
  <2>2. /\ n \in Attempt /\ dir["marker"] = Marker(n) /\ tx[n].backup \in Backup
        /\ InstallInv /\ Settled
    BY <2>1, InInstall, Closed DEF Busy, Installing, Open
  <2>3. EntryIf(TRUE, tx[n].backup, None)
    BY <1>1 DEF EntryIf
  <2>4. /\ AllGood' /\ Settled' /\ dir'["live"] = dir["live"] /\ dir'["old"] = dir["old"]
        /\ dir'["marker"] = dir["marker"] /\ dir'[tx[n].backup] = None
    BY <2>1, <2>2, <2>3, UnbindStep
  <2>5. InstallInv'
    BY <2>1, <2>2, <2>4 DEF InstallInv, Moves, Busy, Installing
  <2>6. Known'
    BY <2>1, <2>5, ToInstall DEF Busy, Installing
  <2>. QED
    BY <2>1, <2>4, <2>6, AttemptsKept DEF IInv, Recoverable
<1>2. CASE Step("unretain", "unmark") /\ EntryIf(tx[n].hadLive, "old", None)
  <2>1. pc = "unretain" /\ pc' = "unmark" /\ Moves
    BY <1>2 DEF Step, Goto, Moves
  <2>2. /\ n \in Attempt /\ dir["marker"] = Marker(n) /\ tx[n].backup \in Backup
        /\ InstallInv /\ Settled /\ AllGood /\ dir \in [Name -> File] /\ Recorded(n, tx[n])
    BY <2>1, InInstall, Closed DEF Busy, Installing, Open
  <2>3. /\ dir["live"] = Db(n) /\ dir["old"] = tx[n].original /\ text[n] = "synced"
        /\ dir[tx[n].backup] = None
    BY <2>1, <2>2 DEF InstallInv, Busy, Installing
  <2>4. /\ AllGood' /\ Settled' /\ dir'["live"] = Db(n) /\ dir'["old"] = None
        /\ dir'["marker"] = Marker(n) /\ dir'[tx[n].backup] = None
    <3>1. CASE ~tx[n].hadLive
      <4>1. UNCHANGED <<dir, images>> /\ dir["old"] = None
        BY <1>2, <2>2, <2>3, <3>1 DEF EntryIf, Recorded
      <4>. QED
        BY <2>1, <2>2, <2>3, <4>1, QuietStep
    <3>2. CASE tx[n].hadLive
      <4>1. Entry("old", None)
        BY <1>2, <3>2 DEF EntryIf
      <4>. DEFINE e == Put(dir, "old", None)
      <4>2. e["live"] = Db(n) /\ e["old"] = None
        BY <2>2, <2>3, PutName, NameMembers, Members
      <4>. HIDE DEF e
      <4>3. Sides(e, n, tx[n]) /\ Version(e) = Version(dir)
        BY <2>3, <4>2, Files, VersionKept DEF Sides
      <4>4. /\ AllGood' /\ dir'["marker"] = dir["marker"] /\ dir'["old"] = None /\ Settled'
            /\ \A y \in Name : y # "old" => dir'[y] = dir[y]
        BY <2>1, <2>2, <2>3, <4>1, <4>3, SideStep, Members DEF e
      <4>. QED
        BY <2>2, <2>3, <4>4, NameMembers
    <3>. QED
      BY <3>1, <3>2
  <2>5. InstallInv'
    BY <2>1, <2>2, <2>3, <2>4 DEF InstallInv, Moves
  <2>6. Known'
    BY <2>1, <2>5, ToInstall DEF Busy, Installing
  <2>. QED
    BY <2>1, <2>4, <2>6, AttemptsKept DEF IInv, Recoverable
<1>3. CASE Step("unmark", "finish") /\ Entry("marker", None)
  <2>1. pc = "unmark" /\ pc' = "finish" /\ Moves
    BY <1>3 DEF Step, Goto, Moves
  <2>2. /\ n \in Attempt /\ dir["marker"] = Marker(n) /\ Recorded(n, tx[n])
        /\ InstallInv /\ Settled /\ AllGood /\ dir \in [Name -> File]
        /\ Good(dir, tx, text, n) /\ n \in Nat
    BY <2>1, InInstall, Closed, Here, RestoreAssumption
       DEF Busy, Installing, Open, IInv, TypeInv, TypeOK
  <2>3. dir["live"] = Db(n) /\ dir["old"] = None /\ dir[tx[n].backup] = None
    BY <2>1, <2>2 DEF InstallInv
  <2>. DEFINE e == Put(dir, "marker", None)
  <2>4. Good(e, tx, text, n)
    BY <2>2, <2>3, GoodUnmarked
  <2>5. e["live"] = dir["live"] /\ e["old"] = dir["old"] /\ e["marker"] = None
    BY <2>2, PutName, NameMembers, Members
  <2>6. dir' = e
    BY <1>3 DEF Entry
  <2>. HIDE DEF e
  <2>7. Version(e) = Version(dir)
    BY <2>5, VersionKept
  <2>8. AllGood' /\ Settled'
    BY <1>3, <2>1, <2>2, <2>4, <2>7, EntryStep DEF e
  <2>9. InstallInv'
    BY <2>1 DEF InstallInv, Busy, Installing
  <2>10. Known'
    BY <2>1, <2>5, <2>6, <2>9, ToInstall DEF Busy, Installing
  <2>. QED
    BY <2>1, <2>8, <2>10, AttemptsKept DEF IInv, Recoverable
<1>4. CASE pc = "finish" /\ Sync /\ Acknowledge("done")
  <2>1. /\ Moves /\ pc' = "done" /\ dir' = dir /\ images' = {dir'} /\ ack' = dir["live"]
        /\ dir["marker"] = None
    BY <1>4 DEF Acknowledge, Moves, Sync, IInv, Known
  <2>2. Recoverable'
    BY <1>4, <2>1, SyncStep DEF IInv, Recoverable, TypeInv, TypeOK
  <2>3. Known'
    BY <2>1 DEF Known, InstallInv, Recovering, Busy, Installing
  <2>. QED
    BY <2>1, <2>2, <2>3, AttemptsKept DEF IInv
<1>. QED
  BY <1>1, <1>2, <1>3, <1>4 DEF Finalize

\* An error removes the validation name at most, whatever else was done.
LEMMA KeepsInstallFails == ASSUME IInv, TypeInv', Ordered, InstallFails PROVE IInv'
<1>1. n \in Attempt /\ tx[n].backup \in Backup
  BY DEF InstallFails, IInv, TypeInv, TypeOK
<1>2. Moves /\ pc' = "off" /\ EntryIf(dir[tx[n].backup] = Db(n), tx[n].backup, None)
  BY DEF InstallFails, Goto, Moves
<1>3. AllGood' /\ (Settled => Settled') /\ (Exposed => Exposed')
  BY <1>1, <1>2, UnbindStep
<1>4. Recoverable'
  BY <1>2, <1>3 DEF IInv, Recoverable, Open
<1>. QED
  BY <1>2, <1>4, ToOff, AttemptsKept DEF IInv

-----------------------------------------------------------------------------
(***************************************************************************)
(* Use of the database, and crashes.                                       *)
(***************************************************************************)
\* CreateDatabase keeps it.
LEMMA KeepsCreateDatabase == ASSUME IInv, TypeInv', CreateDatabase PROVE IInv'
<1>1. /\ Moves /\ pc' = "serving" /\ ack' = Db(0) /\ pc = "ready" /\ dir["live"] = None
      /\ dir' = Put(dir, "live", Db(0)) /\ images' = {dir'}
  BY DEF CreateDatabase, Moves
<1>2. dir \in [Name -> File] /\ dir["marker"] = None /\ Names(dir, tx, n) /\ Plain(dir, n)
  BY <1>1, Here DEF IInv, TypeInv, TypeOK, Known
<1>3. Db(0) \in File /\ 0 \in 0..n
  BY RestoreAssumption, Members DEF IInv, TypeInv, TypeOK
<1>4. /\ dir'["live"] = Db(0) /\ dir'["old"] = None /\ dir'["marker"] = None
      /\ \A y \in Backup : dir'[y] = dir[y]
  BY <1>1, <1>2, <1>3, PutName, NameMembers DEF Plain
<1>5. \A y \in Backup : dir[y] # Db(0)
  <2>. SUFFICES ASSUME NEW y \in Backup, dir[y] = Db(0) PROVE FALSE
    OBVIOUS
  <2>1. PICK j \in 1..n : dir[y] = Db(j)
    BY <1>2, Files DEF Names
  <2>. QED
    BY <2>1, Files
<1>6. Plain(dir', n) /\ Names(dir', tx, n)
  BY <1>2, <1>3, <1>4, <1>5 DEF Plain, Names
<1>7. Good(dir', tx', text', n')
  BY <1>1, <1>4, <1>6 DEF Good, Moves
<1>8. Recoverable'
  BY <1>1, <1>7 DEF Recoverable, AllGood, Settled
<1>9. Known'
  BY <1>1, <1>4 DEF Known, InstallInv, Recovering, Busy, Installing
<1>. QED
  BY <1>1, <1>8, <1>9, AttemptsKept DEF IInv

\* Serve keeps it: the directory is synced before the first write.
LEMMA KeepsServe == ASSUME IInv, TypeInv', Serve PROVE IInv'
<1>1. /\ Moves /\ pc' = "serving" /\ ack' = ack /\ pc = "ready" /\ dir' = dir /\ images' = {dir'}
  BY DEF Serve, Step, Goto, Moves, Sync
<1>2. Recoverable'
  BY <1>1, SyncStep DEF Serve, IInv, Recoverable, TypeInv, TypeOK
<1>3. Known'
  BY <1>1 DEF IInv, Known, InstallInv, Recovering, Busy, Installing
<1>. QED
  BY <1>1, <1>2, <1>3, AttemptsKept DEF IInv

\* Crash keeps it: recovery begins from any directory that it can finish.
LEMMA KeepsCrash == ASSUME IInv, TypeInv', Crash PROVE IInv'
<1>1. Moves /\ UNCHANGED <<dir, images>> /\ pc' = "off"
  BY DEF Crash, Goto, Moves
<1>2. Recoverable'
  BY <1>1, QuietStep DEF IInv, Recoverable, Open
<1>. QED
  BY <1>1, <1>2, ToOff, AttemptsKept DEF IInv

\* Whatever a power loss keeps of the directory, recovery can finish it.
LEMMA KeepsPowerLoss == ASSUME IInv, TypeInv', PowerLoss PROVE IInv'
<1>1. /\ dir' \in images /\ images' = {dir'} /\ tx' = tx /\ n' = n /\ pc' = "off"
  BY DEF PowerLoss
<1>2. \A k \in Attempt : /\ text[k] # "none" <=> text'[k] # "none"
                         /\ text[k] = "synced" => text'[k] = "synced"
  BY DEF PowerLoss
<1>3. n \in Nat /\ 1..n \subseteq Attempt
  BY RestoreAssumption DEF IInv, TypeInv, TypeOK, Attempt
<1>4. AttemptInv'
  BY <1>1, <1>2 DEF IInv, AttemptInv
<1>5. Good(dir', tx', text', n')
  <2>1. PICK im \in images : im = dir'
    BY <1>1
  <2>2. Good(im, tx, text, n)
    BY DEF IInv, Recoverable, AllGood
  <2>3. \A j \in 1..n : text[j] # "none" => /\ text'[j] # "none"
                                            /\ text[j] = "synced" => text'[j] = "synced"
    BY <1>2, <1>3
  <2>4. Good(im, tx, text', n)
    BY <1>3, <2>2, <2>3, GoodMoves
  <2>. QED
    BY <1>1, <2>1, <2>4
<1>6. Recoverable'
  BY <1>1, <1>5 DEF Recoverable, AllGood, Settled
<1>. QED
  BY <1>1, <1>4, <1>6, ToOff DEF IInv

-----------------------------------------------------------------------------
(***************************************************************************)
(* The invariant of the specification, and what follows from it.           *)
(***************************************************************************)
\* An empty directory, or one with a database only.
LEMMA InvariantInit == Init => IInv
<1>. SUFFICES ASSUME Init PROVE IInv
  OBVIOUS
<1>1. TypeInv
  BY TypeInit
<1>2. PICK live \in {None, Db(0)} : dir = [x \in Name |-> IF x = "live" THEN live ELSE None]
  BY DEF Init
<1>3. /\ dir["live"] = live /\ dir["old"] = None /\ dir["marker"] = None
      /\ \A x \in Backup : dir[x] = None
  BY <1>2, NameMembers
<1>4. n = 0 /\ images = {dir} /\ pc = "off" /\ \A k \in Attempt : text[k] = "none"
  BY DEF Init
<1>5. Plain(dir, n)
  BY <1>3, <1>4 DEF Plain
<1>6. Good(dir, tx, text, n)
  BY <1>3, <1>5 DEF Good, Names
<1>7. Recoverable
  BY <1>4, <1>6 DEF Recoverable, AllGood, Settled
<1>8. AttemptInv
  BY <1>4 DEF AttemptInv
<1>9. Known
  BY <1>4 DEF Known, InstallInv, Recovering, Busy, Installing
<1>. QED
  BY <1>1, <1>7, <1>8, <1>9 DEF IInv

\* Every step keeps it.
LEMMA InvariantNext == Ordered /\ IInv /\ [Next]_vars => IInv'
<1>. SUFFICES ASSUME Ordered, IInv, [Next]_vars PROVE IInv'
  OBVIOUS
<1>1. TypeInv'
  BY TypeNext DEF IInv
<1>2. CASE UNCHANGED vars
  <2>1. Moves /\ UNCHANGED <<dir, images, pc, ack>>
    BY <1>2 DEF vars, Moves
  <2>2. Recoverable'
    BY <2>1, QuietStep DEF IInv, Recoverable
  <2>3. Known'
    BY <2>1 DEF IInv, Known, InstallInv, RecoveryInv, Moves
  <2>. QED
    BY <1>1, <2>1, <2>2, <2>3, AttemptsKept DEF IInv
<1>3. ASSUME NEW b \in Backup, BindCandidate(b) PROVE IInv'
  BY <1>1, <1>3, KeepsBindCandidate
<1>4. ASSUME Start \/ Accept \/ ReadTransaction \/ RecoverRestored \/ RecoverOriginal
             \/ Refuse \/ ClearMarker
      PROVE  IInv'
  BY <1>1, <1>4, KeepsStart, KeepsAccept, KeepsReadTransaction, KeepsRecoverRestored,
     KeepsRecoverOriginal, KeepsRefuse, KeepsClearMarker
<1>5. ASSUME CreateMarker \/ WriteMarker \/ RetainOriginal \/ LinkRestored \/ LinkFails
             \/ Finalize \/ InstallFails
      PROVE  IInv'
  BY <1>1, <1>5, KeepsCreateMarker, KeepsWriteMarker, KeepsRetainOriginal, KeepsLinkRestored,
     KeepsLinkFails, KeepsFinalize, KeepsInstallFails
<1>6. ASSUME CreateDatabase \/ Serve \/ Crash \/ PowerLoss PROVE IInv'
  BY <1>1, <1>6, KeepsCreateDatabase, KeepsServe, KeepsCrash, KeepsPowerLoss
<1>. QED
  BY <1>2, <1>3, <1>4, <1>5, <1>6 DEF Next

\* It holds in every state of a behaviour.
LEMMA Invariant == Ordered => (Spec => []IInv)
<1>. SUFFICES ASSUME Ordered PROVE Spec => []IInv
  OBVIOUS
<1>1. IInv /\ [Next]_vars => IInv'
  BY InvariantNext
<1>. QED
  BY InvariantInit, <1>1, PTL DEF Spec

\* No interruption of a restore, of its recovery or of the recovery's recovery leaves the
\* Controller unable to start: of all the contradictions that recoverRestoreTransaction
\* reports only an empty marker can be met, with the original in place.
THEOREM StartRecoversAlways == Ordered => (Spec => []StartRecovers)
<1>1. IInv => StartRecovers
  <2>. SUFFICES ASSUME IInv, pc = "refused"
                PROVE  dir["marker"] # None /\ text[Current] = "empty" /\ dir["live"] = T.original
    BY DEF StartRecovers
  <2>1. PICK k \in Attempt : dir["marker"] = Marker(k) /\ text[k] = "empty"
    BY DEF IInv, Known
  <2>2. Current = k /\ T = tx[k] /\ dir["marker"] # None
    BY <2>1, CurrentIs, Files
  <2>3. dir["live"] = tx[k].original
    BY <2>1, Here DEF Marked
  <2>. QED
    BY <2>1, <2>2, <2>3
<1>. QED
  BY <1>1, Invariant, PTL

\* A restore is reported done, and a database served, only from a directory that no power
\* loss turns into another one: the syncs of finalize and of recovery come first.
THEOREM SettledWhenUsedAlways == Ordered => (Spec => []SettledWhenUsed)
<1>1. IInv => SettledWhenUsed
  <2>. SUFFICES ASSUME IInv, pc \in {"done", "serving"}, NEW im \in images
                PROVE  im["live"] = ack /\ im["old"] = None /\ im["marker"] = None
    BY DEF SettledWhenUsed
  <2>1. im = dir /\ dir["marker"] = None /\ ack = dir["live"]
    BY DEF IInv, Known
  <2>. QED
    BY <2>1, Here DEF Plain
<1>. QED
  BY <1>1, Invariant, PTL

-----------------------------------------------------------------------------
(***************************************************************************)
(* A restore implements AtomicRestore.  Of the steps that change an entry  *)
(* only the link of the restored database changes what a start would find; *)
(* the syncs settle it.                                                    *)
(***************************************************************************)

\* What a start would find is a number that grows with the attempts.
LEMMA VersionIs ==
    /\ \A d : d["live"] = None /\ d["old"] = None => Version(d) = 0
    /\ \A d, k : d["live"] = Db(k) => Version(d) = k + 1
    /\ \A d, k : d["live"] = None /\ d["old"] = Db(k) => Version(d) = k + 1
BY Files DEF Version, Recovered

\* When every power loss leads to the database in place.
LEMMA MaySettled ==
    ASSUME dir \in images, Settled
    PROVE  {Version(im) : im \in images} = {Version(dir)}
BY DEF Settled

\* A directory without a marker is acknowledged as the database that it holds.
LEMMA Acknowledged ==
    ASSUME NEW d, Plain(d, n)
    PROVE  Version(d) = IF d["live"] = None THEN 0 ELSE d["live"][2] + 1
BY DEF Version, Recovered, Plain

\* A step after which a start finds what it could find before.
Unreplaced == Atomic!Settle \/ Atomic!Acknowledge \/ UNCHANGED Atomic!vars

\* A step that leaves the directory and what may be left of it.
LEMMA MapsQuiet ==
    ASSUME UNCHANGED <<dir, images, ack>>
    PROVE  Unreplaced
BY DEF Unreplaced, Atomic!vars

\* A sync.
LEMMA MapsSync ==
    ASSUME Sync, UNCHANGED ack
    PROVE  Unreplaced
<1>1. dir' = dir /\ images' = {dir}
  BY DEF Sync
<1>2. {Version(im) : im \in images'} = {Version(dir)}
  BY <1>1
<1>. QED
  BY <1>1, <1>2 DEF Unreplaced, Atomic!Settle

\* An entry that changes while nothing is open: a start would find the same database.
LEMMA MapsEntry ==
    ASSUME IInv, IInv', Ordered, pc \notin Open, pc' \notin Open,
           NEW x, NEW f, Entry(x, f), UNCHANGED ack
    PROVE  Unreplaced
<1>1. dir \in images /\ dir' \in images' /\ dir \in images'
  BY DEF IInv, TypeInv, TypeOK, Entry
<1>2. Settled /\ Settled'
  BY DEF IInv, Recoverable
<1>3. Version(dir') = Version(dir)
  BY <1>1, <1>2 DEF Settled
<1>4. {Version(im) : im \in images'} = {Version(im) : im \in images}
  BY <1>1, <1>2, <1>3 DEF Settled
<1>. QED
  BY <1>3, <1>4 DEF Unreplaced, Atomic!vars

\* Nor does the loss of a validation name change it.
LEMMA MapsUnbind ==
    ASSUME IInv, Ordered, NEW c, NEW b \in Backup, EntryIf(c, b, None), UNCHANGED ack
    PROVE  Unreplaced
<1>1. CASE UNCHANGED <<dir, images>>
  BY <1>1, MapsQuiet
<1>2. CASE Entry(b, None)
  <2>1. dir' = Put(dir, b, None) /\ images' = images \cup {dir'} /\ dir \in images
    BY <1>2 DEF Entry, IInv, TypeInv, TypeOK
  <2>2. dir \in [Name -> File]
    BY DEF IInv, TypeInv, TypeOK
  <2>3. dir'["live"] = dir["live"] /\ dir'["old"] = dir["old"]
    BY <2>1, <2>2, PutName, NameMembers, Members
  <2>4. Version(dir') = Version(dir)
    BY <2>3, VersionKept
  <2>5. {Version(im) : im \in images'} = {Version(im) : im \in images}
    BY <2>1, <2>4
  <2>. QED
    BY <2>4, <2>5 DEF Unreplaced, Atomic!vars
<1>. QED
  BY <1>1, <1>2 DEF EntryIf

\* An acknowledgement of the database in place, which every power loss would keep.
LEMMA MapsAcknowledge ==
    ASSUME IInv, pc \notin Open \/ UNCHANGED images, dir["marker"] = None,
           Sync \/ UNCHANGED <<dir, images>>, ack' = dir["live"]
    PROVE  Unreplaced
<1>1. Plain(dir, n) /\ Settled /\ dir \in images /\ dir' = dir
  BY Here DEF IInv, TypeInv, TypeOK, Sync
<1>2. {Version(im) : im \in images} = {Version(dir)}
  BY <1>1, MaySettled
<1>3. {Version(im) : im \in images'} = {Version(im) : im \in images}
  BY <1>1, <1>2 DEF Sync
<1>4. Version(dir) = IF ack' = None THEN 0 ELSE ack'[2] + 1
  BY <1>1, Acknowledged
<1>. QED
  BY <1>1, <1>2, <1>3, <1>4 DEF Unreplaced, Atomic!Acknowledge

\* The link of the restored database: from then on a start finds a later one.
LEMMA MapsLink ==
    ASSUME IInv, Ordered, pc = "link", Entry("live", Db(n)), UNCHANGED ack
    PROVE  Atomic!Replace
<1>1. /\ n \in Attempt /\ InstallInv /\ Recorded(n, tx[n]) /\ Settled /\ dir \in images
      /\ dir \in [Name -> File] /\ Db(n) \in File
  BY InInstall, Closed, Members DEF Busy, Installing, Open
<1>2. dir["live"] = None /\ dir["old"] = tx[n].original
  BY <1>1 DEF InstallInv
<1>3. dir' = Put(dir, "live", Db(n)) /\ images' = images \cup {dir'}
  BY DEF Entry
<1>4. dir'["live"] = Db(n)
  BY <1>1, <1>3, PutName, NameMembers
<1>5. Version(dir') = n + 1
  BY <1>4, VersionIs
<1>6. Version(dir) \in 0..n
  <2>1. CASE ~tx[n].hadLive
    BY <1>1, <1>2, <2>1, VersionIs DEF Recorded, Attempt
  <2>2. CASE tx[n].hadLive
    <3>1. PICK j \in 0..(n - 1) : tx[n].original = Db(j)
      BY <1>1, <2>2 DEF Recorded
    <3>2. Version(dir) = j + 1
      BY <1>2, <3>1, VersionIs
    <3>. QED
      BY <1>1, <3>2 DEF Attempt
  <2>. QED
    BY <2>1, <2>2
<1>7. Version(dir') \in (Version(dir) + 1)..(MaxRestores + 1)
  BY <1>1, <1>5, <1>6, RestoreAssumption DEF Attempt
<1>8. {Version(im) : im \in images} = {Version(dir)}
  BY <1>1, MaySettled
<1>9. {Version(im) : im \in images'} = {Version(dir), Version(dir')}
  BY <1>3, <1>8
<1>. QED
  BY <1>7, <1>8, <1>9 DEF Atomic!Replace

\* The first database is created with its first commit.
LEMMA MapsCreate == ASSUME IInv, CreateDatabase PROVE Atomic!Create
<1>1. /\ pc = "ready" /\ dir["live"] = None /\ dir' = Put(dir, "live", Db(0))
      /\ images' = {dir'} /\ ack' = Db(0)
  BY DEF CreateDatabase
<1>2. /\ dir["marker"] = None /\ Plain(dir, n) /\ Settled /\ dir \in images
      /\ dir \in [Name -> File] /\ Db(0) \in File
  BY <1>1, Here, RestoreAssumption, Members DEF IInv, Known, TypeInv, TypeOK
<1>3. dir'["live"] = Db(0)
  BY <1>1, <1>2, PutName, NameMembers
<1>4. Version(dir) = 0 /\ Version(dir') = 1
  BY <1>1, <1>2, <1>3, VersionIs DEF Plain
<1>5. {Version(im) : im \in images} = {0} /\ {Version(im) : im \in images'} = {1}
  BY <1>1, <1>2, <1>4, MaySettled
<1>6. 1 = IF ack' = None THEN 0 ELSE ack'[2] + 1
  BY <1>1, Files
<1>. QED
  BY <1>4, <1>5, <1>6 DEF Atomic!Create

\* A power loss leaves one of the directories that were possible.
LEMMA MapsPowerLoss == ASSUME PowerLoss PROVE Atomic!Crash
<1>1. dir' \in images /\ images' = {dir'} /\ ack' = ack
  BY DEF PowerLoss
<1>2. Version(dir') \in {Version(im) : im \in images}
  BY <1>1
<1>3. {Version(im) : im \in images'} = {Version(dir')}
  BY <1>1
<1>. QED
  BY <1>1, <1>2, <1>3 DEF Atomic!Crash

\* The first directory has one database, or none.
LEMMA MapsInit == Init => Atomic!Init
<1>. SUFFICES ASSUME Init PROVE Atomic!Init
  OBVIOUS
<1>1. PICK live \in {None, Db(0)} : dir = [x \in Name |-> IF x = "live" THEN live ELSE None]
  BY DEF Init
<1>2. dir["live"] = live /\ dir["old"] = None /\ images = {dir} /\ ack = live
  BY <1>1, NameMembers DEF Init
<1>3. {Version(im) : im \in images} = {Version(dir)}
  BY <1>2
<1>4. CASE live = None
  BY <1>2, <1>3, <1>4, VersionIs DEF Atomic!Init
<1>5. CASE live = Db(0)
  <2>1. Version(dir) = 1 /\ ack # None /\ ack[2] = 0
    BY <1>2, <1>5, Files, VersionIs
  <2>. QED
    BY <1>3, <2>1 DEF Atomic!Init
<1>. QED
  BY <1>4, <1>5

\* Recovery: its syncs settle, its last step acknowledges, the rest is not seen.
LEMMA MapsRecovery ==
    ASSUME IInv, IInv', Ordered,
           Start \/ Accept \/ ReadTransaction \/ RecoverRestored \/ RecoverOriginal
             \/ Refuse \/ ClearMarker
    PROVE  Unreplaced
<1>1. CASE Start \/ ReadTransaction \/ Refuse
  BY <1>1, MapsQuiet DEF Start, ReadTransaction, Refuse, Goto
<1>2. CASE Accept
  BY <1>2, MapsAcknowledge DEF Accept, Acknowledge
<1>3. CASE RecoverRestored
  <2>1. ack' = ack /\ pc' \notin Open
    BY <1>3 DEF RecoverRestored, Step, Goto, Open
  <2>2. CASE Sync
    BY <2>1, <2>2, MapsSync
  <2>3. CASE UNCHANGED <<dir, images>>
    BY <2>1, <2>3, MapsQuiet
  <2>4. CASE \E x : Entry(x, None) /\ pc \notin Open
    BY <2>1, <2>4, MapsEntry
  <2>5. Sync \/ UNCHANGED <<dir, images>> \/ \E x : Entry(x, None) /\ pc \notin Open
    BY <1>3 DEF RecoverRestored, Step, EntryIf, Open
  <2>. QED
    BY <2>2, <2>3, <2>4, <2>5
<1>4. CASE RecoverOriginal
  <2>1. ack' = ack /\ pc \notin Open /\ pc' \notin Open
    BY <1>4 DEF RecoverOriginal, Step, Goto, Open
  <2>2. CASE Sync
    BY <2>1, <2>2, MapsSync
  <2>3. CASE UNCHANGED <<dir, images>>
    BY <2>1, <2>3, MapsQuiet
  <2>4. CASE Entry("live", dir["old"])
    <3>1. PICK f \in {dir["old"]} : Entry("live", f)
      BY <2>4
    <3>. QED
      BY <2>1, <3>1, MapsEntry
  <2>5. CASE \E x : Entry(x, None)
    BY <2>1, <2>5, MapsEntry
  <2>6. \/ Sync \/ UNCHANGED <<dir, images>> \/ Entry("live", dir["old"])
        \/ \E x : Entry(x, None)
    BY <1>4 DEF RecoverOriginal, Step, EntryIf
  <2>. QED
    BY <2>2, <2>3, <2>4, <2>5, <2>6
<1>5. CASE ClearMarker
  <2>1. CASE Step("clear", "clear.sync") /\ Entry("marker", None)
    BY <2>1, MapsEntry DEF Step, Goto, Open
  <2>2. CASE pc = "clear.sync" /\ Sync /\ Goto("off")
    BY <2>2, MapsSync DEF Goto
  <2>3. CASE pc = "clear.sync" /\ Sync /\ Acknowledge("ready")
    <3>1. dir["marker"] = None /\ pc \notin Open
      BY <2>3 DEF IInv, Known, Open
    <3>. QED
      BY <2>3, <3>1, MapsAcknowledge DEF Acknowledge
  <2>. QED
    BY <1>5, <2>1, <2>2, <2>3 DEF ClearMarker
<1>. QED
  BY <1>1, <1>2, <1>3, <1>4, <1>5

\* The installation: one link replaces the database, its last step acknowledges it.
LEMMA MapsInstall ==
    ASSUME IInv, IInv', Ordered,
           (\E b \in Backup : BindCandidate(b)) \/ CreateMarker \/ WriteMarker
             \/ RetainOriginal \/ LinkRestored \/ LinkFails \/ Finalize \/ InstallFails
    PROVE  Unreplaced \/ (pc = "link" /\ Entry("live", Db(n)) /\ UNCHANGED ack)
<1>1. ASSUME NEW b \in Backup, BindCandidate(b) PROVE Unreplaced
  <2>1. PICK f \in {Db(n + 1)} : Entry(b, f)
    BY <1>1 DEF BindCandidate, BindAnonymousRegular
  <2>2. ack' = ack /\ pc \notin Open /\ pc' \notin Open
    BY <1>1 DEF BindCandidate, Open
  <2>. QED
    BY <2>1, <2>2, MapsEntry
<1>2. CASE CreateMarker
  <2>1. PICK f \in {Marker(n)} : Entry("marker", f)
    BY <1>2 DEF CreateMarker
  <2>2. ack' = ack /\ pc \notin Open /\ pc' \notin Open
    BY <1>2 DEF CreateMarker, Open
  <2>. QED
    BY <2>1, <2>2, MapsEntry
<1>3. CASE WriteMarker
  <2>1. ack' = ack /\ (Sync \/ UNCHANGED <<dir, images>>)
    BY <1>3 DEF WriteMarker, Written, Goto
  <2>. QED
    BY <2>1, MapsSync, MapsQuiet
<1>4. CASE RetainOriginal
  <2>1. ack' = ack /\ pc \notin Open /\ pc' \notin Open
    BY <1>4 DEF RetainOriginal, Step, Goto, Open
  <2>2. PICK f \in {dir["live"], None} : Sync \/ Entry("old", f) \/ Entry("live", f)
    BY <1>4 DEF RetainOriginal
  <2>3. CASE Sync
    BY <2>1, <2>3, MapsSync
  <2>4. CASE Entry("old", f)
    BY <2>1, <2>4, MapsEntry
  <2>5. CASE Entry("live", f)
    BY <2>1, <2>5, MapsEntry
  <2>. QED
    BY <2>2, <2>3, <2>4, <2>5
<1>5. CASE LinkRestored
  <2>1. CASE Step("link", "linked") /\ Entry("live", Db(n))
    BY <2>1 DEF Step, Goto
  <2>2. CASE Step("linked", "unbind") /\ Sync
    BY <2>2, MapsSync DEF Step, Goto
  <2>. QED
    BY <1>5, <2>1, <2>2 DEF LinkRestored
<1>6. CASE LinkFails
  BY <1>6, MapsQuiet DEF LinkFails
<1>7. CASE Finalize
  <2>1. CASE pc = "finish" /\ Sync /\ Acknowledge("done")
    <3>1. dir["marker"] = None /\ pc \notin Open
      BY <2>1 DEF IInv, Known, Open
    <3>. QED
      BY <2>1, <3>1, MapsAcknowledge DEF Acknowledge
  <2>2. CASE /\ ack' = ack /\ pc \notin Open /\ pc' \notin Open
             /\ UNCHANGED <<dir, images>> \/ \E x : Entry(x, None)
    <3>1. CASE UNCHANGED <<dir, images>>
      BY <2>2, <3>1, MapsQuiet
    <3>2. ASSUME NEW x, Entry(x, None) PROVE Unreplaced
      BY <2>2, <3>2, MapsEntry
    <3>. QED
      BY <2>2, <3>1, <3>2
  <2>. QED
    BY <1>7, <2>1, <2>2 DEF Finalize, Step, Goto, EntryIf, Open
<1>8. CASE InstallFails
  <2>1. n \in Attempt /\ tx[n].backup \in Backup
    BY <1>8 DEF InstallFails, IInv, TypeInv, TypeOK
  <2>2. ack' = ack /\ EntryIf(dir[tx[n].backup] = Db(n), tx[n].backup, None)
    BY <1>8 DEF InstallFails, Goto
  <2>. QED
    BY <2>1, <2>2, MapsUnbind
<1>. QED
  BY <1>1, <1>2, <1>3, <1>4, <1>5, <1>6, <1>7, <1>8

\* Every step of the restore, of its recovery and of the crashes between is a step of the
\* atomic replacement, or leaves unchanged what a start would find.
LEMMA MapsNext ==
    ASSUME IInv, IInv', Ordered, [Next]_vars
    PROVE  [Atomic!Next]_(Atomic!vars)
<1>1. CASE UNCHANGED vars
  BY <1>1, MapsQuiet DEF vars, Unreplaced, Atomic!Next
<1>2. CASE Serve
  BY <1>2, MapsSync DEF Serve, Step, Goto, Unreplaced, Atomic!Next
<1>3. CASE Crash
  BY <1>3, MapsQuiet DEF Crash, Goto, Unreplaced, Atomic!Next
<1>4. CASE CreateDatabase \/ PowerLoss
  BY <1>4, MapsCreate, MapsPowerLoss DEF Atomic!Next
<1>5. CASE Unreplaced
  BY <1>5 DEF Unreplaced, Atomic!Next
<1>6. CASE pc = "link" /\ Entry("live", Db(n)) /\ UNCHANGED ack
  BY <1>6, MapsLink DEF Atomic!Next
<1>. QED
  BY <1>1, <1>2, <1>3, <1>4, <1>5, <1>6, MapsRecovery, MapsInstall DEF Next

\* installExactRestore and recoverRestoreTransaction replace the database atomically: the
\* directory entries they change one by one implement AtomicRestore, for every number of
\* attempts, of crashes and of power losses, where directory changes reach the disk in
\* their order.
THEOREM RestoreIsAtomic == Ordered => (Spec => ReplacesAtomically)
<1>. SUFFICES ASSUME Ordered PROVE Spec => Atomic!Spec
  BY DEF ReplacesAtomically
<1>1. IInv /\ IInv' /\ [Next]_vars => [Atomic!Next]_(Atomic!vars)
  BY MapsNext
<1>2. Spec => []IInv
  BY Invariant
<1>. QED
  BY MapsInit, <1>1, <1>2, PTL DEF Spec, Atomic!Spec
=============================================================================
