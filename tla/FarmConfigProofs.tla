--------------------------- MODULE FarmConfigProofs ---------------------------
(***************************************************************************)
(* What TLAPS proves of FarmConfig for every set of rows, Hosts and        *)
(* operators and every number of transactions.                             *)
(***************************************************************************)
EXTENDS FarmConfig, WellFoundedInduction, TLAPS

\* What every database between two transactions is, and what the operator's
\* request says of the row it was made from.
Consistent(d) == WellFormed(d) /\ ReferencesIn(d) /\ ExclusiveIn(d) /\ RestoringIn(d)
EditOK ==
    edit # None =>
        /\ edit.kind = "workload" =>
              edit.id \in WorkloadId /\ Live(edit.row) /\ edit.row.content \in Work
        /\ edit.kind = "hold" => edit.id \in Host
FarmInv == Consistent(db) /\ EditOK

\* What a transaction makes of a database d may be n.
Follows(d, n) == Consistent(n) /\ KeepsPlans(d, n)

(***************************************************************************)
(* Tables.                                                                 *)
(***************************************************************************)
RowColumns == {"rev", "content"}
IsRow(r, columns) == r = [c \in columns |-> r[c]] /\ r.rev \in Int

\* A table in which one row is replaced by a row is a table, and the others stay.
LEMMA RowWrite ==
  ASSUME NEW ids, NEW columns, NEW t, IsTable(t, ids, columns),
         NEW k \in ids, NEW r, IsRow(r, columns)
  PROVE  /\ IsTable([t EXCEPT ![k] = r], ids, columns)
         /\ [t EXCEPT ![k] = r][k] = r
         /\ \A i \in ids : i # k => [t EXCEPT ![k] = r][i] = t[i]
  <1>. DEFINE u == [t EXCEPT ![k] = r]
  <1>1. u = [i \in ids |-> IF i = k THEN r ELSE t[i]]
    BY DEF IsTable
  <1>. HIDE DEF u
  <1>2. u[k] = r /\ \A i \in ids : i # k => u[i] = t[i]
    BY <1>1
  <1>3. \A i \in ids : u[i] = [c \in columns |-> u[i][c]] /\ u[i].rev \in Int
    <2>. SUFFICES ASSUME NEW i \in ids
                  PROVE  u[i] = [c \in columns |-> u[i][c]] /\ u[i].rev \in Int
      OBVIOUS
    <2>1. CASE i = k
      BY <1>2, <2>1 DEF IsRow
    <2>2. CASE i # k
      BY <1>2, <2>2 DEF IsTable
    <2>. QED
      BY <2>1, <2>2
  <1>4. u = [i \in ids |-> u[i]]
    BY <1>1
  <1>. QED
    BY <1>2, <1>3, <1>4 DEF IsTable, u

\* The rows the operations make are rows, live but for the deleted ones.
LEMMA FreshRow ==
  ASSUME NEW c
  PROVE  /\ IsRow(NewRow(c), RowColumns) /\ Live(NewRow(c)) /\ NewRow(c).content = c
         /\ IsRow(NoRow, RowColumns) /\ ~Live(NoRow)
  BY DEF IsRow, RowColumns, NewRow, NoRow, Live

\* A row written again with the content c.
LEMMA RevisedRow ==
  ASSUME NEW c, NEW r, IsRow(r, RowColumns)
  PROVE  /\ IsRow(Revised(r, c), RowColumns) /\ Revised(r, c).content = c
         /\ Live(r) => Live(Revised(r, c))
  <1>. DEFINE n == Revised(r, c)
  <1>1. r = [x \in RowColumns |-> r[x]] /\ r.rev \in Int
    BY DEF IsRow
  <1>2. n.rev = r.rev + 1 /\ n.content = c /\ n = [x \in RowColumns |-> n[x]]
    BY <1>1 DEF Revised, RowColumns
  <1>. QED
    BY <1>1, <1>2 DEF IsRow, Live

\* A row whose content was erased.
LEMMA ErasedRow ==
  ASSUME NEW columns, "rev" \in columns, NEW r, IsRow(r, columns)
  PROVE  IsRow(Erased(r), columns) /\ ~Live(Erased(r))
  BY DEF IsRow, Erased, Live

\* A commit adds nothing but the transaction's number.
LEMMA CommitFollows ==
  ASSUME NEW n, Follows(db, n), Commit(n)
  PROVE  Follows(db, db')
  <1>1. db' = [n EXCEPT !.revision = db.revision + 1]
    BY DEF Commit
  <1>2. n = [t \in TableName |-> n[t]]
    BY DEF Follows, Consistent, WellFormed
  <1>3. /\ db' = [t \in TableName |-> db'[t]]
        /\ db'.pools = n.pools /\ db'.wallets = n.wallets /\ db'.profiles = n.profiles
        /\ db'.settings = n.settings /\ db'.workloads = n.workloads
        /\ db'.snapshots = n.snapshots /\ db'.barriers = n.barriers
        /\ db'.restoreRequired = n.restoreRequired
    BY <1>1, <1>2 DEF TableName
  <1>4. Workloads(db') = Workloads(n) /\ \A w : Content(db', w) = Content(n, w)
    BY <1>3 DEF Workloads, Content
  <1>5. WellFormed(db')
    BY <1>3, <1>4 DEF Follows, Consistent, WellFormed
  <1>6. ReferencesIn(db') /\ ExclusiveIn(db') /\ RestoringIn(db')
    BY <1>3, <1>4 DEF Follows, Consistent, ReferencesIn, References, ExclusiveIn, RestoringIn
  <1>. QED
    BY <1>3, <1>5, <1>6 DEF Follows, Consistent, KeepsPlans

(***************************************************************************)
(* Generations.                                                            *)
(***************************************************************************)

\* Workloads with the same rows but for generation and hash, and plans added
\* for generations no workload has had: the invariant does not see the
\* difference.
LEMMA GenerationsFollow ==
  ASSUME NEW d, Consistent(d), NEW rows, NEW plans,
         IsTable(rows, WorkloadId, {"rev", "content", "gen", "hash"}),
         \A w \in WorkloadId :
            /\ rows[w].rev = d.workloads[w].rev /\ rows[w].content = d.workloads[w].content
            /\ rows[w].gen \in Nat /\ d.workloads[w].gen <= rows[w].gen,
         \A k \in DOMAIN d.snapshots : k \in DOMAIN plans /\ plans[k] = d.snapshots[k],
         \A k \in DOMAIN plans \ DOMAIN d.snapshots :
            k \in WorkloadId \X Nat /\ k[2] <= rows[k[1]].gen
  PROVE  Follows(d, [d EXCEPT !.workloads = rows, !.snapshots = plans])
  <1>. DEFINE n == [d EXCEPT !.workloads = rows, !.snapshots = plans]
  <1>1. d = [t \in TableName |-> d[t]]
    BY DEF Consistent, WellFormed
  <1>2. /\ n = [t \in TableName |-> n[t]]
        /\ n.workloads = rows /\ n.snapshots = plans
        /\ n.pools = d.pools /\ n.wallets = d.wallets /\ n.profiles = d.profiles
        /\ n.settings = d.settings /\ n.barriers = d.barriers
        /\ n.restoreRequired = d.restoreRequired
    BY <1>1 DEF TableName
  <1>. HIDE DEF n
  <1>3. /\ Workloads(n) = Workloads(d)
        /\ \A w \in WorkloadId : Content(n, w) = Content(d, w)
    BY <1>2 DEF Workloads, Content, Live
  <1>4. \A k \in DOMAIN n.snapshots :
          k \in WorkloadId \X Nat /\ k[2] <= n.workloads[k[1]].gen
    <2>. SUFFICES ASSUME NEW k \in DOMAIN d.snapshots
                  PROVE  k \in WorkloadId \X Nat /\ k[2] <= rows[k[1]].gen
      BY <1>2
    <2>1. k \in WorkloadId \X Nat /\ k[2] <= d.workloads[k[1]].gen
      BY DEF Consistent, WellFormed
    <2>2. d.workloads[k[1]].gen \in Nat /\ rows[k[1]].gen \in Nat
      BY <2>1 DEF Consistent, WellFormed
    <2>. QED
      BY <2>1, <2>2
  <1>5. WellFormed(n)
    BY <1>2, <1>3, <1>4 DEF Consistent, WellFormed, Workloads
  <1>6. ReferencesIn(n)
    BY <1>2, <1>3 DEF Consistent, ReferencesIn, References, Workloads
  <1>7. ExclusiveIn(n) /\ RestoringIn(n)
    BY <1>2, <1>3 DEF Consistent, ExclusiveIn, RestoringIn, Workloads
  <1>. QED
    BY <1>2, <1>5, <1>6, <1>7 DEF Follows, Consistent, KeepsPlans, n

\* New generations, with plans or without, of whatever workloads have moved.
LEMMA NewGenerationsFollow ==
  ASSUME NEW d, Consistent(d), NEW moved, moved \subseteq WorkloadId
  PROVE  Follows(d, NewGenerations(d, moved))
  <1>. DEFINE rows == [w \in WorkloadId |->
                          IF w \in moved
                          THEN [d.workloads[w] EXCEPT !.gen = @ + 1, !.hash = Resolve(d, w)]
                          ELSE d.workloads[w]]
              added == {<<w, rows[w].gen>> : w \in {w \in moved : Ready(rows[w].hash)}}
              plans == [k \in DOMAIN d.snapshots \cup added |->
                           IF k \in added THEN rows[k[1]].hash ELSE d.snapshots[k]]
  <1>1. NewGenerations(d, moved) = [d EXCEPT !.workloads = rows, !.snapshots = plans]
    BY DEF NewGenerations
  <1>2. ASSUME NEW w \in WorkloadId
        PROVE  /\ d.workloads[w] = [c \in {"rev", "content", "gen", "hash"} |-> d.workloads[w][c]]
               /\ d.workloads[w].rev \in Int /\ d.workloads[w].gen \in Nat
    BY DEF Consistent, WellFormed, IsTable
  <1>3. ASSUME NEW w \in WorkloadId
        PROVE  /\ rows[w] = [c \in {"rev", "content", "gen", "hash"} |-> rows[w][c]]
               /\ rows[w].rev = d.workloads[w].rev /\ rows[w].content = d.workloads[w].content
               /\ rows[w].gen \in Nat /\ d.workloads[w].gen <= rows[w].gen
               /\ w \in moved => rows[w].gen = d.workloads[w].gen + 1
    <2>. DEFINE r == d.workloads[w]
    <2>1. CASE w \in moved
      <3>1. rows[w] = [r EXCEPT !.gen = r.gen + 1, !.hash = Resolve(d, w)]
        BY <2>1
      <3>2. r = [c \in {"rev", "content", "gen", "hash"} |-> r[c]] /\ r.gen \in Nat
        BY <1>2
      <3>. HIDE DEF rows, r
      <3>3. rows[w].rev = r.rev /\ rows[w].content = r.content /\ rows[w].gen = r.gen + 1
        BY <3>1, <3>2
      <3>4. rows[w] = [c \in {"rev", "content", "gen", "hash"} |-> rows[w][c]]
        BY <3>1, <3>2
      <3>5. r.gen + 1 \in Nat /\ r.gen <= r.gen + 1
        BY <3>2
      <3>. QED
        BY <3>3, <3>4, <3>5, Zenon DEF r
    <2>2. CASE w \notin moved
      BY <1>2, <2>2
    <2>. QED
      BY <2>1, <2>2
  <1>4. IsTable(rows, WorkloadId, {"rev", "content", "gen", "hash"})
    BY <1>2, <1>3 DEF IsTable
  <1>. HIDE DEF rows
  <1>5. \A k \in added : /\ k \in WorkloadId \X Nat /\ k[2] <= rows[k[1]].gen
                         /\ k \notin DOMAIN d.snapshots
    <2>. SUFFICES ASSUME NEW w \in moved
                  PROVE  /\ rows[w].gen \in Nat
                         /\ <<w, rows[w].gen>> \notin DOMAIN d.snapshots
      BY <1>3
    <2>1. rows[w].gen = d.workloads[w].gen + 1 /\ d.workloads[w].gen \in Nat
      BY <1>2, <1>3
    <2>. QED
      BY <2>1 DEF Consistent, WellFormed
  <1>6. \A k \in DOMAIN d.snapshots : k \in DOMAIN plans /\ plans[k] = d.snapshots[k]
    BY <1>5
  <1>7. \A k \in DOMAIN plans \ DOMAIN d.snapshots :
           k \in WorkloadId \X Nat /\ k[2] <= rows[k[1]].gen
    BY <1>5
  <1>. HIDE DEF plans, added
  <1>8. Follows(d, [d EXCEPT !.workloads = rows, !.snapshots = plans])
    BY <1>3, <1>4, <1>6, <1>7, GenerationsFollow
  <1>. QED
    BY <1>1, <1>8

\* A propagation only makes new generations.
LEMMA PropagateFollows ==
  ASSUME NEW d, Consistent(d), NEW ws, ws \subseteq WorkloadId
  PROVE  Follows(d, Propagate(d, ws))
  BY NewGenerationsFollow DEF Propagate, Moved

\* A plan for a generation that has none.
LEMMA SnapshotFollows ==
  ASSUME NEW d, Consistent(d), NEW w \in WorkloadId, NEW hash,
         <<w, d.workloads[w].gen>> \notin DOMAIN d.snapshots
  PROVE  Follows(d, Snapshot(d, w, hash))
  <1>. DEFINE key == <<w, d.workloads[w].gen>>
              plans == [k \in DOMAIN d.snapshots \cup {key} |->
                           IF k = key THEN hash ELSE d.snapshots[k]]
  <1>1. Snapshot(d, w, hash) = [d EXCEPT !.workloads = d.workloads, !.snapshots = plans]
    BY DEF Snapshot, Consistent, WellFormed, TableName
  <1>2. /\ IsTable(d.workloads, WorkloadId, {"rev", "content", "gen", "hash"})
        /\ \A v \in WorkloadId :
              d.workloads[v].gen \in Nat /\ d.workloads[v].gen <= d.workloads[v].gen
    BY DEF Consistent, WellFormed
  <1>3. \A k \in DOMAIN d.snapshots : k \in DOMAIN plans /\ plans[k] = d.snapshots[k]
    OBVIOUS
  <1>4. \A k \in DOMAIN plans \ DOMAIN d.snapshots :
           k \in WorkloadId \X Nat /\ k[2] <= d.workloads[k[1]].gen
    BY <1>2
  <1>. HIDE DEF plans
  <1>5. Follows(d, [d EXCEPT !.workloads = d.workloads, !.snapshots = plans])
    BY <1>2, <1>3, <1>4, GenerationsFollow
  <1>. QED
    BY <1>1, <1>5

\* Two transactions' changes made one after the other.
LEMMA FollowsTrans ==
  ASSUME NEW d, NEW n, NEW m, Follows(d, n), Follows(n, m)
  PROVE  Follows(d, m)
  BY DEF Follows, KeepsPlans

\* A change of configuration with its propagation.
LEMMA CommitPropagatedFollows ==
  ASSUME NEW n, Follows(db, n), NEW ws, ws \subseteq WorkloadId, CommitPropagated(n, ws)
  PROVE  Follows(db, db')
  BY PropagateFollows, FollowsTrans, CommitFollows DEF CommitPropagated, Follows

(***************************************************************************)
(* Writes to one table.                                                    *)
(***************************************************************************)
\* A Profile's Pool and WalletRef are ids.
LEMMA ReferredIds ==
  ASSUME NEW c \in ProfileContent
  PROVE  c.pool \in Pool /\ c.wallet \in Wallet
  BY FarmAssumption

\* A Pool is written: it stays, or no Profile refers to it.
LEMMA PoolWrite ==
  ASSUME NEW d, Consistent(d), NEW p \in Pool, NEW r, IsRow(r, RowColumns),
         Live(r) \/ \A f \in Profile :
            Live(d.profiles[f]) => d.profiles[f].content.pool # p
  PROVE  Follows(d, [d EXCEPT !.pools[p] = r])
  <1>. DEFINE n == [d EXCEPT !.pools[p] = r]
  <1>1. /\ n = [t \in TableName |-> n[t]]
        /\ n.pools = [d.pools EXCEPT ![p] = r]
        /\ n.wallets = d.wallets
        /\ n.profiles = d.profiles
        /\ n.settings = d.settings
        /\ n.workloads = d.workloads
        /\ n.snapshots = d.snapshots
        /\ n.barriers = d.barriers
        /\ n.restoreRequired = d.restoreRequired
    BY DEF Consistent, WellFormed, TableName
  <1>. HIDE DEF n
  <1>2. IsTable(d.pools, Pool, RowColumns)
    BY DEF Consistent, WellFormed, RowColumns
  <1>. HIDE DEF RowColumns
  <1>3. /\ IsTable(n.pools, Pool, RowColumns) /\ n.pools[p] = r
        /\ \A q \in Pool : q # p => n.pools[q] = d.pools[q]
    <2>1. n.pools = [d.pools EXCEPT ![p] = r]
      BY <1>1
    <2>. QED
      BY <1>2, <2>1, RowWrite
  <1>4. Workloads(n) = Workloads(d) /\ \A w : Content(n, w) = Content(d, w)
    BY <1>1 DEF Workloads, Content
  <1>5. WellFormed(n)
    BY <1>1, <1>3, <1>4 DEF Consistent, WellFormed, RowColumns
  <1>6. ReferencesIn(n)
    <2>1. \A f \in Profile : Live(n.profiles[f]) => References(n, n.profiles[f].content)
      <3>. SUFFICES ASSUME NEW f \in Profile, Live(d.profiles[f])
                    PROVE  References(n, d.profiles[f].content)
        BY <1>1
      <3>1. d.profiles[f].content.pool \in Pool /\ d.profiles[f].content.wallet \in Wallet
        BY ReferredIds DEF Consistent, WellFormed
      <3>2. References(d, d.profiles[f].content)
        BY DEF Consistent, ReferencesIn
      <3>. QED
        BY <1>1, <1>3, <3>1, <3>2 DEF References
    <2>. QED
      BY <1>1, <1>4, <2>1 DEF Consistent, ReferencesIn
  <1>7. ExclusiveIn(n) /\ RestoringIn(n)
    BY <1>1, <1>4 DEF Consistent, ExclusiveIn, RestoringIn
  <1>. QED
    BY <1>1, <1>5, <1>6, <1>7 DEF Follows, Consistent, KeepsPlans, n

\* A WalletRef, in the same way.
LEMMA WalletWrite ==
  ASSUME NEW d, Consistent(d), NEW k \in Wallet, NEW r, IsRow(r, RowColumns),
         Live(r) \/ \A f \in Profile :
            Live(d.profiles[f]) => d.profiles[f].content.wallet # k
  PROVE  Follows(d, [d EXCEPT !.wallets[k] = r])
  <1>. DEFINE n == [d EXCEPT !.wallets[k] = r]
  <1>1. /\ n = [t \in TableName |-> n[t]]
        /\ n.wallets = [d.wallets EXCEPT ![k] = r]
        /\ n.pools = d.pools
        /\ n.profiles = d.profiles
        /\ n.settings = d.settings
        /\ n.workloads = d.workloads
        /\ n.snapshots = d.snapshots
        /\ n.barriers = d.barriers
        /\ n.restoreRequired = d.restoreRequired
    BY DEF Consistent, WellFormed, TableName
  <1>. HIDE DEF n
  <1>2. IsTable(d.wallets, Wallet, RowColumns)
    BY DEF Consistent, WellFormed, RowColumns
  <1>. HIDE DEF RowColumns
  <1>3. /\ IsTable(n.wallets, Wallet, RowColumns) /\ n.wallets[k] = r
        /\ \A q \in Wallet : q # k => n.wallets[q] = d.wallets[q]
    <2>1. n.wallets = [d.wallets EXCEPT ![k] = r]
      BY <1>1
    <2>. QED
      BY <1>2, <2>1, RowWrite
  <1>4. Workloads(n) = Workloads(d) /\ \A w : Content(n, w) = Content(d, w)
    BY <1>1 DEF Workloads, Content
  <1>5. WellFormed(n)
    BY <1>1, <1>3, <1>4 DEF Consistent, WellFormed, RowColumns
  <1>6. ReferencesIn(n)
    <2>1. \A f \in Profile : Live(n.profiles[f]) => References(n, n.profiles[f].content)
      <3>. SUFFICES ASSUME NEW f \in Profile, Live(d.profiles[f])
                    PROVE  References(n, d.profiles[f].content)
        BY <1>1
      <3>1. d.profiles[f].content.pool \in Pool /\ d.profiles[f].content.wallet \in Wallet
        BY ReferredIds DEF Consistent, WellFormed
      <3>2. References(d, d.profiles[f].content)
        BY DEF Consistent, ReferencesIn
      <3>. QED
        BY <1>1, <1>3, <3>1, <3>2 DEF References
    <2>. QED
      BY <1>1, <1>4, <2>1 DEF Consistent, ReferencesIn
  <1>7. ExclusiveIn(n) /\ RestoringIn(n)
    BY <1>1, <1>4 DEF Consistent, ExclusiveIn, RestoringIn
  <1>. QED
    BY <1>1, <1>5, <1>6, <1>7 DEF Follows, Consistent, KeepsPlans, n

\* A MiningProfile is written: with references that exist, or unused.
LEMMA ProfileWrite ==
  ASSUME NEW d, Consistent(d), NEW f \in Profile, NEW r, IsRow(r, RowColumns),
         Live(r) => r.content \in ProfileContent /\ References(d, r.content),
         Live(r) \/ ~ReferencesProfile(d, f)
  PROVE  Follows(d, [d EXCEPT !.profiles[f] = r])
  <1>. DEFINE n == [d EXCEPT !.profiles[f] = r]
  <1>1. /\ n = [t \in TableName |-> n[t]]
        /\ n.profiles = [d.profiles EXCEPT ![f] = r]
        /\ n.pools = d.pools
        /\ n.wallets = d.wallets
        /\ n.settings = d.settings
        /\ n.workloads = d.workloads
        /\ n.snapshots = d.snapshots
        /\ n.barriers = d.barriers
        /\ n.restoreRequired = d.restoreRequired
    BY DEF Consistent, WellFormed, TableName
  <1>. HIDE DEF n
  <1>2. IsTable(d.profiles, Profile, RowColumns)
    BY DEF Consistent, WellFormed, RowColumns
  <1>. HIDE DEF RowColumns
  <1>3. /\ IsTable(n.profiles, Profile, RowColumns) /\ n.profiles[f] = r
        /\ \A q \in Profile : q # f => n.profiles[q] = d.profiles[q]
    <2>1. n.profiles = [d.profiles EXCEPT ![f] = r]
      BY <1>1
    <2>. QED
      BY <1>2, <2>1, RowWrite
  <1>4. Workloads(n) = Workloads(d) /\ \A w : Content(n, w) = Content(d, w)
    BY <1>1 DEF Workloads, Content
  <1>5. WellFormed(n)
    <2>1. \A q \in Profile : Live(n.profiles[q]) => n.profiles[q].content \in ProfileContent
      BY <1>3 DEF Consistent, WellFormed
    <2>. QED
      BY <1>1, <1>3, <1>4, <2>1 DEF Consistent, WellFormed, RowColumns
  <1>6. ReferencesIn(n)
    <2>1. \A q \in Profile : Live(n.profiles[q]) => References(n, n.profiles[q].content)
      BY <1>1, <1>3 DEF Consistent, ReferencesIn, References
    <2>2. \A w \in Workloads(n) : Live(n.profiles[Content(n, w).profile])
      <3>. SUFFICES ASSUME NEW w \in Workloads(d)
                    PROVE  Live(n.profiles[Content(d, w).profile])
        BY <1>4
      <3>1. Content(d, w).profile \in Profile /\ Live(d.profiles[Content(d, w).profile])
        BY DEF Consistent, WellFormed, ReferencesIn, Work
      <3>2. Content(d, w).profile = f => Live(r)
        BY DEF ReferencesProfile, UsersOfProfile
      <3>. QED
        BY <1>3, <3>1, <3>2
    <2>3. \A h \in Host, q \in Profile : Live(n.settings[<<h, q>>]) => Live(n.profiles[q])
      BY <1>1, <1>3 DEF Consistent, ReferencesIn, ReferencesProfile
    <2>. QED
      BY <2>1, <2>2, <2>3 DEF ReferencesIn
  <1>7. ExclusiveIn(n) /\ RestoringIn(n)
    BY <1>1, <1>4 DEF Consistent, ExclusiveIn, RestoringIn
  <1>. QED
    BY <1>1, <1>5, <1>6, <1>7 DEF Follows, Consistent, KeepsPlans, n

\* HostProfileSettings are written: of a Profile that exists, or they go.
LEMMA SettingsWrite ==
  ASSUME NEW d, Consistent(d), NEW h \in Host, NEW f \in Profile,
         NEW r, IsRow(r, RowColumns), Live(r) => Live(d.profiles[f])
  PROVE  Follows(d, [d EXCEPT !.settings[<<h, f>>] = r])
  <1>. DEFINE n == [d EXCEPT !.settings[<<h, f>>] = r]
  <1>1. /\ n = [t \in TableName |-> n[t]]
        /\ n.settings = [d.settings EXCEPT ![<<h, f>>] = r]
        /\ n.pools = d.pools
        /\ n.wallets = d.wallets
        /\ n.profiles = d.profiles
        /\ n.workloads = d.workloads
        /\ n.snapshots = d.snapshots
        /\ n.barriers = d.barriers
        /\ n.restoreRequired = d.restoreRequired
    BY DEF Consistent, WellFormed, TableName
  <1>. HIDE DEF n
  <1>2. IsTable(d.settings, Host \X Profile, RowColumns) /\ <<h, f>> \in Host \X Profile
    BY DEF Consistent, WellFormed, RowColumns
  <1>. HIDE DEF RowColumns
  <1>3. /\ IsTable(n.settings, Host \X Profile, RowColumns) /\ n.settings[<<h, f>>] = r
        /\ \A q \in Host \X Profile : q # <<h, f>> => n.settings[q] = d.settings[q]
    <2>. DEFINE key == <<h, f>>
    <2>1. n.settings = [d.settings EXCEPT ![key] = r] /\ key \in Host \X Profile
      BY <1>1, <1>2
    <2>. HIDE DEF key
    <2>2. /\ IsTable(n.settings, Host \X Profile, RowColumns) /\ n.settings[key] = r
          /\ \A q \in Host \X Profile : q # key => n.settings[q] = d.settings[q]
      BY <1>2, <2>1, RowWrite
    <2>. QED
      BY <2>2 DEF key
  <1>4. Workloads(n) = Workloads(d) /\ \A w : Content(n, w) = Content(d, w)
    BY <1>1 DEF Workloads, Content
  <1>5. WellFormed(n)
    BY <1>1, <1>3, <1>4 DEF Consistent, WellFormed, RowColumns
  <1>6. ReferencesIn(n)
    <2>1. \A j \in Host, q \in Profile : Live(n.settings[<<j, q>>]) => Live(n.profiles[q])
      BY <1>1, <1>3 DEF Consistent, ReferencesIn
    <2>. QED
      BY <1>1, <1>4, <2>1 DEF Consistent, ReferencesIn, References
  <1>7. ExclusiveIn(n) /\ RestoringIn(n)
    BY <1>1, <1>4 DEF Consistent, ExclusiveIn, RestoringIn
  <1>. QED
    BY <1>1, <1>5, <1>6, <1>7 DEF Follows, Consistent, KeepsPlans, n

\* A DesiredWorkload is written: its generation does not go back, and a live
\* one refers to a Profile and claims what no RUNNING one claims.
WorkloadColumns == {"rev", "content", "gen", "hash"}
LEMMA WorkloadWrite ==
  ASSUME NEW d, Consistent(d), NEW w \in WorkloadId, NEW r, IsRow(r, WorkloadColumns),
         r.gen \in Nat, d.workloads[w].gen <= r.gen,
         Live(r) => /\ r.content \in Work /\ Live(d.profiles[r.content.profile])
                    /\ ~ResourceConflict(d, w, r.content)
  PROVE  Follows(d, [d EXCEPT !.workloads[w] = r])
  <1>. DEFINE n == [d EXCEPT !.workloads[w] = r]
  <1>1. /\ n = [t \in TableName |-> n[t]]
        /\ n.workloads = [d.workloads EXCEPT ![w] = r]
        /\ n.pools = d.pools
        /\ n.wallets = d.wallets
        /\ n.profiles = d.profiles
        /\ n.settings = d.settings
        /\ n.snapshots = d.snapshots
        /\ n.barriers = d.barriers
        /\ n.restoreRequired = d.restoreRequired
    BY DEF Consistent, WellFormed, TableName
  <1>. HIDE DEF n
  <1>2. IsTable(d.workloads, WorkloadId, WorkloadColumns)
    BY DEF Consistent, WellFormed, WorkloadColumns
  <1>. HIDE DEF WorkloadColumns
  <1>3. /\ IsTable(n.workloads, WorkloadId, WorkloadColumns) /\ n.workloads[w] = r
        /\ \A v \in WorkloadId : v # w => n.workloads[v] = d.workloads[v]
    <2>1. n.workloads = [d.workloads EXCEPT ![w] = r]
      BY <1>1
    <2>. QED
      BY <1>2, <2>1, RowWrite
  <1>4. /\ \A v \in Workloads(n) \ {w} :
              v \in Workloads(d) /\ v \in WorkloadId /\ Content(n, v) = Content(d, v)
        /\ w \in Workloads(n) => Live(r) /\ Content(n, w) = r.content
    BY <1>3 DEF Workloads, Content
  <1>5. WellFormed(n)
    <2>1. \A v \in WorkloadId : n.workloads[v].gen \in Nat
      BY <1>3 DEF Consistent, WellFormed
    <2>2. \A v \in Workloads(n) : Content(n, v) \in Work
      BY <1>4 DEF Consistent, WellFormed
    <2>3. \A k \in DOMAIN n.snapshots :
             k \in WorkloadId \X Nat /\ k[2] <= n.workloads[k[1]].gen
      <3>. SUFFICES ASSUME NEW k \in DOMAIN d.snapshots
                    PROVE  k \in WorkloadId \X Nat /\ k[2] <= n.workloads[k[1]].gen
        BY <1>1
      <3>1. k \in WorkloadId \X Nat /\ k[2] <= d.workloads[k[1]].gen
        BY DEF Consistent, WellFormed
      <3>2. d.workloads[k[1]].gen \in Nat
        BY <3>1 DEF Consistent, WellFormed
      <3>3. CASE k[1] = w
        BY <1>3, <3>1, <3>2, <3>3
      <3>4. CASE k[1] # w
        BY <1>3, <3>1, <3>4
      <3>. QED
        BY <3>3, <3>4
    <2>. QED
      BY <1>1, <1>3, <2>1, <2>2, <2>3 DEF Consistent, WellFormed, WorkloadColumns
  <1>6. ReferencesIn(n)
    <2>1. \A v \in Workloads(n) : Live(n.profiles[Content(n, v).profile])
      BY <1>1, <1>4 DEF Consistent, ReferencesIn
    <2>. QED
      BY <1>1, <2>1 DEF Consistent, ReferencesIn, References
  <1>7. ExclusiveIn(n)
    <2>. SUFFICES ASSUME NEW u \in Workloads(n), NEW v \in Workloads(n), u # v,
                         Content(n, u).run, Content(n, v).run
                  PROVE  ~Overlap(Content(n, u), Content(n, v))
      BY DEF ExclusiveIn
    <2>1. CASE u # w /\ v # w
      BY <1>4, <2>1 DEF Consistent, ExclusiveIn
    <2>2. CASE u = w
      BY <1>4, <2>2 DEF ResourceConflict
    <2>3. CASE v = w
      <3>1. ~Overlap(Content(n, v), Content(n, u))
        BY <1>4, <2>3 DEF ResourceConflict
      <3>. QED
        BY <3>1 DEF Overlap
    <2>. QED
      BY <2>1, <2>2, <2>3
  <1>8. RestoringIn(n)
    BY <1>1 DEF Consistent, RestoringIn
  <1>. QED
    BY <1>1, <1>5, <1>6, <1>7, <1>8 DEF Follows, Consistent, KeepsPlans, n

\* Barriers are written, and with them whether a restore is being reconciled.
LEMMA BarrierWrite ==
  ASSUME NEW d, Consistent(d), NEW b, IsTable(b, Host, {"rev", "status"}),
         \A h \in Host : b[h].status = "PENDING" => Live(b[h]),
         NEW required, required <=> \E h \in Host : Live(b[h])
  PROVE  Follows(d, [d EXCEPT !.barriers = b, !.restoreRequired = required])
  <1>. DEFINE n == [d EXCEPT !.barriers = b, !.restoreRequired = required]
  <1>1. /\ n = [t \in TableName |-> n[t]]
        /\ n.barriers = b /\ n.restoreRequired = required
        /\ n.pools = d.pools /\ n.wallets = d.wallets /\ n.profiles = d.profiles
        /\ n.settings = d.settings /\ n.workloads = d.workloads
        /\ n.snapshots = d.snapshots
    BY DEF Consistent, WellFormed, TableName
  <1>. HIDE DEF n
  <1>2. Workloads(n) = Workloads(d) /\ \A w : Content(n, w) = Content(d, w)
    BY <1>1 DEF Workloads, Content
  <1>3. WellFormed(n)
    BY <1>1, <1>2 DEF Consistent, WellFormed
  <1>4. ReferencesIn(n) /\ ExclusiveIn(n)
    BY <1>1, <1>2 DEF Consistent, ReferencesIn, References, ExclusiveIn
  <1>5. RestoringIn(n)
    BY <1>1 DEF RestoringIn
  <1>. QED
    BY <1>1, <1>3, <1>4, <1>5 DEF Follows, Consistent, KeepsPlans, n

\* Runtime bindings, Maintenance Holds and incidents are written: nothing of
\* the invariant is about them.
LEMMA OtherWrite ==
  ASSUME NEW d, Consistent(d), NEW bindings, NEW holds, NEW incidents
  PROVE  Follows(d, [d EXCEPT !.bindings = bindings, !.holds = holds,
                              !.incidents = incidents])
  <1>. DEFINE n == [d EXCEPT !.bindings = bindings, !.holds = holds,
                             !.incidents = incidents]
  <1>1. /\ n = [t \in TableName |-> n[t]]
        /\ n.pools = d.pools /\ n.wallets = d.wallets /\ n.profiles = d.profiles
        /\ n.settings = d.settings /\ n.workloads = d.workloads
        /\ n.snapshots = d.snapshots /\ n.barriers = d.barriers
        /\ n.restoreRequired = d.restoreRequired
    BY DEF Consistent, WellFormed, TableName
  <1>. HIDE DEF n
  <1>2. Workloads(n) = Workloads(d) /\ \A w : Content(n, w) = Content(d, w)
    BY <1>1 DEF Workloads, Content
  <1>3. WellFormed(n)
    BY <1>1, <1>2 DEF Consistent, WellFormed
  <1>4. ReferencesIn(n) /\ ExclusiveIn(n) /\ RestoringIn(n)
    BY <1>1, <1>2 DEF Consistent, ReferencesIn, References, ExclusiveIn, RestoringIn
  <1>. QED
    BY <1>1, <1>3, <1>4 DEF Follows, Consistent, KeepsPlans, n

\* What a database between transactions says of one workload.
LEMMA WorkloadFacts ==
  ASSUME NEW d, Consistent(d), NEW w \in WorkloadId
  PROVE  /\ IsRow(d.workloads[w], WorkloadColumns) /\ d.workloads[w].gen \in Nat
         /\ \A g : <<w, g>> \in DOMAIN d.snapshots => g \in Nat /\ g <= d.workloads[w].gen
         /\ w \in Workloads(d) =>
               /\ Live(d.workloads[w]) /\ Content(d, w) \in Work
               /\ Live(d.profiles[Content(d, w).profile])
               /\ ~ResourceConflict(d, w, Content(d, w))
  <1>1. IsRow(d.workloads[w], WorkloadColumns) /\ d.workloads[w].gen \in Nat
    BY DEF Consistent, WellFormed, IsTable, IsRow, WorkloadColumns
  <1>2. \A g : <<w, g>> \in DOMAIN d.snapshots => g \in Nat /\ g <= d.workloads[w].gen
    BY DEF Consistent, WellFormed
  <1>3. w \in Workloads(d) =>
           /\ Live(d.workloads[w]) /\ Content(d, w) \in Work
           /\ Live(d.profiles[Content(d, w).profile])
    BY DEF Consistent, WellFormed, ReferencesIn, Workloads
  <1>4. w \in Workloads(d) => ~ResourceConflict(d, w, Content(d, w))
    BY DEF Consistent, ExclusiveIn, ResourceConflict
  <1>. QED
    BY <1>1, <1>2, <1>3, <1>4

(***************************************************************************)
(* What a workload is to run, and its plans.                               *)
(***************************************************************************)

\* A set of naturals that is not empty has a least member.
LEMMA LeastNatural ==
  ASSUME NEW T, T \subseteq Nat, T # {}
  PROVE  \E m \in T : \A n \in T : m <= n
  <1>. DEFINE less == {p \in Nat \X Nat : p[1] < p[2]}
  <1>1. IsWellFoundedOn(less, Nat)
    BY NatLessThanWellFounded DEF OpToRel
  <1>. HIDE DEF less
  <1>2. PICK m \in T : \A n \in T : ~ (<<n, m>> \in less)
    BY <1>1, WFMin
  <1>3. ASSUME NEW n \in T PROVE m <= n
    <2>1. <<n, m>> \notin less /\ n \in Nat /\ m \in Nat
      BY <1>2
    <2>. QED
      BY <2>1 DEF less
  <1>. QED
    BY <1>2, <1>3

\* A set of naturals with a bound has a greatest member.
LEMMA GreatestNatural ==
  ASSUME NEW T, T \subseteq Nat, T # {}, NEW b \in Nat, \A n \in T : n <= b
  PROVE  Max(T) \in T /\ \A n \in T : n <= Max(T)
  <1>. DEFINE bounds == {m \in Nat : \A n \in T : n <= m}
  <1>1. PICK m \in bounds : \A n \in bounds : m <= n
    BY LeastNatural
  <1>2. m \in T
    <2>1. CASE m = 0
      <3>1. PICK n \in T : n \in Nat /\ n <= m
        BY <1>1
      <3>. QED
        BY <2>1, <3>1
    <2>2. CASE m # 0
      <3>1. m - 1 \in Nat /\ ~(m <= m - 1)
        BY <1>1, <2>2
      <3>2. PICK n \in T : ~(n <= m - 1)
        BY <1>1, <3>1
      <3>. QED
        BY <1>1, <3>1, <3>2
    <2>. QED
      BY <2>1, <2>2
  <1>3. \E x \in T : \A y \in T : x >= y
    BY <1>1, <1>2
  <1>4. Max(T) \in T /\ \A y \in T : Max(T) >= y
    BY <1>3 DEF Max
  <1>. QED
    BY <1>4

\* The greatest member, when it is known.
LEMMA GreatestIs ==
  ASSUME NEW T, T \subseteq Nat, NEW m \in T, \A n \in T : n <= m
  PROVE  Max(T) = m
  <1>1. Max(T) \in T /\ \A n \in T : n <= Max(T)
    BY GreatestNatural
  <1>2. Max(T) \in Nat /\ m \in Nat /\ m <= Max(T) /\ Max(T) <= m
    BY <1>1
  <1>. QED
    BY <1>2

\* The generations of a workload that have a plan.
LEMMA GenerationsAre ==
  ASSUME NEW d, Consistent(d), NEW w \in WorkloadId
  PROVE  /\ \A g : g \in Generations(d, w) <=> <<w, g>> \in DOMAIN d.snapshots
         /\ Generations(d, w) \subseteq Nat
         /\ d.workloads[w].gen \in Nat /\ \A g \in Generations(d, w) : g <= d.workloads[w].gen
         /\ Generations(d, w) # {} =>
               Latest(d, w) \in Generations(d, w)
                  /\ \A g \in Generations(d, w) : g <= Latest(d, w)
  <1>1. \A k \in DOMAIN d.snapshots : k \in WorkloadId \X Nat /\ k[2] <= d.workloads[k[1]].gen
    BY DEF Consistent, WellFormed
  <1>2. \A g : g \in Generations(d, w) <=> <<w, g>> \in DOMAIN d.snapshots
    BY <1>1 DEF Generations
  <1>3. /\ Generations(d, w) \subseteq Nat
        /\ d.workloads[w].gen \in Nat /\ \A g \in Generations(d, w) : g <= d.workloads[w].gen
    BY <1>2, WorkloadFacts
  <1>. QED
    BY <1>2, <1>3, GreatestNatural DEF Latest

\* While a workload has the same plans and devices, what its devices are bound to is the
\* same.
LEMMA SameAssignments ==
  ASSUME NEW d, Consistent(d), NEW n, KeepsPlans(d, n), NEW w \in WorkloadId,
         Generations(n, w) = Generations(d, w),
         Content(n, w).devices = Content(d, w).devices
  PROVE  LatestAssignments(n, w) = LatestAssignments(d, w)
  <1>1. Latest(n, w) = Latest(d, w)
    BY DEF Latest
  <1>2. CASE Generations(d, w) = {}
    BY <1>2 DEF LatestAssignments
  <1>3. CASE Generations(d, w) # {}
    <2>1. <<w, Latest(d, w)>> \in DOMAIN d.snapshots
      BY <1>3, GenerationsAre
    <2>2. n.snapshots[<<w, Latest(d, w)>>] = d.snapshots[<<w, Latest(d, w)>>]
      BY <2>1 DEF KeepsPlans
    <2>. QED
      BY <1>1, <2>2 DEF LatestAssignments
  <1>. QED
    BY <1>2, <1>3

\* The rows that a workload refers to say the same in d and in n.
SameConfiguration(d, n, w) ==
  /\ Content(n, w) = Content(d, w) /\ ProfileOf(n, w) = ProfileOf(d, w)
  /\ n.pools[ProfileOf(d, w).pool].content = d.pools[ProfileOf(d, w).pool].content
  /\ n.wallets[ProfileOf(d, w).wallet].content = d.wallets[ProfileOf(d, w).wallet].content
  /\ EffectiveTuning(n, w) = EffectiveTuning(d, w)

\* Then it is resolved in the same way, if it has the same plans.
LEMMA SameResolution ==
  ASSUME NEW d, Consistent(d), NEW n, KeepsPlans(d, n), NEW w \in WorkloadId,
         SameConfiguration(d, n, w), Generations(n, w) = Generations(d, w)
  PROVE  Resolve(n, w) = Resolve(d, w) /\ (Resolvable(n, w) <=> Resolvable(d, w))
  <1>1. LatestAssignments(n, w) = LatestAssignments(d, w)
    BY SameAssignments DEF SameConfiguration
  <1>. QED
    BY <1>1 DEF SameConfiguration, Resolve, ResolveWith, Resolvable

\* What a workload's row says of its plan.
Planned(d, w) ==
  LET row == d.workloads[w]
      plan == <<w, row.gen>>
  IN  /\ plan \in DOMAIN d.snapshots => d.snapshots[plan] = row.hash /\ row.hash.run
      /\ Ready(row.hash) => plan \in DOMAIN d.snapshots

\* A workload is as it should be if its row is what resolving it gives.
LEMMA EffectiveIs ==
  ASSUME NEW d, NEW w
  PROVE  Effective(d, w) <=>
            Resolvable(d, w) /\ d.workloads[w].hash = Resolve(d, w) /\ Planned(d, w)
  <1>1. Resolve(d, w).run = Content(d, w).run
    BY DEF Resolve, ResolveWith
  <1>. QED
    BY <1>1 DEF Effective, Planned, Content

\* The tables that a transaction on workloads leaves alone.
SameTables(d, n) ==
  /\ n.pools = d.pools /\ n.wallets = d.wallets /\ n.profiles = d.profiles
  /\ n.settings = d.settings

\* What new generations are.
LEMMA NewGenerationsAre ==
  ASSUME NEW d, Consistent(d), NEW moved, moved \subseteq WorkloadId,
         NEW n, n = NewGenerations(d, moved)
  PROVE  /\ SameTables(d, n) /\ KeepsPlans(d, n) /\ Consistent(n)
         /\ Workloads(n) = Workloads(d)
         /\ \A w \in WorkloadId :
               /\ Content(n, w) = Content(d, w) /\ n.workloads[w].rev = d.workloads[w].rev
               /\ w \notin moved => n.workloads[w] = d.workloads[w]
               /\ w \in moved => /\ n.workloads[w].gen = d.workloads[w].gen + 1
                                 /\ n.workloads[w].hash = Resolve(d, w)
         /\ \A k : k \in DOMAIN n.snapshots <=>
               \/ k \in DOMAIN d.snapshots
               \/ /\ k[1] \in moved /\ Ready(Resolve(d, k[1]))
                  /\ k = <<k[1], d.workloads[k[1]].gen + 1>>
         /\ \A w \in moved : Ready(Resolve(d, w)) =>
               n.snapshots[<<w, d.workloads[w].gen + 1>>] = Resolve(d, w)
  <1>. DEFINE rows == [w \in WorkloadId |->
                          IF w \in moved
                          THEN [d.workloads[w] EXCEPT !.gen = @ + 1, !.hash = Resolve(d, w)]
                          ELSE d.workloads[w]]
              added == {<<w, rows[w].gen>> : w \in {w \in moved : Ready(rows[w].hash)}}
              plans == [k \in DOMAIN d.snapshots \cup added |->
                           IF k \in added THEN rows[k[1]].hash ELSE d.snapshots[k]]
  <1>1. n = [d EXCEPT !.workloads = rows, !.snapshots = plans]
    BY DEF NewGenerations
  <1>2. Follows(d, n)
    BY NewGenerationsFollow
  <1>3. /\ n.workloads = rows /\ n.snapshots = plans /\ SameTables(d, n)
    BY <1>1 DEF Consistent, WellFormed, TableName, SameTables
  <1>4. ASSUME NEW w \in WorkloadId
        PROVE  /\ rows[w].rev = d.workloads[w].rev /\ rows[w].content = d.workloads[w].content
               /\ w \notin moved => rows[w] = d.workloads[w]
               /\ w \in moved => /\ rows[w].gen = d.workloads[w].gen + 1
                                 /\ rows[w].hash = Resolve(d, w)
    <2>. DEFINE r == d.workloads[w]
    <2>1. r = [c \in {"rev", "content", "gen", "hash"} |-> r[c]]
      BY DEF Consistent, WellFormed, IsTable
    <2>2. w \in moved => rows[w] = [r EXCEPT !.gen = r.gen + 1, !.hash = Resolve(d, w)]
      OBVIOUS
    <2>3. w \notin moved => rows[w] = r
      OBVIOUS
    <2>. HIDE DEF rows, r
    <2>4. w \in moved => /\ rows[w].rev = r.rev /\ rows[w].content = r.content
                         /\ rows[w].gen = r.gen + 1 /\ rows[w].hash = Resolve(d, w)
      BY <2>1, <2>2
    <2>. QED
      BY <2>3, <2>4 DEF r
  <1>. HIDE DEF rows
  <1>5. Workloads(n) = Workloads(d) /\ \A w \in WorkloadId : Content(n, w) = Content(d, w)
    BY <1>3, <1>4 DEF Workloads, Content, Live
  <1>6. \A k : k \in added <=> /\ k[1] \in moved /\ Ready(Resolve(d, k[1]))
                              /\ k = <<k[1], d.workloads[k[1]].gen + 1>>
    BY <1>4
  <1>7. \A k : k \in DOMAIN plans <=> k \in DOMAIN d.snapshots \/ k \in added
    OBVIOUS
  <1>8. \A w \in moved : Ready(Resolve(d, w)) =>
           plans[<<w, d.workloads[w].gen + 1>>] = Resolve(d, w)
    BY <1>4, <1>6
  <1>. HIDE DEF added, plans
  <1>. QED
    BY <1>2, <1>3, <1>4, <1>5, <1>6, <1>7, <1>8 DEF Follows

\* The generations of a workload after new ones were made: its plan of the new one is
\* added, if it has one now.
LEMMA NewGenerationsOf ==
  ASSUME NEW d, Consistent(d), NEW moved, moved \subseteq WorkloadId,
         NEW n, n = NewGenerations(d, moved), NEW w \in WorkloadId
  PROVE  /\ w \in moved /\ Ready(Resolve(d, w)) =>
               \A g : g \in Generations(n, w) <=>
                         g \in Generations(d, w) \/ g = d.workloads[w].gen + 1
         /\ ~(w \in moved /\ Ready(Resolve(d, w))) => Generations(n, w) = Generations(d, w)
  <1>1. /\ \A g : g \in Generations(d, w) <=> <<w, g>> \in DOMAIN d.snapshots
        /\ Consistent(n)
    BY GenerationsAre, NewGenerationsAre
  <1>2. \A g : g \in Generations(n, w) <=> <<w, g>> \in DOMAIN n.snapshots
    BY <1>1, GenerationsAre
  <1>3. \A g : <<w, g>> \in DOMAIN n.snapshots <=>
           \/ <<w, g>> \in DOMAIN d.snapshots
           \/ w \in moved /\ Ready(Resolve(d, w)) /\ g = d.workloads[w].gen + 1
    BY NewGenerationsAre
  <1>. QED
    BY <1>1, <1>2, <1>3

\* A plan that is made at once is of no device, and binds none.
LEMMA ReadyIsUnbound ==
  ASSUME NEW d, NEW w, Ready(Resolve(d, w))
  PROVE  Content(d, w).devices = {} /\ LatestAssignments(d, w) = None
  BY DEF Ready, Resolve, ResolveWith, LatestAssignments

\* The propagation makes effective what it reaches, if it can be resolved and its plan
\* was of its row, and leaves the rest.
LEMMA PropagateEffective ==
  ASSUME NEW d, Consistent(d), NEW ws, ws \subseteq Workloads(d),
         \A w \in ws : Resolvable(d, w) /\ Planned(d, w),
         \A w \in Workloads(d) \ ws : Effective(d, w)
  PROVE  EffectiveIn(Propagate(d, ws))
  <1>. DEFINE moved == Moved(d, ws)
              n == NewGenerations(d, moved)
  <1>1. moved \subseteq ws /\ moved \subseteq WorkloadId
    BY DEF Moved, Workloads
  <1>2. /\ SameTables(d, n) /\ KeepsPlans(d, n) /\ Consistent(n)
        /\ Workloads(n) = Workloads(d)
        /\ \A w \in WorkloadId :
              /\ Content(n, w) = Content(d, w)
              /\ w \notin moved => n.workloads[w] = d.workloads[w]
              /\ w \in moved => /\ n.workloads[w].gen = d.workloads[w].gen + 1
                                /\ n.workloads[w].hash = Resolve(d, w)
        /\ \A k : k \in DOMAIN n.snapshots <=>
              \/ k \in DOMAIN d.snapshots
              \/ /\ k[1] \in moved /\ Ready(Resolve(d, k[1]))
                 /\ k = <<k[1], d.workloads[k[1]].gen + 1>>
        /\ \A w \in moved : Ready(Resolve(d, w)) =>
              n.snapshots[<<w, d.workloads[w].gen + 1>>] = Resolve(d, w)
    BY <1>1, NewGenerationsAre
  <1>3. \A w \in WorkloadId :
           ~(w \in moved /\ Ready(Resolve(d, w))) => Generations(n, w) = Generations(d, w)
    BY <1>1, NewGenerationsOf
  <1>4. \A w \in ws : w \notin moved => d.workloads[w].hash = Resolve(d, w)
    BY DEF Moved
  <1>5. Propagate(d, ws) = n
    BY DEF Propagate
  <1>. HIDE DEF n, moved
  <1>6. SUFFICES ASSUME NEW w \in Workloads(d) PROVE Effective(n, w)
    BY <1>2, <1>5 DEF EffectiveIn
  <1>7. w \in WorkloadId
    BY DEF Workloads
  <1>8. SameConfiguration(d, n, w)
    BY <1>2, <1>7 DEF SameConfiguration, SameTables, ProfileOf, EffectiveTuning
  <1>9. Resolve(n, w) = Resolve(d, w) /\ (Resolvable(n, w) <=> Resolvable(d, w))
    <2>1. CASE w \in moved /\ Ready(Resolve(d, w))
      <3>1. LatestAssignments(d, w) = None /\ Content(d, w).devices = {}
        BY <2>1, ReadyIsUnbound
      <3>2. LatestAssignments(n, w) = None
        BY <1>8, <3>1 DEF LatestAssignments, SameConfiguration
      <3>. QED
        BY <1>8, <3>1, <3>2 DEF SameConfiguration, Resolve, ResolveWith, Resolvable
    <2>2. CASE ~(w \in moved /\ Ready(Resolve(d, w)))
      BY <1>2, <1>3, <1>7, <1>8, <2>2, SameResolution
    <2>. QED
      BY <2>1, <2>2
  <1>10. CASE w \in moved
    <2>1. Resolvable(d, w)
      BY <1>1, <1>10
    <2>2. n.workloads[w].hash = Resolve(d, w) /\ n.workloads[w].gen = d.workloads[w].gen + 1
      BY <1>2, <1>7, <1>10
    <2>3. <<w, d.workloads[w].gen + 1>> \notin DOMAIN d.snapshots
      BY <1>7, WorkloadFacts
    <2>4. /\ <<w, d.workloads[w].gen + 1>> \in DOMAIN n.snapshots <=> Ready(Resolve(d, w))
          /\ Ready(Resolve(d, w)) =>
                n.snapshots[<<w, d.workloads[w].gen + 1>>] = Resolve(d, w)
      BY <1>2, <1>10, <2>3
    <2>5. Planned(n, w)
      BY <2>2, <2>4 DEF Planned, Ready
    <2>. QED
      BY <1>9, <2>1, <2>2, <2>5, EffectiveIs
  <1>11. CASE w \notin moved
    <2>1. Resolvable(d, w) /\ d.workloads[w].hash = Resolve(d, w) /\ Planned(d, w)
      BY <1>4, <1>11, EffectiveIs
    <2>2. n.workloads[w] = d.workloads[w]
      BY <1>2, <1>7, <1>11
    <2>3. \A g : /\ <<w, g>> \in DOMAIN n.snapshots <=> <<w, g>> \in DOMAIN d.snapshots
                 /\ <<w, g>> \in DOMAIN d.snapshots =>
                       n.snapshots[<<w, g>>] = d.snapshots[<<w, g>>]
      BY <1>2, <1>11 DEF KeepsPlans
    <2>4. Planned(n, w)
      BY <2>1, <2>2, <2>3 DEF Planned
    <2>. QED
      BY <1>9, <2>1, <2>2, <2>4, EffectiveIs
  <1>. QED
    BY <1>10, <1>11

\* What a database between transactions says of its plans.
PlansIn(d) == EffectiveIn(d) /\ HardwareIn(d) /\ BoundIn(d)

\* A plan of w is added for a generation after all others, and binds the devices it
\* has in common with the one before to the same hardware.
NewPlan(d, n, w, g) ==
  LET plan == n.snapshots[<<w, g>>]
      last == d.snapshots[<<w, Latest(d, w)>>]
  IN  /\ \A e : e \in Generations(n, w) <=> e \in Generations(d, w) \/ e = g
      /\ \A e \in Generations(d, w) : e < g
      /\ plan.devices # {} =>
            /\ plan.gpu # None /\ DOMAIN plan.gpu = plan.devices
            /\ Generations(d, w) # {} => SameBinding(last, plan)

\* Then bindings keep their hardware.
LEMMA HardwareKept ==
  ASSUME NEW d, Consistent(d), HardwareIn(d), BoundIn(d), NEW n, Follows(d, n),
         \A w \in WorkloadId :
            \/ Generations(n, w) = Generations(d, w)
            \/ \E g \in Nat : NewPlan(d, n, w, g)
  PROVE  HardwareIn(n) /\ BoundIn(n)
  <1>1. Consistent(n) /\ KeepsPlans(d, n)
    BY DEF Follows
  <1>2. ASSUME NEW w \in WorkloadId, NEW g \in Generations(d, w),
               NEW earlier, earlier = {e \in Generations(d, w) : e < g}, earlier # {}
        PROVE  /\ Max(earlier) \in Generations(d, w)
               /\ n.snapshots[<<w, Max(earlier)>>] = d.snapshots[<<w, Max(earlier)>>]
               /\ n.snapshots[<<w, g>>] = d.snapshots[<<w, g>>]
    <2>1. earlier \subseteq Generations(d, w) /\ Generations(d, w) \subseteq Nat
      BY <1>2, GenerationsAre
    <2>2. earlier \subseteq Nat /\ g \in Nat /\ \A e \in earlier : e <= g
      BY <1>2, <2>1
    <2>3. Max(earlier) \in earlier
      BY <1>2, <2>2, GreatestNatural
    <2>4. <<w, g>> \in DOMAIN d.snapshots /\ <<w, Max(earlier)>> \in DOMAIN d.snapshots
      BY <2>1, <2>3, GenerationsAre
    <2>. QED
      BY <1>1, <2>1, <2>3, <2>4 DEF KeepsPlans
  <1>. DEFINE Same(e, w, g) ==
                LET earlier == {x \in Generations(e, w) : x < g}
                IN  earlier # {} =>
                       SameBinding(e.snapshots[<<w, Max(earlier)>>], e.snapshots[<<w, g>>])
  <1>3. ASSUME NEW w \in WorkloadId, NEW g \in Generations(d, w),
               {x \in Generations(n, w) : x < g} = {x \in Generations(d, w) : x < g}
        PROVE  Same(n, w, g)
    <2>. DEFINE earlier == {x \in Generations(d, w) : x < g}
    <2>1. Same(d, w, g)
      BY DEF HardwareIn
    <2>2. earlier # {} =>
             /\ n.snapshots[<<w, Max(earlier)>>] = d.snapshots[<<w, Max(earlier)>>]
             /\ n.snapshots[<<w, g>>] = d.snapshots[<<w, g>>]
      BY <1>2
    <2>. QED
      BY <1>3, <2>1, <2>2
  <1>4. ASSUME NEW w \in WorkloadId, NEW g \in Generations(n, w)
        PROVE  Same(n, w, g)
    <2>1. CASE Generations(n, w) = Generations(d, w)
      BY <1>3, <1>4, <2>1
    <2>2. ASSUME NEW m \in Nat, NewPlan(d, n, w, m) PROVE Same(n, w, g)
      <3>1. /\ \A e : e \in Generations(n, w) <=> e \in Generations(d, w) \/ e = m
            /\ \A e \in Generations(d, w) : e < m
            /\ Generations(d, w) \subseteq Nat
        BY <2>2, GenerationsAre DEF NewPlan
      <3>2. CASE g = m
        <4>1. {x \in Generations(n, w) : x < g} = Generations(d, w)
          BY <3>1, <3>2
        <4>2. Generations(d, w) # {} =>
                 n.snapshots[<<w, Latest(d, w)>>] = d.snapshots[<<w, Latest(d, w)>>]
          BY <1>1, GenerationsAre DEF KeepsPlans
        <4>. DEFINE plan == n.snapshots[<<w, m>>]
                    last == d.snapshots[<<w, Latest(d, w)>>]
        <4>3. plan.devices # {} => plan.gpu # None
                                   /\ (Generations(d, w) # {} => SameBinding(last, plan))
          BY <2>2 DEF NewPlan
        <4>4. CASE plan.devices = {}
          <5>1. SameBinding(n.snapshots[<<w, Max(Generations(d, w))>>], plan)
            BY <4>4 DEF SameBinding
          <5>. QED
            BY <3>2, <4>1, <5>1
        <4>5. CASE plan.devices # {}
          <5>1. Generations(d, w) # {} => SameBinding(n.snapshots[<<w, Latest(d, w)>>], plan)
            BY <4>2, <4>3, <4>5
          <5>. QED
            BY <3>2, <4>1, <5>1 DEF Latest
        <4>. QED
          BY <4>4, <4>5
      <3>3. CASE g # m
        <4>1. g \in Generations(d, w) /\ g < m /\ g \in Nat
          BY <1>4, <3>1, <3>3
        <4>2. {x \in Generations(n, w) : x < g} = {x \in Generations(d, w) : x < g}
          BY <3>1, <4>1
        <4>. QED
          BY <1>3, <4>1, <4>2
      <3>. QED
        BY <3>2, <3>3
    <2>. QED
      BY <2>1, <2>2
  <1>5. BoundIn(n)
    <2>. SUFFICES ASSUME NEW k \in DOMAIN n.snapshots, n.snapshots[k].devices # {}
                  PROVE  /\ n.snapshots[k].gpu # None
                         /\ DOMAIN n.snapshots[k].gpu = n.snapshots[k].devices
      BY DEF BoundIn
    <2>0. k \in WorkloadId \X Nat
      BY <1>1 DEF Consistent, WellFormed
    <2>1. PICK w \in WorkloadId, g \in Nat : k = <<w, g>> /\ g \in Generations(n, w)
      <3>1. PICK w \in WorkloadId, g \in Nat : k = <<w, g>>
        BY <2>0
      <3>2. g \in Generations(n, w)
        BY <1>1, <3>1, GenerationsAre
      <3>. QED
        BY <3>1, <3>2
    <2>2. CASE g \in Generations(d, w)
      <3>1. k \in DOMAIN d.snapshots
        BY <2>1, <2>2, GenerationsAre
      <3>2. n.snapshots[k] = d.snapshots[k]
        BY <1>1, <3>1 DEF KeepsPlans
      <3>. QED
        BY <3>1, <3>2 DEF BoundIn
    <2>3. CASE g \notin Generations(d, w)
      <3>1. NewPlan(d, n, w, g)
        BY <2>1, <2>3 DEF NewPlan
      <3>. QED
        BY <2>1, <3>1 DEF NewPlan
    <2>. QED
      BY <2>2, <2>3
  <1>. QED
    BY <1>4, <1>5 DEF HardwareIn

\* What is said of bindings is said of the snapshots alone.
LEMMA SameHardwareIn ==
  ASSUME NEW d, NEW n, n.snapshots = d.snapshots, HardwareIn(d), BoundIn(d)
  PROVE  HardwareIn(n) /\ BoundIn(n)
  <1>1. BoundIn(n)
    BY DEF BoundIn
  <1>2. ASSUME NEW w \in WorkloadId, NEW g \in Generations(n, w),
               {e \in Generations(n, w) : e < g} # {}
        PROVE  SameBinding(n.snapshots[<<w, Max({e \in Generations(n, w) : e < g})>>],
                           n.snapshots[<<w, g>>])
    <2>1. Generations(n, w) = Generations(d, w)
      BY DEF Generations
    <2>. QED
      BY <1>2, <2>1 DEF HardwareIn
  <1>. QED
    BY <1>1, <1>2 DEF HardwareIn

\* What is said of the plans is said of these tables alone.
LEMMA SamePlans ==
  ASSUME NEW d, NEW n, SameTables(d, n), n.workloads = d.workloads,
         n.snapshots = d.snapshots, PlansIn(d)
  PROVE  PlansIn(n)
  <1>1. \A w : Generations(n, w) = Generations(d, w)
    BY DEF Generations
  <1>2. HardwareIn(n) /\ BoundIn(n)
    BY SameHardwareIn DEF PlansIn
  <1>3. \A w : /\ Content(n, w) = Content(d, w) /\ ProfileOf(n, w) = ProfileOf(d, w)
               /\ LatestAssignments(n, w) = LatestAssignments(d, w)
               /\ EffectiveTuning(n, w) = EffectiveTuning(d, w)
    BY <1>1 DEF Content, ProfileOf, LatestAssignments, Latest, EffectiveTuning, SameTables
  <1>4. \A w : Resolve(n, w) = Resolve(d, w) /\ (Resolvable(n, w) <=> Resolvable(d, w))
    BY <1>3 DEF Resolve, ResolveWith, Resolvable, SameTables
  <1>5. EffectiveIn(n)
    BY <1>4 DEF PlansIn, EffectiveIn, Effective, Workloads
  <1>. QED
    BY <1>2, <1>5 DEF PlansIn

\* A commit does not touch them.
LEMMA CommitPlans ==
  ASSUME NEW n, Consistent(n), PlansIn(n), Commit(n)
  PROVE  PlansIn(db')
  <1>1. db' = [n EXCEPT !.revision = db.revision + 1] /\ n = [t \in TableName |-> n[t]]
    BY DEF Commit, Consistent, WellFormed
  <1>2. SameTables(n, db') /\ db'.workloads = n.workloads /\ db'.snapshots = n.snapshots
    BY <1>1 DEF TableName, SameTables
  <1>. QED
    BY <1>2, SamePlans

\* A propagation adds plans that bind nothing.
LEMMA PropagateHardware ==
  ASSUME NEW d, Consistent(d), HardwareIn(d), BoundIn(d), NEW ws, ws \subseteq Workloads(d)
  PROVE  HardwareIn(Propagate(d, ws)) /\ BoundIn(Propagate(d, ws))
  <1>. DEFINE moved == Moved(d, ws)
  <1>1. PICK n : n = NewGenerations(d, moved)
    OBVIOUS
  <1>2. moved \subseteq WorkloadId /\ Propagate(d, ws) = n
    BY <1>1 DEF Moved, Workloads, Propagate
  <1>. HIDE DEF moved
  <1>3. Follows(d, n)
    BY <1>1, <1>2, NewGenerationsFollow
  <1>4. ASSUME NEW w \in WorkloadId
        PROVE  \/ Generations(n, w) = Generations(d, w)
               \/ \E g \in Nat : NewPlan(d, n, w, g)
    <2>1. CASE ~(w \in moved /\ Ready(Resolve(d, w)))
      BY <1>1, <1>2, <2>1, NewGenerationsOf
    <2>2. CASE w \in moved /\ Ready(Resolve(d, w))
      <3>. DEFINE g == d.workloads[w].gen + 1
      <3>1. /\ g \in Nat /\ \A e \in Generations(d, w) : e < g
        BY GenerationsAre
      <3>2. /\ \A e : e \in Generations(n, w) <=> e \in Generations(d, w) \/ e = g
            /\ n.snapshots[<<w, g>>] = Resolve(d, w)
        BY <1>1, <1>2, <2>2, NewGenerationsOf, NewGenerationsAre
      <3>3. Resolve(d, w).devices = {}
        BY <2>2 DEF Ready
      <3>. QED
        BY <3>1, <3>2, <3>3 DEF NewPlan
    <2>. QED
      BY <2>1, <2>2
  <1>. QED
    BY <1>2, <1>3, <1>4, HardwareKept

\* A change of configuration whose propagation reaches every workload that reads what is
\* changed.
LEMMA CommitPropagatedPlans ==
  ASSUME Consistent(db), PlansIn(db), NEW n, Follows(db, n),
         n.workloads = db.workloads, n.snapshots = db.snapshots,
         NEW ws, ws \subseteq Workloads(db), CommitPropagated(n, ws),
         \A w \in Workloads(db) \ ws : SameConfiguration(db, n, w)
  PROVE  PlansIn(db')
  <1>1. Consistent(n) /\ KeepsPlans(db, n)
    BY DEF Follows
  <1>2. \A w : Generations(n, w) = Generations(db, w)
    BY DEF Generations
  <1>3. Workloads(n) = Workloads(db)
    BY DEF Workloads
  <1>4. \A w \in Workloads(db) : Planned(n, w)
    BY EffectiveIs DEF PlansIn, EffectiveIn, Planned
  <1>5. \A w \in ws : Resolvable(n, w)
    BY DEF CommitPropagated
  <1>6. ASSUME NEW w \in Workloads(db) \ ws PROVE Effective(n, w)
    <2>1. w \in WorkloadId /\ SameConfiguration(db, n, w)
      BY DEF Workloads
    <2>2. Resolve(n, w) = Resolve(db, w) /\ (Resolvable(n, w) <=> Resolvable(db, w))
      BY <1>1, <1>2, <2>1, SameResolution
    <2>. QED
      BY <1>4, <2>2, EffectiveIs DEF PlansIn, EffectiveIn
  <1>7. EffectiveIn(Propagate(n, ws))
    BY <1>1, <1>3, <1>4, <1>5, <1>6, PropagateEffective
  <1>8. HardwareIn(n) /\ BoundIn(n)
    BY SameHardwareIn DEF PlansIn
  <1>9. HardwareIn(Propagate(n, ws)) /\ BoundIn(Propagate(n, ws))
    BY <1>1, <1>3, <1>8, PropagateHardware
  <1>10. Consistent(Propagate(n, ws)) /\ Commit(Propagate(n, ws))
    BY <1>1, PropagateFollows DEF CommitPropagated, Follows, Workloads
  <1>. QED
    BY <1>7, <1>9, <1>10, CommitPlans DEF PlansIn

(***************************************************************************)
(* Operations on configuration, and the plans.                             *)
(***************************************************************************)

\* What a workload reads of the tables.
LEMMA WorkloadReads ==
  ASSUME NEW d, Consistent(d), NEW w \in Workloads(d)
  PROVE  /\ w \in WorkloadId /\ Content(d, w).host \in Host
         /\ Content(d, w).profile \in Profile /\ Live(d.profiles[Content(d, w).profile])
         /\ ProfileOf(d, w) \in ProfileContent
         /\ ProfileOf(d, w).pool \in Pool /\ ProfileOf(d, w).wallet \in Wallet
         /\ Live(d.pools[ProfileOf(d, w).pool]) /\ Live(d.wallets[ProfileOf(d, w).wallet])
  <1>1. w \in WorkloadId /\ Content(d, w) \in Work /\ Live(d.profiles[Content(d, w).profile])
    BY WorkloadFacts DEF Workloads
  <1>2. Content(d, w).host \in Host /\ Content(d, w).profile \in Profile
    BY <1>1 DEF Work
  <1>3. ProfileOf(d, w) \in ProfileContent /\ References(d, ProfileOf(d, w))
    BY <1>1, <1>2 DEF Consistent, WellFormed, ReferencesIn, ProfileOf
  <1>. QED
    BY <1>1, <1>2, <1>3, ReferredIds DEF References

\* A table of the database is written.
LEMMA TableWritten ==
  ASSUME NEW d, Consistent(d), NEW t
  PROVE  /\ LET n == [d EXCEPT !.pools = t]
            IN  /\ n.pools = t /\ n.wallets = d.wallets /\ n.profiles = d.profiles
                /\ n.settings = d.settings /\ n.workloads = d.workloads
                /\ n.snapshots = d.snapshots
         /\ LET n == [d EXCEPT !.wallets = t]
            IN  /\ n.wallets = t /\ n.pools = d.pools /\ n.profiles = d.profiles
                /\ n.settings = d.settings /\ n.workloads = d.workloads
                /\ n.snapshots = d.snapshots
         /\ LET n == [d EXCEPT !.profiles = t]
            IN  /\ n.profiles = t /\ n.pools = d.pools /\ n.wallets = d.wallets
                /\ n.settings = d.settings /\ n.workloads = d.workloads
                /\ n.snapshots = d.snapshots
         /\ LET n == [d EXCEPT !.settings = t]
            IN  /\ n.settings = t /\ n.pools = d.pools /\ n.wallets = d.wallets
                /\ n.profiles = d.profiles /\ n.workloads = d.workloads
                /\ n.snapshots = d.snapshots
         /\ LET n == [d EXCEPT !.workloads = t]
            IN  /\ n.workloads = t /\ SameTables(d, n) /\ n.snapshots = d.snapshots
  <1>1. d = [x \in TableName |-> d[x]]
    BY DEF Consistent, WellFormed
  <1>. QED
    BY <1>1 DEF TableName, SameTables

\* A Pool is written that nobody reads but ws.
LEMMA PoolPlans ==
  ASSUME NEW d, Consistent(d), NEW p \in Pool, NEW r, NEW n, n = [d EXCEPT !.pools[p] = r]
  PROVE  /\ n.workloads = d.workloads /\ n.snapshots = d.snapshots
         /\ \A w \in Workloads(d) : ProfileOf(d, w).pool # p => SameConfiguration(d, n, w)
  <1>1. /\ n.pools = [d.pools EXCEPT ![p] = r] /\ n.wallets = d.wallets
        /\ n.profiles = d.profiles /\ n.settings = d.settings
        /\ n.workloads = d.workloads /\ n.snapshots = d.snapshots
    BY TableWritten
  <1>2. ASSUME NEW w \in Workloads(d), ProfileOf(d, w).pool # p
        PROVE  SameConfiguration(d, n, w)
    <2>1. n.pools[ProfileOf(d, w).pool] = d.pools[ProfileOf(d, w).pool]
      BY <1>1, <1>2
    <2>2. Content(n, w) = Content(d, w) /\ ProfileOf(n, w) = ProfileOf(d, w)
      BY <1>1 DEF Content, ProfileOf
    <2>3. EffectiveTuning(n, w) = EffectiveTuning(d, w)
      BY <1>1, <2>2 DEF EffectiveTuning
    <2>. QED
      BY <1>1, <2>1, <2>2, <2>3 DEF SameConfiguration
  <1>. QED
    BY <1>1, <1>2

\* A WalletRef.
LEMMA WalletPlans ==
  ASSUME NEW d, Consistent(d), NEW k \in Wallet, NEW r, NEW n, n = [d EXCEPT !.wallets[k] = r]
  PROVE  /\ n.workloads = d.workloads /\ n.snapshots = d.snapshots
         /\ \A w \in Workloads(d) : ProfileOf(d, w).wallet # k => SameConfiguration(d, n, w)
  <1>1. /\ n.wallets = [d.wallets EXCEPT ![k] = r] /\ n.pools = d.pools
        /\ n.profiles = d.profiles /\ n.settings = d.settings
        /\ n.workloads = d.workloads /\ n.snapshots = d.snapshots
    BY TableWritten
  <1>2. ASSUME NEW w \in Workloads(d), ProfileOf(d, w).wallet # k
        PROVE  SameConfiguration(d, n, w)
    <2>1. n.wallets[ProfileOf(d, w).wallet] = d.wallets[ProfileOf(d, w).wallet]
      BY <1>1, <1>2
    <2>2. Content(n, w) = Content(d, w) /\ ProfileOf(n, w) = ProfileOf(d, w)
      BY <1>1 DEF Content, ProfileOf
    <2>3. EffectiveTuning(n, w) = EffectiveTuning(d, w)
      BY <1>1, <2>2 DEF EffectiveTuning
    <2>. QED
      BY <1>1, <2>1, <2>2, <2>3 DEF SameConfiguration
  <1>. QED
    BY <1>1, <1>2

\* A Profile.
LEMMA ProfilePlans ==
  ASSUME NEW d, Consistent(d), NEW f \in Profile, NEW r, NEW n, n = [d EXCEPT !.profiles[f] = r]
  PROVE  /\ n.workloads = d.workloads /\ n.snapshots = d.snapshots
         /\ \A w \in Workloads(d) : Content(d, w).profile # f => SameConfiguration(d, n, w)
  <1>1. /\ n.profiles = [d.profiles EXCEPT ![f] = r] /\ n.pools = d.pools
        /\ n.wallets = d.wallets /\ n.settings = d.settings
        /\ n.workloads = d.workloads /\ n.snapshots = d.snapshots
    BY TableWritten
  <1>2. ASSUME NEW w \in Workloads(d), Content(d, w).profile # f
        PROVE  SameConfiguration(d, n, w)
    <2>1. n.profiles[Content(d, w).profile] = d.profiles[Content(d, w).profile]
      BY <1>1, <1>2
    <2>2. Content(n, w) = Content(d, w) /\ ProfileOf(n, w) = ProfileOf(d, w)
      <3>1. Content(n, w) = Content(d, w)
        BY <1>1 DEF Content
      <3>. QED
        BY <2>1, <3>1 DEF ProfileOf
    <2>3. EffectiveTuning(n, w) = EffectiveTuning(d, w)
      BY <1>1, <2>2 DEF EffectiveTuning
    <2>. QED
      BY <1>1, <2>1, <2>2, <2>3 DEF SameConfiguration
  <1>. QED
    BY <1>1, <1>2

\* Settings.
LEMMA SettingsPlans ==
  ASSUME NEW d, Consistent(d), NEW h \in Host, NEW f \in Profile, NEW r,
         NEW n, n = [d EXCEPT !.settings[<<h, f>>] = r]
  PROVE  /\ n.workloads = d.workloads /\ n.snapshots = d.snapshots
         /\ \A w \in Workloads(d) : Content(d, w).profile # f \/ Content(d, w).host # h =>
               SameConfiguration(d, n, w)
  <1>1. /\ n.settings = [d.settings EXCEPT ![<<h, f>>] = r] /\ n.pools = d.pools
        /\ n.wallets = d.wallets /\ n.profiles = d.profiles
        /\ n.workloads = d.workloads /\ n.snapshots = d.snapshots
    BY TableWritten
  <1>2. ASSUME NEW w \in Workloads(d), Content(d, w).profile # f \/ Content(d, w).host # h
        PROVE  SameConfiguration(d, n, w)
    <2>. DEFINE key == <<Content(d, w).host, Content(d, w).profile>>
    <2>1. key # <<h, f>>
      BY <1>2
    <2>2. n.settings[key] = d.settings[key]
      BY <1>1, <2>1
    <2>3. Content(n, w) = Content(d, w) /\ ProfileOf(n, w) = ProfileOf(d, w)
      BY <1>1 DEF Content, ProfileOf
    <2>4. EffectiveTuning(n, w) = EffectiveTuning(d, w)
      BY <2>2, <2>3 DEF EffectiveTuning
    <2>. QED
      BY <1>1, <2>3, <2>4 DEF SameConfiguration
  <1>. QED
    BY <1>1, <1>2

\* A change that nobody reads.
LEMMA CommitUnreadPlans ==
  ASSUME Consistent(db), PlansIn(db), NEW n, Follows(db, n), Commit(n),
         n.workloads = db.workloads, n.snapshots = db.snapshots,
         \A w \in Workloads(db) : SameConfiguration(db, n, w)
  PROVE  PlansIn(db')
  <1>1. Consistent(n) /\ KeepsPlans(db, n)
    BY DEF Follows
  <1>2. \A w : Generations(n, w) = Generations(db, w)
    BY DEF Generations
  <1>3. ASSUME NEW w \in Workloads(n) PROVE Effective(n, w)
    <2>1. w \in WorkloadId /\ w \in Workloads(db) /\ SameConfiguration(db, n, w)
      BY DEF Workloads
    <2>2. Resolve(n, w) = Resolve(db, w) /\ (Resolvable(n, w) <=> Resolvable(db, w))
      BY <1>1, <1>2, <2>1, SameResolution
    <2>3. Resolvable(db, w) /\ db.workloads[w].hash = Resolve(db, w) /\ Planned(db, w)
      BY <2>1, EffectiveIs DEF PlansIn, EffectiveIn
    <2>4. Planned(n, w)
      BY <2>3 DEF Planned
    <2>. QED
      BY <2>2, <2>3, <2>4, EffectiveIs
  <1>4. PlansIn(n)
    BY <1>3, SameHardwareIn DEF PlansIn, EffectiveIn
  <1>. QED
    BY <1>1, <1>4, CommitPlans

\* A transaction makes of a database that is as it should be another, and says of plans
\* what they are.
Leads(d, n) == Follows(d, n) /\ (PlansIn(d) => PlansIn(n))

\* A write that no workload reads.
LEMMA CommitUnread ==
  ASSUME Consistent(db), NEW n, Follows(db, n), Commit(n),
         n.workloads = db.workloads, n.snapshots = db.snapshots,
         \A w \in Workloads(db) : SameConfiguration(db, n, w)
  PROVE  Leads(db, db')
  BY CommitFollows, CommitUnreadPlans DEF Leads

\* A write that ws read, with its propagation.
LEMMA CommitRead ==
  ASSUME Consistent(db), NEW n, Follows(db, n),
         n.workloads = db.workloads, n.snapshots = db.snapshots,
         NEW ws, ws \subseteq Workloads(db), CommitPropagated(n, ws),
         \A w \in Workloads(db) \ ws : SameConfiguration(db, n, w)
  PROVE  Leads(db, db')
  <1>1. ws \subseteq WorkloadId
    BY DEF Workloads
  <1>. QED
    BY <1>1, CommitPropagatedFollows, CommitPropagatedPlans DEF Leads

\* A commit leads to what is committed.
LEMMA CommitLeads ==
  ASSUME Consistent(db), NEW n, Leads(db, n), Commit(n)
  PROVE  Leads(db, db')
  <1>1. Follows(db, n) /\ Consistent(n)
    BY DEF Leads, Follows
  <1>. QED
    BY <1>1, CommitFollows, CommitPlans DEF Leads

\* Bindings, Maintenance Holds, incidents and barriers say nothing of plans.
LEMMA UnplannedWrite ==
  ASSUME NEW d, Consistent(d), NEW a, NEW b, NEW c
  PROVE  /\ PlansIn(d) => PlansIn([d EXCEPT !.bindings = a, !.holds = b, !.incidents = c])
         /\ PlansIn(d) => PlansIn([d EXCEPT !.barriers = a, !.restoreRequired = b])
  <1>1. d = [x \in TableName |-> d[x]]
    BY DEF Consistent, WellFormed
  <1>2. ASSUME NEW n, \/ n = [d EXCEPT !.bindings = a, !.holds = b, !.incidents = c]
                      \/ n = [d EXCEPT !.barriers = a, !.restoreRequired = b]
        PROVE  PlansIn(d) => PlansIn(n)
    <2>1. SameTables(d, n) /\ n.workloads = d.workloads /\ n.snapshots = d.snapshots
      BY <1>1, <1>2 DEF TableName, SameTables
    <2>. QED
      BY <2>1, SamePlans
  <1>. QED
    BY <1>2

\* A transaction on one workload leaves the others effective.
LEMMA OtherWorkloads ==
  ASSUME NEW d, Consistent(d), EffectiveIn(d), NEW n, Follows(d, n), SameTables(d, n),
         NEW w \in WorkloadId,
         \A v \in WorkloadId : v # w =>
            n.workloads[v] = d.workloads[v] /\ Generations(n, v) = Generations(d, v)
  PROVE  \A v \in Workloads(n) : v # w => Effective(n, v)
  <1>. SUFFICES ASSUME NEW v \in Workloads(n), v # w PROVE Effective(n, v)
    OBVIOUS
  <1>1. Consistent(n) /\ KeepsPlans(d, n) /\ v \in WorkloadId
    BY DEF Follows, Workloads
  <1>2. n.workloads[v] = d.workloads[v] /\ Generations(n, v) = Generations(d, v)
    BY <1>1
  <1>3. v \in Workloads(d)
    BY <1>2 DEF Workloads
  <1>4. SameConfiguration(d, n, v)
    BY <1>2 DEF SameConfiguration, SameTables, Content, ProfileOf, EffectiveTuning
  <1>5. Resolve(n, v) = Resolve(d, v) /\ (Resolvable(n, v) <=> Resolvable(d, v))
    BY <1>1, <1>2, <1>4, SameResolution
  <1>6. Resolvable(d, v) /\ d.workloads[v].hash = Resolve(d, v) /\ Planned(d, v)
    BY <1>3, EffectiveIs DEF EffectiveIn
  <1>7. \A g : /\ <<v, g>> \in DOMAIN n.snapshots <=> <<v, g>> \in DOMAIN d.snapshots
               /\ <<v, g>> \in DOMAIN d.snapshots =>
                     n.snapshots[<<v, g>>] = d.snapshots[<<v, g>>]
    BY <1>1, <1>2, GenerationsAre DEF KeepsPlans
  <1>8. Planned(n, v)
    BY <1>2, <1>6, <1>7 DEF Planned
  <1>. QED
    BY <1>2, <1>5, <1>6, <1>8, EffectiveIs

\* And bindings as they were, if a plan it adds keeps them.
LEMMA OneWorkload ==
  ASSUME NEW d, Consistent(d), NEW n, Follows(d, n), SameTables(d, n),
         NEW w \in WorkloadId,
         \A v \in WorkloadId : v # w =>
            n.workloads[v] = d.workloads[v] /\ Generations(n, v) = Generations(d, v),
         PlansIn(d) =>
            /\ w \in Workloads(n) => Effective(n, w)
            /\ \/ Generations(n, w) = Generations(d, w)
               \/ \E g \in Nat : NewPlan(d, n, w, g)
  PROVE  Leads(d, n)
  <1>. SUFFICES ASSUME PlansIn(d) PROVE PlansIn(n)
    BY DEF Leads
  <1>1. EffectiveIn(n)
    BY OtherWorkloads DEF PlansIn, EffectiveIn
  <1>2. \A v \in WorkloadId : \/ Generations(n, v) = Generations(d, v)
                              \/ \E g \in Nat : NewPlan(d, n, v, g)
    OBVIOUS
  <1>3. HardwareIn(n) /\ BoundIn(n)
    BY <1>2, HardwareKept DEF PlansIn
  <1>. QED
    BY <1>1, <1>3 DEF PlansIn

\* What a snapshot is.
LEMMA SnapshotIs ==
  ASSUME NEW d, Consistent(d), NEW w \in WorkloadId, NEW hash,
         <<w, d.workloads[w].gen>> \notin DOMAIN d.snapshots,
         NEW n, n = Snapshot(d, w, hash)
  PROVE  /\ SameTables(d, n) /\ n.workloads = d.workloads
         /\ n.snapshots[<<w, d.workloads[w].gen>>] = hash
         /\ \A g : g \in Generations(n, w) <=>
                      g \in Generations(d, w) \/ g = d.workloads[w].gen
         /\ \A v \in WorkloadId : v # w => Generations(n, v) = Generations(d, v)
  <1>. DEFINE key == <<w, d.workloads[w].gen>>
              plans == [k \in DOMAIN d.snapshots \cup {key} |->
                           IF k = key THEN hash ELSE d.snapshots[k]]
  <1>1. n = [d EXCEPT !.snapshots = plans]
    BY DEF Snapshot
  <1>2. SameTables(d, n) /\ n.workloads = d.workloads /\ n.snapshots = plans
    BY <1>1 DEF Consistent, WellFormed, TableName, SameTables
  <1>3. plans[key] = hash /\ \A k : k \in DOMAIN plans <=> k \in DOMAIN d.snapshots \/ k = key
    OBVIOUS
  <1>. HIDE DEF plans
  <1>4. Consistent(n)
    BY SnapshotFollows DEF Follows
  <1>5. \A v \in WorkloadId : \A g : /\ g \in Generations(n, v) <=> <<v, g>> \in DOMAIN n.snapshots
                                     /\ g \in Generations(d, v) <=> <<v, g>> \in DOMAIN d.snapshots
    BY <1>4, GenerationsAre
  <1>. QED
    BY <1>2, <1>3, <1>5

(***************************************************************************)
(* Operations.                                                             *)
(***************************************************************************)

\* The rows of a workload that has been deleted, or edited.
LEMMA WorkloadRows ==
  ASSUME NEW r, IsRow(r, WorkloadColumns), r.gen \in Nat, NEW c
  PROVE  /\ IsRow(Erased(r), WorkloadColumns) /\ ~Live(Erased(r)) /\ Erased(r).gen = r.gen
         /\ IsRow(Revised(r, c), WorkloadColumns) /\ Revised(r, c).content = c
         /\ Revised(r, c).gen = r.gen
         /\ r.gen <= r.gen
  <1>1. r = [x \in WorkloadColumns |-> r[x]] /\ r.rev \in Int
    BY DEF IsRow
  <1>2. /\ Erased(r) = [x \in WorkloadColumns |-> Erased(r)[x]]
        /\ Erased(r).rev = -1 /\ Erased(r).gen = r.gen
    BY <1>1 DEF Erased, WorkloadColumns
  <1>3. /\ Revised(r, c) = [x \in WorkloadColumns |-> Revised(r, c)[x]]
        /\ Revised(r, c).rev = r.rev + 1 /\ Revised(r, c).content = c
        /\ Revised(r, c).gen = r.gen
    BY <1>1 DEF Revised, WorkloadColumns
  <1>. QED
    BY <1>1, <1>2, <1>3 DEF IsRow, Live

\* A database with another row for a workload.
LEMMA WorkloadWritten ==
  ASSUME NEW d, Consistent(d), NEW w \in WorkloadId, NEW r
  PROVE  LET n == [d EXCEPT !.workloads[w] = r]
         IN  /\ SameTables(d, n) /\ n.snapshots = d.snapshots /\ n.workloads[w] = r
             /\ \A v \in WorkloadId : v # w => n.workloads[v] = d.workloads[v]
  <1>1. d = [x \in TableName |-> d[x]] /\ d.workloads = [v \in WorkloadId |-> d.workloads[v]]
    BY DEF Consistent, WellFormed, IsTable
  <1>. DEFINE rows == [d.workloads EXCEPT ![w] = r]
  <1>2. rows[w] = r /\ \A v \in WorkloadId : v # w => rows[v] = d.workloads[v]
    BY <1>1
  <1>3. PICK n : n = [d EXCEPT !.workloads = rows]
    OBVIOUS
  <1>. HIDE DEF rows
  <1>4. SameTables(d, n) /\ n.snapshots = d.snapshots /\ n.workloads = rows
    BY <1>1, <1>3 DEF SameTables, TableName
  <1>. QED
    BY <1>2, <1>3, <1>4 DEF rows

\* The deletion of a workload.
LEMMA WithoutWorkloadLeads ==
  ASSUME NEW d, Consistent(d), NEW w \in WorkloadId
  PROVE  Leads(d, WithoutWorkload(d, w))
  <1>. DEFINE n == [d EXCEPT !.workloads[w] = Erased(d.workloads[w])]
              b == [d.bindings EXCEPT ![w] = NoBinding]
              i == ResolveIncidentsOf(d, w).incidents
  <1>1. /\ IsRow(Erased(d.workloads[w]), WorkloadColumns) /\ ~Live(Erased(d.workloads[w]))
        /\ Erased(d.workloads[w]).gen = d.workloads[w].gen
    BY WorkloadFacts, WorkloadRows
  <1>2. Follows(d, n)
    BY <1>1, WorkloadFacts, WorkloadWrite
  <1>3. WithoutWorkload(d, w) =
           [n EXCEPT !.bindings = b, !.holds = d.holds, !.incidents = i]
    BY DEF WithoutWorkload, ResolveIncidentsOf, Consistent, WellFormed, TableName
  <1>4. SameTables(d, n) /\ n.snapshots = d.snapshots /\ n.workloads[w] = Erased(d.workloads[w])
        /\ \A v \in WorkloadId : v # w => n.workloads[v] = d.workloads[v]
    BY WorkloadWritten
  <1>. HIDE DEF n, b, i
  <1>5. Follows(n, [n EXCEPT !.bindings = b, !.holds = d.holds, !.incidents = i])
    BY <1>2, OtherWrite DEF Follows
  <1>6. Leads(d, n)
    <2>1. \A v : Generations(n, v) = Generations(d, v)
      BY <1>4 DEF Generations
    <2>2. w \notin Workloads(n)
      BY <1>1, <1>4 DEF Workloads
    <2>. QED
      BY <1>2, <1>4, <2>1, <2>2, OneWorkload
  <1>7. Leads(n, [n EXCEPT !.bindings = b, !.holds = d.holds, !.incidents = i])
    BY <1>2, <1>5, UnplannedWrite DEF Leads, Follows
  <1>. QED
    BY <1>3, <1>6, <1>7, FollowsTrans DEF Leads

\* The update of a workload, with its propagation.
LEMMA UpdatedLeads ==
  ASSUME NEW d, Consistent(d), NEW w \in Workloads(d), NEW c \in Work, CanUpdate(d, w, c)
  PROVE  Leads(d, Updated(d, w, c))
  <1>. DEFINE r == Revised(d.workloads[w], c)
  <1>1. w \in WorkloadId
    BY DEF Workloads
  <1>2. /\ IsRow(r, WorkloadColumns) /\ r.content = c
        /\ r.gen = d.workloads[w].gen /\ r.gen \in Nat /\ d.workloads[w].gen <= r.gen
    BY <1>1, WorkloadFacts, WorkloadRows
  <1>3. r.hash = d.workloads[w].hash /\ (Live(d.workloads[w]) => Live(r))
    <2>1. IsRow(d.workloads[w], WorkloadColumns)
      BY <1>1, WorkloadFacts
    <2>. QED
      BY <2>1 DEF Revised, IsRow, WorkloadColumns, Live
  <1>4. Updated(d, w, c) = Propagate([d EXCEPT !.workloads[w] = r], {w})
    BY DEF Updated
  <1>. HIDE DEF r
  <1>5. PICK m : m = [d EXCEPT !.workloads[w] = r]
    OBVIOUS
  <1>6. Follows(d, m) /\ Consistent(m)
    BY <1>1, <1>2, <1>5, WorkloadWrite DEF CanUpdate, Follows
  <1>7. Follows(d, Updated(d, w, c))
    BY <1>1, <1>4, <1>5, <1>6, PropagateFollows, FollowsTrans
  <1>8. /\ SameTables(d, m) /\ m.snapshots = d.snapshots /\ m.workloads[w] = r
        /\ \A v \in WorkloadId : v # w => m.workloads[v] = d.workloads[v]
    BY <1>1, <1>5, WorkloadWritten
  <1>9. \A v : Generations(m, v) = Generations(d, v)
    BY <1>8 DEF Generations
  <1>10. w \in Workloads(m)
    BY <1>1, <1>3, <1>8 DEF Workloads
  <1>11. Resolvable(m, w)
    <2>. DEFINE q == [d.workloads[w] EXCEPT !.content = c]
    <2>1. PICK x : x = [d EXCEPT !.workloads[w] = q]
      OBVIOUS
    <2>2. x = [d EXCEPT !.workloads[w].content = c]
      BY <2>1
    <2>3. Resolvable(x, w)
      BY <2>2 DEF CanUpdate
    <2>4. SameTables(d, x) /\ x.workloads[w] = q
      BY <1>1, <2>1, WorkloadWritten
    <2>5. q.content = c
      BY <1>1, WorkloadFacts DEF IsRow, WorkloadColumns
    <2>. HIDE DEF q
    <2>6. SameTables(m, x) /\ Content(x, w) = Content(m, w)
      BY <1>2, <1>8, <2>4, <2>5 DEF SameTables, Content
    <2>7. ProfileOf(x, w) = ProfileOf(m, w) /\ EffectiveTuning(x, w) = EffectiveTuning(m, w)
      BY <2>6 DEF SameTables, ProfileOf, EffectiveTuning
    <2>. QED
      BY <2>3, <2>6, <2>7 DEF Resolvable, SameTables
  <1>12. ASSUME PlansIn(d) PROVE PlansIn(Updated(d, w, c))
    <2>1. \A v \in Workloads(m) : v # w => Effective(m, v)
      BY <1>1, <1>6, <1>8, <1>9, <1>12, OtherWorkloads DEF PlansIn
    <2>2. Planned(d, w)
      BY <1>12, EffectiveIs DEF PlansIn, EffectiveIn
    <2>3. Planned(m, w)
      BY <1>2, <1>3, <1>8, <2>2 DEF Planned
    <2>4. EffectiveIn(Propagate(m, {w}))
      BY <1>6, <1>10, <1>11, <2>1, <2>3, PropagateEffective
    <2>5. HardwareIn(m) /\ BoundIn(m)
      BY <1>8, <1>12, SameHardwareIn DEF PlansIn
    <2>6. HardwareIn(Propagate(m, {w})) /\ BoundIn(Propagate(m, {w}))
      BY <1>6, <1>10, <2>5, PropagateHardware
    <2>. QED
      BY <1>4, <1>5, <2>4, <2>6 DEF PlansIn
  <1>. QED
    BY <1>7, <1>12 DEF Leads

\* Pools: deleted only when no Profile refers to them.
LEMMA CreatePoolStep ==
  ASSUME Consistent(db), CreatePool
  PROVE  Leads(db, db')
  <1>1. PICK p \in Pool, c \in PoolContent :
            db.pools[p] = NoRow /\ Commit([db EXCEPT !.pools[p] = NewRow(c)])
    BY DEF CreatePool
  <1>2. Follows(db, [db EXCEPT !.pools[p] = NewRow(c)])
    BY <1>1, FreshRow, PoolWrite
  <1>3. \A w \in Workloads(db) : ProfileOf(db, w).pool # p
    BY <1>1, WorkloadReads DEF NoRow, Live
  <1>. QED
    BY <1>1, <1>2, <1>3, PoolPlans, CommitUnread

\* UpdatePool follows the rules.
LEMMA UpdatePoolStep ==
  ASSUME Consistent(db), UpdatePool
  PROVE  Leads(db, db')
  <1>1. PICK p \in Pool, c \in PoolContent :
            /\ Live(db.pools[p])
            /\ CommitPropagated([db EXCEPT !.pools[p] = Revised(db.pools[p], c)],
                                UsersOfPool(db, p))
    BY DEF UpdatePool
  <1>2. IsRow(db.pools[p], RowColumns)
    BY DEF Consistent, WellFormed, IsTable, IsRow, RowColumns
  <1>3. Follows(db, [db EXCEPT !.pools[p] = Revised(db.pools[p], c)])
    BY <1>1, <1>2, RevisedRow, PoolWrite
  <1>4. /\ UsersOfPool(db, p) \subseteq Workloads(db)
        /\ \A w \in Workloads(db) \ UsersOfPool(db, p) : ProfileOf(db, w).pool # p
    BY DEF UsersOfPool
  <1>. QED
    BY <1>1, <1>3, <1>4, PoolPlans, CommitRead

\* DeletePool does.
LEMMA DeletePoolStep ==
  ASSUME Consistent(db), DeletePool
  PROVE  Leads(db, db')
  <1>1. PICK p \in Pool :
            /\ ~ReferencesPool(db, p)
            /\ Commit([db EXCEPT !.pools[p] = Erased(db.pools[p])])
    BY DEF DeletePool
  <1>2. IsRow(Erased(db.pools[p]), RowColumns) /\ ~Live(Erased(db.pools[p]))
    <2>1. IsRow(db.pools[p], RowColumns)
      BY DEF Consistent, WellFormed, IsTable, IsRow, RowColumns
    <2>. QED
      BY <2>1, ErasedRow DEF RowColumns
  <1>3. Follows(db, [db EXCEPT !.pools[p] = Erased(db.pools[p])])
    BY <1>1, <1>2, PoolWrite DEF ReferencesPool
  <1>4. \A w \in Workloads(db) : ProfileOf(db, w).pool # p
    BY <1>1, WorkloadReads DEF ReferencesPool, ProfileOf
  <1>. QED
    BY <1>1, <1>3, <1>4, PoolPlans, CommitUnread

\* WalletRefs.
LEMMA CreateWalletRefStep ==
  ASSUME Consistent(db), CreateWalletRef
  PROVE  Leads(db, db')
  <1>1. PICK k \in Wallet, c \in WalletContent :
            db.wallets[k] = NoRow /\ Commit([db EXCEPT !.wallets[k] = NewRow(c)])
    BY DEF CreateWalletRef
  <1>2. Follows(db, [db EXCEPT !.wallets[k] = NewRow(c)])
    BY <1>1, FreshRow, WalletWrite
  <1>3. \A w \in Workloads(db) : ProfileOf(db, w).wallet # k
    BY <1>1, WorkloadReads DEF NoRow, Live
  <1>. QED
    BY <1>1, <1>2, <1>3, WalletPlans, CommitUnread

\* UpdateWalletRef does.
LEMMA UpdateWalletRefStep ==
  ASSUME Consistent(db), UpdateWalletRef
  PROVE  Leads(db, db')
  <1>1. PICK k \in Wallet, c \in WalletContent :
            /\ Live(db.wallets[k])
            /\ CommitPropagated([db EXCEPT !.wallets[k] = Revised(db.wallets[k], c)],
                                UsersOfWallet(db, k))
    BY DEF UpdateWalletRef
  <1>2. IsRow(db.wallets[k], RowColumns)
    BY DEF Consistent, WellFormed, IsTable, IsRow, RowColumns
  <1>3. Follows(db, [db EXCEPT !.wallets[k] = Revised(db.wallets[k], c)])
    BY <1>1, <1>2, RevisedRow, WalletWrite
  <1>4. /\ UsersOfWallet(db, k) \subseteq Workloads(db)
        /\ \A w \in Workloads(db) \ UsersOfWallet(db, k) : ProfileOf(db, w).wallet # k
    BY DEF UsersOfWallet
  <1>. QED
    BY <1>1, <1>3, <1>4, WalletPlans, CommitRead

\* DeleteWalletRef does.
LEMMA DeleteWalletRefStep ==
  ASSUME Consistent(db), DeleteWalletRef
  PROVE  Leads(db, db')
  <1>1. PICK k \in Wallet :
            /\ ~ReferencesWallet(db, k)
            /\ Commit([db EXCEPT !.wallets[k] = Erased(db.wallets[k])])
    BY DEF DeleteWalletRef
  <1>2. IsRow(Erased(db.wallets[k]), RowColumns) /\ ~Live(Erased(db.wallets[k]))
    <2>1. IsRow(db.wallets[k], RowColumns)
      BY DEF Consistent, WellFormed, IsTable, IsRow, RowColumns
    <2>. QED
      BY <2>1, ErasedRow DEF RowColumns
  <1>3. Follows(db, [db EXCEPT !.wallets[k] = Erased(db.wallets[k])])
    BY <1>1, <1>2, WalletWrite DEF ReferencesWallet
  <1>4. \A w \in Workloads(db) : ProfileOf(db, w).wallet # k
    BY <1>1, WorkloadReads DEF ReferencesWallet, ProfileOf
  <1>. QED
    BY <1>1, <1>3, <1>4, WalletPlans, CommitUnread

\* MiningProfiles: written with references that exist, deleted when unused.
LEMMA CreateMiningProfileStep ==
  ASSUME Consistent(db), CreateMiningProfile
  PROVE  Leads(db, db')
  <1>1. PICK f \in Profile, c \in ProfileContent :
            /\ db.profiles[f] = NoRow /\ References(db, c)
            /\ Commit([db EXCEPT !.profiles[f] = NewRow(c)])
    BY DEF CreateMiningProfile
  <1>2. Follows(db, [db EXCEPT !.profiles[f] = NewRow(c)])
    BY <1>1, FreshRow, ProfileWrite
  <1>3. \A w \in Workloads(db) : Content(db, w).profile # f
    BY <1>1, WorkloadReads DEF NoRow, Live
  <1>. QED
    BY <1>1, <1>2, <1>3, ProfilePlans, CommitUnread

\* UpdateMiningProfile does.
LEMMA UpdateMiningProfileStep ==
  ASSUME Consistent(db), UpdateMiningProfile
  PROVE  Leads(db, db')
  <1>1. PICK f \in Profile, c \in ProfileContent :
            /\ Live(db.profiles[f]) /\ References(db, c)
            /\ CommitPropagated([db EXCEPT !.profiles[f] = Revised(db.profiles[f], c)],
                                UsersOfProfile(db, f))
    BY DEF UpdateMiningProfile
  <1>2. IsRow(db.profiles[f], RowColumns)
    BY DEF Consistent, WellFormed, IsTable, IsRow, RowColumns
  <1>3. Follows(db, [db EXCEPT !.profiles[f] = Revised(db.profiles[f], c)])
    <2>. DEFINE r == Revised(db.profiles[f], c)
    <2>1. IsRow(r, RowColumns) /\ r.content = c /\ Live(r)
      BY <1>1, <1>2, RevisedRow
    <2>. HIDE DEF r
    <2>2. Follows(db, [db EXCEPT !.profiles[f] = r])
      BY <1>1, <2>1, ProfileWrite
    <2>. QED
      BY <2>2 DEF r
  <1>4. /\ UsersOfProfile(db, f) \subseteq Workloads(db)
        /\ \A w \in Workloads(db) \ UsersOfProfile(db, f) : Content(db, w).profile # f
    BY DEF UsersOfProfile
  <1>. QED
    BY <1>1, <1>3, <1>4, ProfilePlans, CommitRead

\* DeleteMiningProfile does.
LEMMA DeleteMiningProfileStep ==
  ASSUME Consistent(db), DeleteMiningProfile
  PROVE  Leads(db, db')
  <1>1. PICK f \in Profile :
            /\ ~ReferencesProfile(db, f)
            /\ Commit([db EXCEPT !.profiles[f] = Erased(db.profiles[f])])
    BY DEF DeleteMiningProfile
  <1>2. IsRow(Erased(db.profiles[f]), RowColumns) /\ ~Live(Erased(db.profiles[f]))
    <2>1. IsRow(db.profiles[f], RowColumns)
      BY DEF Consistent, WellFormed, IsTable, IsRow, RowColumns
    <2>. QED
      BY <2>1, ErasedRow DEF RowColumns
  <1>3. Follows(db, [db EXCEPT !.profiles[f] = Erased(db.profiles[f])])
    BY <1>1, <1>2, ProfileWrite
  <1>4. \A w \in Workloads(db) : Content(db, w).profile # f
    BY <1>1 DEF ReferencesProfile, UsersOfProfile
  <1>. QED
    BY <1>1, <1>3, <1>4, ProfilePlans, CommitUnread

\* HostProfileSettings: of a Profile that exists.
LEMMA SettingsStep ==
  ASSUME Consistent(db),
         \/ CreateHostProfileSettings \/ UpdateHostProfileSettings
         \/ DeleteHostProfileSettings
  PROVE  Leads(db, db')
  <1>1. PICK h \in Host, f \in Profile : \E r :
            /\ IsRow(r, RowColumns) /\ (Live(r) => Live(db.profiles[f]))
            /\ CommitPropagated([db EXCEPT !.settings[<<h, f>>] = r],
                                UsersOfSettings(db, h, f))
    <2>1. CASE CreateHostProfileSettings
      BY <2>1, FreshRow DEF CreateHostProfileSettings
    <2>2. CASE UpdateHostProfileSettings
      <3>1. PICK h \in Host, f \in Profile, t \in Tuning :
                /\ Live(db.settings[<<h, f>>])
                /\ CommitPropagated([db EXCEPT !.settings[<<h, f>>] =
                                        Revised(db.settings[<<h, f>>], t)],
                                    UsersOfSettings(db, h, f))
        BY <2>2 DEF UpdateHostProfileSettings
      <3>2. Live(db.profiles[f])
        BY <3>1 DEF Consistent, ReferencesIn
      <3>3. IsRow(db.settings[<<h, f>>], RowColumns)
        BY DEF Consistent, WellFormed, IsTable, IsRow, RowColumns
      <3>4. IsRow(Revised(db.settings[<<h, f>>], t), RowColumns)
        BY <3>3, RevisedRow
      <3>. QED
        BY <3>1, <3>2, <3>4
    <2>3. CASE DeleteHostProfileSettings
      BY <2>3, FreshRow DEF DeleteHostProfileSettings
    <2>. QED
      BY <2>1, <2>2, <2>3
  <1>2. PICK r :
            /\ IsRow(r, RowColumns) /\ (Live(r) => Live(db.profiles[f]))
            /\ CommitPropagated([db EXCEPT !.settings[<<h, f>>] = r],
                                UsersOfSettings(db, h, f))
    BY <1>1
  <1>3. Follows(db, [db EXCEPT !.settings[<<h, f>>] = r])
    BY <1>2, SettingsWrite
  <1>4. /\ UsersOfSettings(db, h, f) \subseteq Workloads(db)
        /\ \A w \in Workloads(db) \ UsersOfSettings(db, h, f) :
              Content(db, w).profile # f \/ Content(db, w).host # h
    BY DEF UsersOfSettings, UsersOfProfile
  <1>. QED
    BY <1>2, <1>3, <1>4, SettingsPlans, CommitRead

\* DesiredWorkloads: created with generation 1, which no plan can have yet.
LEMMA CreateDesiredWorkloadStep ==
  ASSUME Consistent(db), CreateDesiredWorkload
  PROVE  Leads(db, db')
  <1>1. PICK w \in WorkloadId, c \in WorkloadContent :
            LET placed == [db EXCEPT !.workloads[w] =
                              [rev |-> 1, content |-> c, gen |-> 1, hash |-> None]]
                hash == Resolve(placed, w)
            IN  /\ db.workloads[w] = NoWorkload
                /\ ~ResourceConflict(db, w, c) /\ Live(db.profiles[c.profile])
                /\ Resolvable(placed, w)
                /\ Commit(SnapshotIfReady([placed EXCEPT !.workloads[w].hash = hash], w, hash))
    BY DEF CreateDesiredWorkload
  <1>. DEFINE placed == [db EXCEPT !.workloads[w] =
                            [rev |-> 1, content |-> c, gen |-> 1, hash |-> None]]
              hash == Resolve(placed, w)
              r == [rev |-> 1, content |-> c, gen |-> 1, hash |-> hash]
              n == [db EXCEPT !.workloads[w] = r]
  <1>2. IsRow(r, WorkloadColumns) /\ r.gen = 1 /\ r.content = c
    BY DEF IsRow, WorkloadColumns
  <1>3. db.workloads[w].gen = 0
    BY <1>1 DEF NoWorkload
  <1>4. c \in Work
    BY FarmAssumption
  <1>5. [placed EXCEPT !.workloads[w].hash = hash] = n
    <2>. DEFINE q == [rev |-> 1, content |-> c, gen |-> 1, hash |-> None]
                t == [db.workloads EXCEPT ![w] = q]
    <2>1. /\ db = [x \in TableName |-> db[x]] /\ "workloads" \in TableName
          /\ w \in DOMAIN db.workloads
      BY DEF Consistent, WellFormed, IsTable, TableName
    <2>2. placed = [db EXCEPT !.workloads = t] /\ placed.workloads = t /\ t[w] = q
      BY <2>1
    <2>3. [q EXCEPT !.hash = hash] = r
      OBVIOUS
    <2>. HIDE DEF hash
    <2>4. [placed EXCEPT !.workloads[w].hash = hash]
            = [placed EXCEPT !.workloads = [t EXCEPT ![w] = r]]
      BY <2>2, <2>3
    <2>5. [t EXCEPT ![w] = r] = [db.workloads EXCEPT ![w] = r]
      OBVIOUS
    <2>. QED
      BY <2>2, <2>4, <2>5
  <1>6. n.workloads[w] = r /\ n.snapshots = db.snapshots
    BY DEF Consistent, WellFormed, IsTable, TableName
  <1>7. Commit(SnapshotIfReady(n, w, hash))
    BY <1>1, <1>5
  <1>8. /\ SameTables(db, placed) /\ placed.snapshots = db.snapshots
        /\ Content(placed, w) = c /\ Resolvable(placed, w)
    BY <1>1, WorkloadWritten DEF Content
  <1>9. r.hash = hash
    OBVIOUS
  <1>10. hash = Resolve(placed, w)
    OBVIOUS
  <1>. HIDE DEF hash, placed, r
  <1>11. /\ SameTables(db, n) /\ n.workloads[w] = r
         /\ \A v \in WorkloadId : v # w => n.workloads[v] = db.workloads[v]
    BY WorkloadWritten
  <1>12. Follows(db, n)
    BY <1>1, <1>2, <1>3, <1>4, WorkloadWrite
  <1>13. <<w, n.workloads[w].gen>> \notin DOMAIN n.snapshots
    BY <1>2, <1>3, <1>6, WorkloadFacts
  <1>. HIDE DEF n
  <1>14. Follows(n, SnapshotIfReady(n, w, hash))
    BY <1>12, <1>13, SnapshotFollows DEF SnapshotIfReady, Follows, KeepsPlans
  <1>15. PICK s : s = SnapshotIfReady(n, w, hash)
    OBVIOUS
  <1>16. Follows(db, s)
    BY <1>12, <1>14, <1>15, FollowsTrans
  <1>17. \A v : Generations(n, v) = Generations(db, v)
    BY <1>6 DEF Generations
  <1>18. /\ SameTables(n, s) /\ s.workloads = n.workloads
         /\ Ready(hash) => /\ s.snapshots[<<w, 1>>] = hash
                           /\ \A g : g \in Generations(s, w) <=> g \in Generations(n, w) \/ g = 1
         /\ ~Ready(hash) => s.snapshots = n.snapshots
         /\ \A v \in WorkloadId : v # w => Generations(s, v) = Generations(n, v)
    <2>1. CASE Ready(hash)
      <3>1. s = Snapshot(n, w, hash) /\ Consistent(n) /\ n.workloads[w].gen = 1
        BY <1>2, <1>6, <1>12, <1>15, <2>1 DEF SnapshotIfReady, Follows
      <3>. QED
        BY <1>13, <2>1, <3>1, SnapshotIs
    <2>2. CASE ~Ready(hash)
      <3>1. s = n
        BY <1>15, <2>2 DEF SnapshotIfReady
      <3>. QED
        BY <2>2, <3>1 DEF SameTables
    <2>. QED
      BY <2>1, <2>2
  <1>19. /\ SameTables(db, s) /\ s.workloads[w] = r
         /\ \A v \in WorkloadId : v # w =>
               s.workloads[v] = db.workloads[v] /\ Generations(s, v) = Generations(db, v)
    BY <1>11, <1>17, <1>18 DEF SameTables
  <1>20. Effective(s, w)
    <2>1. Content(s, w) = c /\ SameTables(placed, s)
      BY <1>2, <1>8, <1>19 DEF Content, SameTables
    <2>2. ProfileOf(s, w) = ProfileOf(placed, w)
          /\ EffectiveTuning(s, w) = EffectiveTuning(placed, w)
      BY <1>8, <2>1 DEF SameTables, ProfileOf, EffectiveTuning
    <2>3. Resolvable(s, w)
      BY <1>8, <2>1, <2>2 DEF Resolvable, SameTables
    <2>4. LatestAssignments(s, w) = LatestAssignments(placed, w)
      <3>1. CASE Ready(hash)
        <4>1. c.devices = {}
          BY <1>8, <1>10, <3>1 DEF Ready, Resolve, ResolveWith
        <4>. QED
          BY <1>8, <2>1, <4>1 DEF LatestAssignments
      <3>2. CASE ~Ready(hash)
        <4>1. s.snapshots = placed.snapshots
          BY <1>6, <1>8, <1>18, <3>2
        <4>. QED
          BY <1>8, <2>1, <4>1 DEF LatestAssignments, Latest, Generations
      <3>. QED
        BY <3>1, <3>2
    <2>5. Resolve(s, w) = hash
      BY <1>8, <1>10, <2>1, <2>2, <2>4 DEF Resolve, ResolveWith, SameTables
    <2>6. Planned(s, w)
      <3>1. \A g : g \in Generations(s, w) <=> <<w, g>> \in DOMAIN s.snapshots
        BY <1>16, GenerationsAre DEF Follows
      <3>2. ~Ready(hash) => <<w, 1>> \notin DOMAIN s.snapshots
        BY <1>2, <1>6, <1>13, <1>18
      <3>3. Ready(hash) => hash.run
        BY DEF Ready
      <3>. QED
        BY <1>2, <1>9, <1>18, <1>19, <3>1, <3>2, <3>3 DEF Planned
    <2>. QED
      BY <1>9, <1>19, <2>3, <2>5, <2>6, EffectiveIs
  <1>21. \/ Generations(s, w) = Generations(db, w)
         \/ \E g \in Nat : NewPlan(db, s, w, g)
    <2>1. CASE Ready(hash)
      <3>1. \A e \in Generations(db, w) : e < 1
        BY <1>3, GenerationsAre
      <3>2. s.snapshots[<<w, 1>>].devices = {}
        BY <1>18, <2>1 DEF Ready
      <3>3. NewPlan(db, s, w, 1)
        BY <1>17, <1>18, <2>1, <3>1, <3>2 DEF NewPlan
      <3>. QED
        BY <3>3
    <2>2. CASE ~Ready(hash)
      BY <1>17, <1>18, <2>2 DEF Generations
    <2>. QED
      BY <2>1, <2>2
  <1>22. Leads(db, s)
    BY <1>16, <1>19, <1>20, <1>21, OneWorkload
  <1>. QED
    BY <1>7, <1>15, <1>22, CommitLeads

\* UpdateDesiredWorkload does.
LEMMA UpdateDesiredWorkloadStep ==
  ASSUME Consistent(db), UpdateDesiredWorkload
  PROVE  Leads(db, db')
  BY UpdatedLeads, CommitLeads, FarmAssumption DEF UpdateDesiredWorkload

\* DeleteDesiredWorkload does.
LEMMA DeleteDesiredWorkloadStep ==
  ASSUME Consistent(db),
         DeleteDesiredWorkload
            \/ \E w \in WorkloadId : FinalizeRetiredDesiredWorkloadDeletion(w)
  PROVE  Leads(db, db')
  BY WithoutWorkloadLeads, CommitLeads
     DEF DeleteDesiredWorkload, FinalizeRetiredDesiredWorkloadDeletion, Workloads

\* A plan for the next generation of a row, or the first one of its generation.
LEMMA NewPlanFollows ==
  ASSUME NEW d, Consistent(d), NEW w \in Workloads(d), NEW r, NEW hash, NEW bindings,
         IsRow(r, WorkloadColumns), r.content = Content(d, w),
         \/ r.gen = d.workloads[w].gen + 1
         \/ r.gen = d.workloads[w].gen /\ <<w, r.gen>> \notin DOMAIN d.snapshots,
         NEW n, n = [d EXCEPT !.workloads[w] = r, !.bindings = bindings]
  PROVE  Consistent(n) /\ Follows(d, Snapshot(n, w, hash))
  <1>. DEFINE m == [d EXCEPT !.workloads[w] = r]
  <1>1. w \in WorkloadId
    BY DEF Workloads
  <1>2. /\ r.gen \in Nat /\ d.workloads[w].gen <= r.gen
        /\ <<w, r.gen>> \notin DOMAIN d.snapshots
    BY <1>1, WorkloadFacts
  <1>3. Follows(d, m)
    BY <1>1, <1>2, WorkloadFacts, WorkloadWrite
  <1>4. n = [m EXCEPT !.bindings = bindings, !.holds = d.holds, !.incidents = d.incidents]
    BY DEF Consistent, WellFormed, TableName
  <1>5. n.workloads[w] = r /\ n.snapshots = d.snapshots
    BY <1>1 DEF Consistent, WellFormed, IsTable, TableName
  <1>. HIDE DEF m
  <1>6. Follows(d, n)
    <2>1. Follows(m, [m EXCEPT !.bindings = bindings, !.holds = d.holds,
                               !.incidents = d.incidents])
      BY <1>3, OtherWrite DEF Follows
    <2>. QED
      BY <1>3, <1>4, <2>1, FollowsTrans
  <1>7. Follows(n, Snapshot(n, w, hash))
    BY <1>1, <1>2, <1>5, <1>6, SnapshotFollows DEF Follows
  <1>. QED
    BY <1>6, <1>7, FollowsTrans DEF Follows

\* A plan for the next generation of a row, or the first one of its generation, that
\* says what the rows say and binds the same hardware as the plan before.
LEMMA NewPlanLeads ==
  ASSUME NEW d, Consistent(d), NEW w \in Workloads(d), NEW r, NEW hash, NEW bindings,
         IsRow(r, WorkloadColumns), r.content = Content(d, w), r.hash = hash,
         \/ r.gen = d.workloads[w].gen + 1
         \/ r.gen = d.workloads[w].gen /\ <<w, r.gen>> \notin DOMAIN d.snapshots,
         PlansIn(d) =>
            /\ Resolvable(d, w) /\ hash.run /\ hash = ResolveWith(d, w, hash.gpu)
            /\ IF hash.devices = {} THEN hash.gpu = None
               ELSE hash.gpu # None /\ DOMAIN hash.gpu = hash.devices
            /\ Generations(d, w) # {} =>
                  SameBinding(d.snapshots[<<w, Latest(d, w)>>], hash),
         NEW n, n = [d EXCEPT !.workloads[w] = r, !.bindings = bindings]
  PROVE  Leads(d, Snapshot(n, w, hash))
  <1>1. w \in WorkloadId
    BY DEF Workloads
  <1>2. PICK s : s = Snapshot(n, w, hash)
    OBVIOUS
  <1>3. Consistent(n) /\ Follows(d, s)
    BY <1>2, NewPlanFollows
  <1>4. /\ n.workloads = [d.workloads EXCEPT ![w] = r] /\ n.snapshots = d.snapshots
        /\ SameTables(d, n)
    BY DEF Consistent, WellFormed, TableName, SameTables
  <1>5. n.workloads[w] = r /\ \A v \in WorkloadId : v # w => n.workloads[v] = d.workloads[v]
    <2>1. IsTable(d.workloads, WorkloadId, WorkloadColumns)
      BY DEF Consistent, WellFormed, WorkloadColumns
    <2>2. PICK rows : rows = [d.workloads EXCEPT ![w] = r]
      OBVIOUS
    <2>3. rows[w] = r /\ \A v \in WorkloadId : v # w => rows[v] = d.workloads[v]
      BY <1>1, <2>1, <2>2, RowWrite
    <2>. QED
      BY <1>4, <2>2, <2>3
  <1>6. \A v : Generations(n, v) = Generations(d, v)
    BY <1>4 DEF Generations
  <1>7. /\ r.gen \in Nat /\ <<w, r.gen>> \notin DOMAIN d.snapshots
        /\ \A g \in Generations(d, w) : g < r.gen /\ g \in Nat
    <2>1. /\ d.workloads[w].gen \in Nat /\ Generations(d, w) \subseteq Nat
          /\ \A g \in Generations(d, w) : g <= d.workloads[w].gen
          /\ \A g : g \in Generations(d, w) <=> <<w, g>> \in DOMAIN d.snapshots
      BY <1>1, GenerationsAre
    <2>. QED
      BY <2>1
  <1>8. /\ SameTables(n, s) /\ s.workloads = n.workloads
        /\ s.snapshots[<<w, r.gen>>] = hash
        /\ \A g : g \in Generations(s, w) <=> g \in Generations(d, w) \/ g = r.gen
        /\ \A v \in WorkloadId : v # w => Generations(s, v) = Generations(d, v)
    <2>1. <<w, n.workloads[w].gen>> \notin DOMAIN n.snapshots
      BY <1>4, <1>5, <1>7
    <2>2. /\ SameTables(n, s) /\ s.workloads = n.workloads
          /\ s.snapshots[<<w, n.workloads[w].gen>>] = hash
          /\ \A g : g \in Generations(s, w) <=>
                       g \in Generations(n, w) \/ g = n.workloads[w].gen
          /\ \A v \in WorkloadId : v # w => Generations(s, v) = Generations(n, v)
      <3>1. PICK m : m = n
        OBVIOUS
      <3>2. s = Snapshot(m, w, hash) /\ Consistent(m)
            /\ <<w, m.workloads[w].gen>> \notin DOMAIN m.snapshots
        BY <1>2, <1>3, <2>1, <3>1
      <3>3. /\ SameTables(m, s) /\ s.workloads = m.workloads
            /\ s.snapshots[<<w, m.workloads[w].gen>>] = hash
            /\ \A g : g \in Generations(s, w) <=>
                         g \in Generations(m, w) \/ g = m.workloads[w].gen
            /\ \A v \in WorkloadId : v # w => Generations(s, v) = Generations(m, v)
        BY <1>1, <3>2, SnapshotIs
      <3>. QED
        BY <3>1, <3>3
    <2>. QED
      BY <1>5, <1>6, <2>2
  <1>9. SameTables(d, s)
    BY <1>4, <1>8 DEF SameTables
  <1>10. ASSUME PlansIn(d) PROVE Effective(s, w) /\ NewPlan(d, s, w, r.gen)
    <2>1. NewPlan(d, s, w, r.gen)
      BY <1>7, <1>8, <1>10 DEF NewPlan
    <2>2. /\ Content(s, w) = Content(d, w) /\ ProfileOf(s, w) = ProfileOf(d, w)
          /\ s.workloads[w] = r
      BY <1>5, <1>8, <1>9 DEF Content, ProfileOf, SameTables
    <2>3. EffectiveTuning(s, w) = EffectiveTuning(d, w)
      BY <1>9, <2>2 DEF EffectiveTuning, SameTables
    <2>4. Latest(s, w) = r.gen /\ Generations(s, w) # {}
      <3>1. r.gen \in Generations(s, w) /\ Generations(s, w) \subseteq Nat
            /\ \A g \in Generations(s, w) : g <= r.gen
        BY <1>7, <1>8
      <3>. QED
        BY <3>1, GreatestIs DEF Latest
    <2>5. hash.devices = Content(s, w).devices /\ hash.run = Content(s, w).run
      BY <1>10, <2>2 DEF ResolveWith
    <2>6. LatestAssignments(s, w) = hash.gpu
      BY <1>8, <1>10, <2>4, <2>5 DEF LatestAssignments
    <2>7. Resolve(s, w) = ResolveWith(d, w, hash.gpu)
      BY <1>9, <2>2, <2>3, <2>6 DEF Resolve, ResolveWith, SameTables
    <2>8. Resolvable(s, w)
      BY <1>9, <1>10, <2>2, <2>3 DEF Resolvable, SameTables
    <2>9. <<w, r.gen>> \in DOMAIN s.snapshots
      BY <1>1, <1>3, <2>4, GenerationsAre DEF Follows
    <2>10. Planned(s, w)
      BY <1>8, <1>10, <2>2, <2>9 DEF Planned
    <2>. QED
      BY <1>10, <2>1, <2>2, <2>7, <2>8, <2>10, EffectiveIs
  <1>11. \A v \in WorkloadId : v # w =>
            s.workloads[v] = d.workloads[v] /\ Generations(s, v) = Generations(d, v)
    BY <1>5, <1>8
  <1>. QED
    BY <1>1, <1>2, <1>3, <1>7, <1>9, <1>10, <1>11, OneWorkload

\* A retry: a new generation with the plan of the blocked one.
LEMMA RetryWorkloadStep ==
  ASSUME Consistent(db), RetryWorkload
  PROVE  Leads(db, db')
  <1>1. PICK w \in Workloads(db) :
            LET row == db.workloads[w]
                next == [db EXCEPT !.workloads[w] = [row EXCEPT !.rev = @ + 1,
                                                                !.gen = row.gen + 1],
                                   !.bindings[w] = NoBinding]
            IN  /\ Content(db, w).run /\ <<w, row.gen>> \in DOMAIN db.snapshots
                /\ Commit(Snapshot(next, w, db.snapshots[<<w, row.gen>>]))
    BY DEF RetryWorkload
  <1>. DEFINE row == db.workloads[w]
              r == [row EXCEPT !.rev = row.rev + 1, !.gen = row.gen + 1]
              b == [db.bindings EXCEPT ![w] = NoBinding]
              n == [db EXCEPT !.workloads[w] = r, !.bindings = b]
              plan == db.snapshots[<<w, row.gen>>]
  <1>2. Commit(Snapshot(n, w, plan))
    BY <1>1
  <1>3. row = [x \in WorkloadColumns |-> row[x]] /\ row.rev \in Int
    BY WorkloadFacts DEF IsRow, Workloads
  <1>4. /\ r = [x \in WorkloadColumns |-> r[x]]
        /\ r.rev = row.rev + 1 /\ r.gen = row.gen + 1 /\ r.content = row.content
        /\ r.hash = row.hash
    BY <1>3 DEF WorkloadColumns
  <1>5. w \in WorkloadId /\ <<w, row.gen>> \in DOMAIN db.snapshots
    BY <1>1 DEF Workloads
  <1>. HIDE DEF r, b
  <1>6. IsRow(r, WorkloadColumns) /\ r.content = Content(db, w)
    <2>1. r.rev \in Int
      BY <1>3, <1>4
    <2>. QED
      BY <1>4, <2>1 DEF IsRow, Content
  <1>7. ASSUME PlansIn(db)
        PROVE  /\ r.hash = plan /\ Resolvable(db, w) /\ plan.run
               /\ plan = ResolveWith(db, w, plan.gpu)
               /\ IF plan.devices = {} THEN plan.gpu = None
                  ELSE plan.gpu # None /\ DOMAIN plan.gpu = plan.devices
               /\ SameBinding(db.snapshots[<<w, Latest(db, w)>>], plan)
    <2>1. Resolvable(db, w) /\ row.hash = Resolve(db, w) /\ Planned(db, w)
      BY <1>7, EffectiveIs DEF PlansIn, EffectiveIn
    <2>2. plan = row.hash /\ row.hash.run
      BY <1>5, <2>1 DEF Planned
    <2>3. Latest(db, w) = row.gen
      BY <1>5, GenerationsAre, GreatestIs DEF Latest
    <2>4. plan.gpu = LatestAssignments(db, w) /\ plan.devices = Content(db, w).devices
      BY <2>1, <2>2 DEF Resolve, ResolveWith
    <2>5. plan = ResolveWith(db, w, plan.gpu)
      BY <2>1, <2>2, <2>4 DEF Resolve
    <2>6. plan.devices = {} => plan.gpu = None
      BY <2>4 DEF LatestAssignments
    <2>7. plan.devices # {} => plan.gpu # None /\ DOMAIN plan.gpu = plan.devices
      BY <1>5, <1>7 DEF PlansIn, BoundIn
    <2>8. SameBinding(db.snapshots[<<w, Latest(db, w)>>], plan)
      BY <2>3 DEF SameBinding
    <2>. QED
      BY <1>4, <2>1, <2>2, <2>5, <2>6, <2>7, <2>8
  <1>. HIDE DEF plan
  <1>8. CASE PlansIn(db)
    <2>1. Leads(db, Snapshot(n, w, plan))
      BY <1>4, <1>6, <1>7, <1>8, NewPlanLeads
    <2>. QED
      BY <1>2, <2>1, CommitLeads
  <1>9. CASE ~PlansIn(db)
    <2>1. Follows(db, Snapshot(n, w, plan))
      BY <1>4, <1>6, NewPlanFollows
    <2>. QED
      BY <1>2, <1>9, <2>1, CommitFollows DEF Leads
  <1>. QED
    BY <1>8, <1>9

\* A plan bound to the inventory: the first of its generation, or of a new one.
LEMMA RefreshStep ==
  ASSUME Consistent(db), RefreshResolvedSnapshotForInventory
  PROVE  Leads(db, db')
  <1>1. PICK w \in Workloads(db), inv \in Inventory :
            LET row == db.workloads[w]
                planned == <<w, row.gen>> \in DOMAIN db.snapshots
                now == Assignments(Content(db, w).devices, inv)
                hash == ResolveWith(db, w, now)
                next == [db EXCEPT !.workloads[w].hash = hash,
                                   !.workloads[w].gen = BoundGeneration(row, planned)]
            IN  /\ Content(db, w).run /\ Content(db, w).devices # {} /\ Resolvable(db, w)
                /\ SameHardware(LatestAssignments(db, w), now)
                /\ Commit(Snapshot(next, w, hash))
    BY DEF RefreshResolvedSnapshotForInventory
  <1>. DEFINE row == db.workloads[w]
              planned == <<w, row.gen>> \in DOMAIN db.snapshots
              now == Assignments(Content(db, w).devices, inv)
              hash == ResolveWith(db, w, now)
              g == BoundGeneration(row, planned)
              r == [row EXCEPT !.hash = hash, !.gen = g]
              b == db.bindings
              next == [db EXCEPT !.workloads[w].hash = hash, !.workloads[w].gen = g]
              n == [db EXCEPT !.workloads[w] = r, !.bindings = b]
  <1>2. w \in WorkloadId
    BY DEF Workloads
  <1>3. row = [x \in WorkloadColumns |-> row[x]] /\ row.rev \in Int /\ row.gen \in Nat
    BY <1>2, WorkloadFacts DEF IsRow
  <1>4. \/ g = row.gen + 1
        \/ g = row.gen /\ <<w, g>> \notin DOMAIN db.snapshots
    BY DEF BoundGeneration
  <1>5. hash = ResolveWith(db, w, now) /\ hash.gpu = now
    BY DEF ResolveWith
  <1>6. now # None /\ DOMAIN now = Content(db, w).devices
    <2>1. Content(db, w).devices \in SUBSET Device
      BY <1>2, WorkloadFacts DEF Work
    <2>. QED
      BY <2>1, FarmAssumption DEF Assignments
  <1>. HIDE DEF g, hash, now
  <1>7. /\ r = [x \in WorkloadColumns |-> r[x]]
        /\ r.rev = row.rev /\ r.gen = g /\ r.content = row.content /\ r.hash = hash
    BY <1>3 DEF WorkloadColumns
  <1>8. IsRow(r, WorkloadColumns) /\ r.content = Content(db, w)
    BY <1>3, <1>7 DEF IsRow, Content
  <1>9. next = n
    BY <1>2 DEF Consistent, WellFormed, IsTable, TableName
  <1>10. Commit(Snapshot(n, w, hash))
    BY <1>1, <1>9 DEF g, hash, now
  <1>11. /\ Content(db, w).run /\ Content(db, w).devices # {} /\ Resolvable(db, w)
         /\ SameHardware(LatestAssignments(db, w), now)
    BY <1>1 DEF now
  <1>. HIDE DEF r, next, b
  <1>12. /\ hash.run /\ hash.devices = Content(db, w).devices
         /\ hash = ResolveWith(db, w, hash.gpu)
         /\ hash.gpu # None /\ DOMAIN hash.gpu = hash.devices
    BY <1>5, <1>6, <1>11 DEF ResolveWith
  <1>13. ASSUME PlansIn(db), Generations(db, w) # {}
         PROVE  SameBinding(db.snapshots[<<w, Latest(db, w)>>], hash)
    <2>. DEFINE last == db.snapshots[<<w, Latest(db, w)>>]
    <2>1. CASE last.devices # hash.devices
      BY <2>1 DEF SameBinding
    <2>2. CASE last.devices = hash.devices
      <3>1. LatestAssignments(db, w) = last.gpu
        BY <1>11, <1>12, <1>13, <2>2 DEF LatestAssignments
      <3>2. <<w, Latest(db, w)>> \in DOMAIN db.snapshots
        BY <1>2, <1>13, GenerationsAre
      <3>3. last.gpu # None /\ DOMAIN last.gpu = hash.devices
        BY <1>11, <1>12, <1>13, <2>2, <3>2 DEF PlansIn, BoundIn
      <3>. QED
        BY <1>5, <1>11, <3>1, <3>3 DEF SameHardware, SameBinding
    <2>. QED
      BY <2>1, <2>2
  <1>14. Leads(db, Snapshot(n, w, hash))
    BY <1>4, <1>7, <1>8, <1>11, <1>12, <1>13, NewPlanLeads
  <1>. QED
    BY <1>10, <1>14, CommitLeads

\* Operations on the tables the invariant is not about.
LEMMA OtherStep ==
  ASSUME Consistent(db),
         BlockDesiredGeneration
            \/ \E h \in Host, active \in BOOLEAN : SetMaintenanceHold(h, active)
  PROVE  Leads(db, db')
  <1>1. PICK bindings, holds :
            Commit([db EXCEPT !.bindings = bindings, !.holds = holds,
                              !.incidents = db.incidents])
    <2>1. db = [t \in TableName |-> db[t]]
      BY DEF Consistent, WellFormed
    <2>2. CASE BlockDesiredGeneration
      <3>1. PICK w \in Workloads(db) : \E b : Commit([db EXCEPT !.bindings[w] = b])
        BY <2>2 DEF BlockDesiredGeneration
      <3>2. PICK b : Commit([db EXCEPT !.bindings[w] = b])
        BY <3>1
      <3>3. [db EXCEPT !.bindings[w] = b]
              = [db EXCEPT !.bindings = [db.bindings EXCEPT ![w] = b], !.holds = db.holds,
                           !.incidents = db.incidents]
        BY <2>1 DEF TableName
      <3>. QED
        BY <3>2, <3>3
    <2>3. CASE \E h \in Host, active \in BOOLEAN : SetMaintenanceHold(h, active)
      <3>1. PICK h \in Host : \E r : Commit([db EXCEPT !.holds[h] = r])
        BY <2>3 DEF SetMaintenanceHold
      <3>2. PICK r : Commit([db EXCEPT !.holds[h] = r])
        BY <3>1
      <3>3. [db EXCEPT !.holds[h] = r]
              = [db EXCEPT !.bindings = db.bindings, !.holds = [db.holds EXCEPT ![h] = r],
                           !.incidents = db.incidents]
        BY <2>1 DEF TableName
      <3>. QED
        BY <3>2, <3>3
    <2>. QED
      BY <2>2, <2>3
  <1>. QED
    BY <1>1, OtherWrite, UnplannedWrite, CommitLeads DEF Leads

\* Barriers: one in conflict is still one, and the last that goes ends the
\* reconciliation.
LEMMA BarrierStep ==
  ASSUME Consistent(db), MarkRestoreHostConflict \/ ClearRestoreHostBarrier
  PROVE  Leads(db, db')
  <1>. DEFINE Columns == {"rev", "status"}
  <1>1. /\ IsTable(db.barriers, Host, Columns)
        /\ db = [t \in TableName |-> db[t]]
        /\ \A h \in Host : db.barriers[h].status = "PENDING" => Live(db.barriers[h])
        /\ db.restoreRequired <=> \E h \in Host : Live(db.barriers[h])
    BY DEF Consistent, WellFormed, RestoringIn
  <1>2. CASE MarkRestoreHostConflict
    <2>1. PICK h \in Host :
              /\ db.barriers[h].status = "PENDING"
              /\ Commit([db EXCEPT !.barriers[h] =
                            [rev |-> db.barriers[h].rev + 1, status |-> "CONFLICT"]])
      BY <1>2 DEF MarkRestoreHostConflict
    <2>. DEFINE r == [rev |-> db.barriers[h].rev + 1, status |-> "CONFLICT"]
                b == [db.barriers EXCEPT ![h] = r]
    <2>2. Live(db.barriers[h]) /\ db.barriers[h].rev \in Int
      BY <1>1, <2>1 DEF IsTable
    <2>3. /\ r = [c \in Columns |-> r[c]] /\ r.rev \in Int /\ r.status = "CONFLICT" /\ Live(r)
      BY <2>2 DEF Live
    <2>. HIDE DEF r
    <2>4. IsTable(b, Host, Columns) /\ b[h] = r /\ \A j \in Host : j # h => b[j] = db.barriers[j]
      BY <1>1, <2>3 DEF IsTable
    <2>5. [db EXCEPT !.barriers[h] = r]
            = [db EXCEPT !.barriers = b, !.restoreRequired = db.restoreRequired]
      BY <1>1 DEF TableName
    <2>6. Commit([db EXCEPT !.barriers = b, !.restoreRequired = db.restoreRequired])
      BY <2>1, <2>5 DEF r
    <2>. HIDE DEF b
    <2>7. /\ \A j \in Host : b[j].status = "PENDING" => Live(b[j])
          /\ db.restoreRequired <=> \E j \in Host : Live(b[j])
      BY <1>1, <2>2, <2>3, <2>4
    <2>. QED
      BY <2>4, <2>6, <2>7, BarrierWrite, UnplannedWrite, CommitLeads DEF Leads
  <1>3. CASE ClearRestoreHostBarrier
    <2>1. PICK h \in Host :
              LET left == [db.barriers EXCEPT ![h] = NoBarrier]
              IN  Commit([db EXCEPT !.barriers = left, !.restoreRequired = StillRequired(left)])
      BY <1>3 DEF ClearRestoreHostBarrier
    <2>. DEFINE left == [db.barriers EXCEPT ![h] = NoBarrier]
    <2>2. /\ NoBarrier = [c \in Columns |-> NoBarrier[c]] /\ NoBarrier.rev \in Int
          /\ NoBarrier.status = "CLEAR"
      BY DEF NoBarrier
    <2>3. /\ IsTable(left, Host, Columns) /\ left[h] = NoBarrier
          /\ \A j \in Host : j # h => left[j] = db.barriers[j]
      BY <1>1, <2>2 DEF IsTable
    <2>4. Commit([db EXCEPT !.barriers = left, !.restoreRequired = StillRequired(left)])
      BY <2>1
    <2>. HIDE DEF left
    <2>5. \A j \in Host : left[j].status = "PENDING" => Live(left[j])
      BY <1>1, <2>2, <2>3
    <2>6. StillRequired(left) <=> \E j \in Host : Live(left[j])
      BY DEF StillRequired
    <2>. QED
      BY <2>3, <2>4, <2>5, <2>6, BarrierWrite, UnplannedWrite, CommitLeads DEF Leads
  <1>. QED
    BY <1>2, <1>3

\* The live operator, who writes what was read before.
LEMMA OperatorStep ==
  ASSUME FarmInv,
         OperatorSetsRunState \/ OperatorDeletesWorkload \/ OperatorSetsHold
  PROVE  Leads(db, db')
  <1>. USE DEF FarmInv, EditOK
  <1>1. CASE OperatorSetsRunState
    <2>1. PICK run \in BOOLEAN :
              LET w == edit.id
                  c == [edit.row.content EXCEPT !.run = run]
              IN  /\ w \in Workloads(db) /\ edit.row.content \in Work
                  /\ CanUpdate(db, w, c) /\ Commit(Updated(db, w, c))
      BY <1>1 DEF OperatorSetsRunState, SeenRow, Workloads, Live
    <2>2. [edit.row.content EXCEPT !.run = run] \in Work
      BY <2>1 DEF Work
    <2>. QED
      BY <2>1, <2>2, UpdatedLeads, CommitLeads
  <1>2. CASE OperatorDeletesWorkload
    BY <1>2, DeleteDesiredWorkloadStep DEF OperatorDeletesWorkload, SeenRow
  <1>3. CASE OperatorSetsHold
    BY <1>3, OtherStep DEF OperatorSetsHold, SeenRow
  <1>. QED
    BY <1>1, <1>2, <1>3

(***************************************************************************)
(* Types: every row is one that its table has, and what it counts is no    *)
(* more than the transactions there were.                                  *)
(***************************************************************************)

\* More transactions allow more rows.
LEMMA RowsGrow ==
  ASSUME NEW d, NEW n \in Nat, NEW g \in Nat, NEW m \in Nat, NEW h \in Nat,
         n <= m, g <= h, RowsIn(d, n, g)
  PROVE  RowsIn(d, m, h)
  <1>1. /\ Revision(n) \subseteq Revision(m) /\ 0..n \subseteq 0..m
        /\ 0..g \subseteq 0..h /\ 1..g \subseteq 1..h
    BY DEF Revision
  <1>2. \A c : Row(c, n) \subseteq Row(c, m)
    BY <1>1 DEF Row
  <1>3. WorkloadRow(n, g) \subseteq WorkloadRow(m, h)
    BY <1>1 DEF WorkloadRow
  <1>4. /\ d.pools \in [Pool -> PoolRow(m)] /\ d.wallets \in [Wallet -> WalletRow(m)]
        /\ d.profiles \in [Profile -> ProfileRow(m)]
        /\ d.settings \in [Host \X Profile -> SettingsRow(m)]
    BY <1>2 DEF RowsIn, PoolRow, WalletRow, ProfileRow, SettingsRow
  <1>5. d.workloads \in [WorkloadId -> WorkloadRow(m, h)]
    BY <1>3 DEF RowsIn
  <1>6. DOMAIN d.snapshots \subseteq WorkloadId \X (1..h)
    BY <1>1 DEF RowsIn
  <1>7. /\ d.bindings \in [WorkloadId -> [gen : 0..m, code : BlockCode \cup {None}]]
        /\ d.holds \in [Host -> [rev : Revision(m), active : BOOLEAN]]
        /\ d.barriers \in [Host -> [rev : Revision(m),
                                    status : {"CLEAR", "PENDING", "CONFLICT"}]]
    BY <1>1 DEF RowsIn
  <1>. QED
    BY <1>4, <1>5, <1>6, <1>7 DEF RowsIn

\* The rows that the operations on a table make in one more transaction.
LEMMA RowsMade ==
  ASSUME NEW contents, NEW n \in Nat, NEW r \in Row(contents, n), NEW c \in contents
  PROVE  /\ NewRow(c) \in Row(contents, n + 1) /\ NoRow \in Row(contents, n + 1)
         /\ Revised(r, c) \in Row(contents, n + 1) /\ Erased(r) \in Row(contents, n + 1)
  <1>. DEFINE Any == [rev : Revision(n + 1), content : contents \cup {None}]
  <1>1. /\ r \in [rev : Revision(n), content : contents \cup {None}]
        /\ r.rev \in -1..n /\ r.rev + 1 \in -1..(n + 1) /\ {-1, 0, 1} \subseteq -1..(n + 1)
    BY DEF Row, Revision
  <1>2. NewRow(c) \in Any /\ NewRow(c).content = c
    BY <1>1 DEF NewRow, Revision
  <1>3. NoRow \in Any /\ NoRow.rev = 0
    BY <1>1 DEF NoRow, Revision
  <1>4. Revised(r, c) \in Any /\ Revised(r, c).content = c
    BY <1>1 DEF Revised, Revision
  <1>5. Erased(r) \in Any /\ Erased(r).rev = -1
    BY <1>1 DEF Erased, Revision
  <1>. QED
    BY <1>2, <1>3, <1>4, <1>5 DEF Row, Live

\* One of a configuration table is written.
LEMMA ConfigTyped ==
  ASSUME NEW d, Consistent(d), NEW n, NEW g, RowsIn(d, n, g), NEW m,
         \/ \E p \in Pool, r \in PoolRow(n) : m = [d EXCEPT !.pools[p] = r]
         \/ \E k \in Wallet, r \in WalletRow(n) : m = [d EXCEPT !.wallets[k] = r]
         \/ \E f \in Profile, r \in ProfileRow(n) : m = [d EXCEPT !.profiles[f] = r]
         \/ \E k \in Host \X Profile, r \in SettingsRow(n) : m = [d EXCEPT !.settings[k] = r]
  PROVE  RowsIn(m, n, g)
  <1>1. d = [t \in TableName |-> d[t]]
    BY DEF Consistent, WellFormed
  <1>2. ASSUME NEW ids, NEW rows, NEW t \in [ids -> rows], NEW k \in ids, NEW r \in rows
        PROVE  [t EXCEPT ![k] = r] \in [ids -> rows]
    OBVIOUS
  <1>3. CASE \E p \in Pool, r \in PoolRow(n) : m = [d EXCEPT !.pools[p] = r]
    <2>1. PICK p \in Pool, r \in PoolRow(n) : m = [d EXCEPT !.pools = [d.pools EXCEPT ![p] = r]]
      BY <1>3
    <2>2. [d.pools EXCEPT ![p] = r] \in [Pool -> PoolRow(n)]
      BY <1>2 DEF RowsIn
    <2>. QED
      BY <1>1, <2>1, <2>2 DEF RowsIn, TableName
  <1>4. CASE \E k \in Wallet, r \in WalletRow(n) : m = [d EXCEPT !.wallets[k] = r]
    <2>1. PICK k \in Wallet, r \in WalletRow(n) :
              m = [d EXCEPT !.wallets = [d.wallets EXCEPT ![k] = r]]
      BY <1>4
    <2>2. [d.wallets EXCEPT ![k] = r] \in [Wallet -> WalletRow(n)]
      BY <1>2 DEF RowsIn
    <2>. QED
      BY <1>1, <2>1, <2>2 DEF RowsIn, TableName
  <1>5. CASE \E f \in Profile, r \in ProfileRow(n) : m = [d EXCEPT !.profiles[f] = r]
    <2>1. PICK f \in Profile, r \in ProfileRow(n) :
              m = [d EXCEPT !.profiles = [d.profiles EXCEPT ![f] = r]]
      BY <1>5
    <2>2. [d.profiles EXCEPT ![f] = r] \in [Profile -> ProfileRow(n)]
      BY <1>2 DEF RowsIn
    <2>. QED
      BY <1>1, <2>1, <2>2 DEF RowsIn, TableName
  <1>6. CASE \E k \in Host \X Profile, r \in SettingsRow(n) : m = [d EXCEPT !.settings[k] = r]
    <2>1. PICK k \in Host \X Profile, r \in SettingsRow(n) :
              m = [d EXCEPT !.settings = [d.settings EXCEPT ![k] = r]]
      BY <1>6
    <2>2. [d.settings EXCEPT ![k] = r] \in [Host \X Profile -> SettingsRow(n)]
      BY <1>2 DEF RowsIn
    <2>. QED
      BY <1>1, <2>1, <2>2 DEF RowsIn, TableName
  <1>. QED
    BY <1>3, <1>4, <1>5, <1>6

\* What a workload resolves to is a plan, for whatever it binds; also when its row is
\* only being written.
LEMMA PlanTyped ==
  ASSUME NEW d, Consistent(d), NEW n, NEW g, RowsIn(d, n, g), NEW m, SameTables(d, m),
         NEW w, Content(m, w) \in Work, Live(d.profiles[Content(m, w).profile]),
         NEW gpu \in Gpu
  PROVE  ResolveWith(m, w, gpu) \in Hash
  <1>1. Content(m, w).host \in Host /\ Content(m, w).profile \in Profile
    BY DEF Work
  <1>2. ProfileOf(m, w) \in ProfileContent /\ References(d, ProfileOf(m, w))
    BY <1>1 DEF Consistent, WellFormed, ReferencesIn, ProfileOf, SameTables
  <1>3. ProfileOf(m, w).pool \in Pool /\ ProfileOf(m, w).wallet \in Wallet
    BY <1>2, ReferredIds
  <1>4. /\ m.pools[ProfileOf(m, w).pool].content \in PoolContent
        /\ m.wallets[ProfileOf(m, w).wallet].content \in WalletContent
    BY <1>2, <1>3 DEF RowsIn, PoolRow, WalletRow, Row, References, SameTables
  <1>5. EffectiveTuning(m, w) \in Tuning \cup {None}
    <2>1. ProfileOf(m, w).tuning \in Tuning \cup {None}
      BY <1>2, FarmAssumption
    <2>2. m.settings[<<Content(m, w).host, Content(m, w).profile>>] \in SettingsRow(n)
      BY <1>1 DEF RowsIn, SameTables
    <2>. QED
      BY <2>1, <2>2 DEF EffectiveTuning, SettingsRow, Row
  <1>. QED
    BY <1>1, <1>4, <1>5 DEF ResolveWith, Hash, Work

\* The rows of a workload that is there, and its resolution.
LEMMA ResolvedTyped ==
  ASSUME NEW d, Consistent(d), NEW n, NEW g, RowsIn(d, n, g), NEW w \in Workloads(d)
  PROVE  /\ \A gpu \in Gpu : ResolveWith(d, w, gpu) \in Hash
         /\ Resolve(d, w) \in Hash
  <1>1. /\ w \in WorkloadId /\ Content(d, w) \in Work
        /\ Live(d.profiles[Content(d, w).profile])
    BY WorkloadReads, WorkloadFacts
  <1>2. ASSUME NEW gpu \in Gpu PROVE ResolveWith(d, w, gpu) \in Hash
    BY <1>1, <1>2, PlanTyped DEF SameTables
  <1>3. LatestAssignments(d, w) \in Gpu
    <2>1. CASE Generations(d, w) = {}
      BY <2>1 DEF LatestAssignments, Gpu
    <2>2. CASE Generations(d, w) # {}
      <3>1. <<w, Latest(d, w)>> \in DOMAIN d.snapshots
        BY <1>1, <2>2, GenerationsAre
      <3>2. d.snapshots[<<w, Latest(d, w)>>].gpu \in Gpu
        BY <3>1 DEF RowsIn, Hash
      <3>3. None \in Gpu
        BY DEF Gpu
      <3>. QED
        BY <3>2, <3>3 DEF LatestAssignments
    <2>. QED
      BY <2>1, <2>2
  <1>. QED
    BY <1>2, <1>3 DEF Resolve

\* New generations are those of one more transaction, and their plans are plans.
LEMMA NewGenerationsTyped ==
  ASSUME NEW d, Consistent(d), NEW n \in Nat, NEW g \in Nat, RowsIn(d, n, g),
         NEW moved, moved \subseteq Workloads(d)
  PROVE  RowsIn(NewGenerations(d, moved), n, g + 1)
  <1>. DEFINE m == NewGenerations(d, moved)
  <1>1. moved \subseteq WorkloadId
    BY DEF Workloads
  <1>2. /\ SameTables(d, m) /\ KeepsPlans(d, m) /\ Consistent(m)
        /\ \A w \in WorkloadId :
              /\ Content(m, w) = Content(d, w) /\ m.workloads[w].rev = d.workloads[w].rev
              /\ w \notin moved => m.workloads[w] = d.workloads[w]
              /\ w \in moved => /\ m.workloads[w].gen = d.workloads[w].gen + 1
                                /\ m.workloads[w].hash = Resolve(d, w)
        /\ \A k : k \in DOMAIN m.snapshots <=>
              \/ k \in DOMAIN d.snapshots
              \/ /\ k[1] \in moved /\ Ready(Resolve(d, k[1]))
                 /\ k = <<k[1], d.workloads[k[1]].gen + 1>>
        /\ \A w \in moved : Ready(Resolve(d, w)) =>
              m.snapshots[<<w, d.workloads[w].gen + 1>>] = Resolve(d, w)
    BY <1>1, NewGenerationsAre
  <1>3. /\ m.bindings = d.bindings /\ m.holds = d.holds /\ m.barriers = d.barriers
        /\ m.restoreRequired = d.restoreRequired
    BY DEF NewGenerations, Consistent, WellFormed, TableName
  <1>. HIDE DEF m
  <1>4. \A w \in moved : Resolve(d, w) \in Hash
    BY ResolvedTyped
  <1>5. \A w \in WorkloadId :
           /\ d.workloads[w] \in WorkloadRow(n, g)
           /\ d.workloads[w].gen \in 0..g /\ d.workloads[w].gen + 1 \in 1..(g + 1)
           /\ d.workloads[w].rev \in Revision(n) /\ d.workloads[w].content \in Work \cup {None}
           /\ Live(d.workloads[w]) => d.workloads[w].content \in Work
    BY DEF RowsIn, WorkloadRow
  <1>6. RowsIn(d, n, g + 1)
    BY RowsGrow
  <1>7. ASSUME NEW w \in WorkloadId PROVE m.workloads[w] \in WorkloadRow(n, g + 1)
    <2>1. CASE w \notin moved
      BY <1>2, <1>6, <2>1 DEF RowsIn
    <2>2. CASE w \in moved
      <3>1. m.workloads[w] = [c \in WorkloadColumns |-> m.workloads[w][c]]
        BY <1>2, WorkloadFacts DEF IsRow
      <3>2. /\ m.workloads[w].rev \in Revision(n) /\ m.workloads[w].hash \in Hash
            /\ m.workloads[w].gen \in 1..(g + 1)
            /\ m.workloads[w].content = d.workloads[w].content
        BY <1>2, <1>4, <1>5, <2>2 DEF Content
      <3>3. Live(d.workloads[w])
        BY <2>2 DEF Workloads
      <3>4. m.workloads[w].content \in Work
        BY <1>5, <3>2, <3>3
      <3>5. m.workloads[w] \in [rev : Revision(n), content : Work \cup {None},
                                gen : 0..(g + 1), hash : Hash \cup {None}]
        BY <3>1, <3>2, <3>4 DEF WorkloadColumns
      <3>. QED
        BY <3>2, <3>4, <3>5 DEF WorkloadRow
    <2>. QED
      BY <2>1, <2>2
  <1>8. m.workloads \in [WorkloadId -> WorkloadRow(n, g + 1)]
    <2>1. m.workloads = [w \in WorkloadId |-> m.workloads[w]]
      BY <1>2 DEF Consistent, WellFormed, IsTable
    <2>. QED
      BY <1>7, <2>1
  <1>9. ASSUME NEW k \in DOMAIN m.snapshots
        PROVE  k \in WorkloadId \X (1..(g + 1)) /\ m.snapshots[k] \in Hash
    <2>1. CASE k \in DOMAIN d.snapshots
      <3>1. k \in WorkloadId \X (1..(g + 1)) /\ d.snapshots[k] \in Hash
        BY <1>6, <2>1 DEF RowsIn
      <3>. QED
        BY <1>2, <2>1, <3>1 DEF KeepsPlans
    <2>2. CASE k \notin DOMAIN d.snapshots
      <3>1. /\ k[1] \in moved /\ Ready(Resolve(d, k[1]))
            /\ k = <<k[1], d.workloads[k[1]].gen + 1>>
        BY <1>2, <2>2
      <3>2. m.snapshots[<<k[1], d.workloads[k[1]].gen + 1>>] = Resolve(d, k[1])
        BY <1>2, <3>1
      <3>3. k[1] \in WorkloadId /\ d.workloads[k[1]].gen + 1 \in 1..(g + 1)
        BY <1>1, <1>5, <3>1
      <3>4. <<k[1], d.workloads[k[1]].gen + 1>> \in WorkloadId \X (1..(g + 1))
        BY <3>3
      <3>5. m.snapshots[k] \in Hash
        BY <1>4, <3>1, <3>2
      <3>. QED
        BY <3>1, <3>4, <3>5
    <2>. QED
      BY <2>1, <2>2
  <1>10. RowsIn(m, n, g + 1)
    BY <1>2, <1>3, <1>6, <1>8, <1>9 DEF RowsIn, SameTables
  <1>. QED
    BY <1>10 DEF m

\* A workload is written, and its binding.
LEMMA WorkloadTyped ==
  ASSUME NEW d, d = [t \in TableName |-> d[t]], NEW n, NEW g, RowsIn(d, n, g),
         NEW w \in WorkloadId, NEW r \in WorkloadRow(n, g),
         NEW b \in [WorkloadId -> [gen : 0..n, code : BlockCode \cup {None}]],
         NEW m, m = [d EXCEPT !.workloads[w] = r, !.bindings = b]
  PROVE  RowsIn(m, n, g)
  <1>2. PICK t : t = [d.workloads EXCEPT ![w] = r]
    OBVIOUS
  <1>3. t \in [WorkloadId -> WorkloadRow(n, g)]
    BY <1>2 DEF RowsIn
  <1>4. m = [d EXCEPT !.workloads = t, !.bindings = b]
    BY <1>2
  <1>. QED
    BY <1>3, <1>4 DEF RowsIn, TableName

\* A plan of a workload that is there.
LEMMA SnapshotTyped ==
  ASSUME NEW d, d = [t \in TableName |-> d[t]], NEW n \in Nat, NEW g \in Nat, RowsIn(d, n, g),
         NEW w \in Workloads(d), NEW hash \in Hash
  PROVE  RowsIn(Snapshot(d, w, hash), n, g)
  <1>1. w \in WorkloadId
    BY DEF Workloads
  <1>2. <<w, d.workloads[w].gen>> \in WorkloadId \X (1..g)
    <2>1. d.workloads[w] \in WorkloadRow(n, g) /\ Live(d.workloads[w])
      BY <1>1 DEF RowsIn, Workloads
    <2>2. d.workloads[w].gen \in 0..g /\ d.workloads[w].gen > 0
      BY <2>1 DEF WorkloadRow
    <2>. QED
      BY <1>1, <2>2
  <1>3. PICK key : key = <<w, d.workloads[w].gen>>
    OBVIOUS
  <1>4. PICK plans : plans = [k \in DOMAIN d.snapshots \cup {key} |->
                                 IF k = key THEN hash ELSE d.snapshots[k]]
    OBVIOUS
  <1>5. Snapshot(d, w, hash) = [d EXCEPT !.snapshots = plans]
    BY <1>3, <1>4 DEF Snapshot
  <1>6. /\ DOMAIN plans \subseteq WorkloadId \X (1..g)
        /\ \A k \in DOMAIN plans : plans[k] \in Hash
    BY <1>2, <1>3, <1>4 DEF RowsIn
  <1>. QED
    BY <1>5, <1>6 DEF RowsIn, TableName

\* A transaction that leaves such rows leaves a typed database.
LEMMA CommitTyped ==
  ASSUME TypedIn(db), NEW m, m = [t \in TableName |-> m[t]],
         RowsIn(m, db.revision + 1, db.revision + 1), Commit(m), Consistent(db')
  PROVE  TypedIn(db')
  <1>1. db' = [m EXCEPT !.revision = db.revision + 1] /\ db.revision < MaxRevision
    BY DEF Commit
  <1>2. db.revision \in 0..MaxRevision
    BY DEF TypedIn
  <1>3. db.revision + 1 \in 0..MaxRevision
    BY <1>1, <1>2, FarmAssumption
  <1>5. /\ db'.revision = db.revision + 1
        /\ db'.pools = m.pools /\ db'.wallets = m.wallets /\ db'.profiles = m.profiles
        /\ db'.settings = m.settings /\ db'.workloads = m.workloads
        /\ db'.snapshots = m.snapshots /\ db'.bindings = m.bindings /\ db'.holds = m.holds
        /\ db'.barriers = m.barriers /\ db'.restoreRequired = m.restoreRequired
    BY <1>1 DEF TableName
  <1>6. RowsIn(db', db.revision + 1, db.revision + 1)
    BY <1>5 DEF RowsIn
  <1>7. RowsIn(db', db'.revision, db'.revision)
    <2>1. PICK n : n = db.revision + 1
      OBVIOUS
    <2>. QED
      BY <1>5, <1>6, <2>1
  <1>. QED
    BY <1>3, <1>5, <1>7 DEF TypedIn, Consistent

\* So does one that changes a configuration row and resolves again what reads it.
LEMMA CommitPropagatedTyped ==
  ASSUME TypedIn(db), NEW m, Consistent(m), RowsIn(m, db.revision + 1, db.revision),
         NEW ws, ws \subseteq Workloads(m), Commit(Propagate(m, ws)), Consistent(db')
  PROVE  TypedIn(db')
  <1>1. db.revision \in Nat /\ db.revision + 1 \in Nat
    BY FarmAssumption DEF TypedIn
  <1>2. Moved(m, ws) \subseteq Workloads(m) /\ ws \subseteq WorkloadId
    BY DEF Moved, Workloads
  <1>3. RowsIn(Propagate(m, ws), db.revision + 1, db.revision + 1)
    BY <1>1, <1>2, NewGenerationsTyped DEF Propagate
  <1>4. Propagate(m, ws) = [t \in TableName |-> Propagate(m, ws)[t]]
    BY <1>2, PropagateFollows DEF Follows, Consistent, WellFormed
  <1>. QED
    BY <1>3, <1>4, CommitTyped

\* What is read of a configuration row, and what one more transaction makes of it.
LEMMA ConfigRows ==
  ASSUME TypedIn(db)
  PROVE  /\ db.revision \in Nat /\ db.revision + 1 \in Nat
         /\ RowsIn(db, db.revision + 1, db.revision)
         /\ RowsIn(db, db.revision + 1, db.revision + 1)
         /\ \A p \in Pool : IsRow(db.pools[p], RowColumns)
               /\ db.pools[p] \in Row(PoolContent, db.revision)
         /\ \A k \in Wallet : IsRow(db.wallets[k], RowColumns)
               /\ db.wallets[k] \in Row(WalletContent, db.revision)
         /\ \A f \in Profile : IsRow(db.profiles[f], RowColumns)
               /\ db.profiles[f] \in Row(ProfileContent, db.revision)
         /\ \A k \in Host \X Profile : IsRow(db.settings[k], RowColumns)
               /\ db.settings[k] \in Row(Tuning, db.revision)
  <1>1. db.revision \in Nat /\ db.revision + 1 \in Nat
    BY FarmAssumption DEF TypedIn
  <1>2. RowsIn(db, db.revision, db.revision)
    BY DEF TypedIn
  <1>3. RowsIn(db, db.revision + 1, db.revision) /\ RowsIn(db, db.revision + 1, db.revision + 1)
    BY <1>1, <1>2, RowsGrow
  <1>4. /\ \A p \in Pool : db.pools[p] \in Row(PoolContent, db.revision)
        /\ \A k \in Wallet : db.wallets[k] \in Row(WalletContent, db.revision)
        /\ \A f \in Profile : db.profiles[f] \in Row(ProfileContent, db.revision)
        /\ \A k \in Host \X Profile : db.settings[k] \in Row(Tuning, db.revision)
    BY <1>2 DEF RowsIn, PoolRow, WalletRow, ProfileRow, SettingsRow
  <1>5. ASSUME NEW contents, NEW r \in Row(contents, db.revision)
        PROVE  IsRow(r, RowColumns)
    BY <1>1, <1>5 DEF Row, Revision, IsRow, RowColumns
  <1>. QED
    BY <1>1, <1>3, <1>4, <1>5

\* A Pool that is created, updated or deleted is typed.
LEMMA PoolTyped ==
  ASSUME TypedIn(db), Consistent(db), Consistent(db'), CreatePool \/ UpdatePool \/ DeletePool
  PROVE  TypedIn(db')
  <1>. USE ConfigRows
  <1>. db = [t \in TableName |-> db[t]]
    BY DEF Consistent, WellFormed
  <1>1. ASSUME NEW p \in Pool, NEW r \in Row(PoolContent, db.revision + 1),
               Commit([db EXCEPT !.pools[p] = r])
        PROVE  TypedIn(db')
    <2>1. PICK m : m = [db EXCEPT !.pools[p] = r]
      OBVIOUS
    <2>2. RowsIn(m, db.revision + 1, db.revision + 1)
      BY <2>1, ConfigTyped DEF PoolRow
    <2>3. m = [t \in TableName |-> m[t]]
      BY <2>1 DEF TableName
    <2>. QED
      BY <1>1, <2>1, <2>2, <2>3, CommitTyped
  <1>2. CASE CreatePool
    <2>1. PICK p \in Pool, c \in PoolContent : Commit([db EXCEPT !.pools[p] = NewRow(c)])
      BY <1>2 DEF CreatePool
    <2>2. NewRow(c) \in Row(PoolContent, db.revision + 1)
      BY RowsMade
    <2>. QED
      BY <1>1, <2>1, <2>2
  <1>3. CASE DeletePool
    <2>1. PICK p \in Pool : Live(db.pools[p])
              /\ Commit([db EXCEPT !.pools[p] = Erased(db.pools[p])])
      BY <1>3 DEF DeletePool
    <2>2. db.pools[p].content \in PoolContent
      BY <2>1 DEF Row
    <2>3. Erased(db.pools[p]) \in Row(PoolContent, db.revision + 1)
      BY <2>2, RowsMade
    <2>. QED
      BY <1>1, <2>1, <2>3
  <1>4. CASE UpdatePool
    <2>1. PICK p \in Pool, c \in PoolContent :
              /\ Live(db.pools[p])
              /\ CommitPropagated([db EXCEPT !.pools[p] = Revised(db.pools[p], c)],
                                  UsersOfPool(db, p))
      BY <1>4 DEF UpdatePool
    <2>2. PICK r : r = Revised(db.pools[p], c)
      OBVIOUS
    <2>3. PICK m : m = [db EXCEPT !.pools[p] = r]
      OBVIOUS
    <2>4. r \in Row(PoolContent, db.revision + 1) /\ IsRow(r, RowColumns) /\ Live(r) /\ r.content = c
      BY <2>1, <2>2, RowsMade, RevisedRow
    <2>5. RowsIn(m, db.revision + 1, db.revision)
      BY <2>3, <2>4, ConfigTyped DEF PoolRow
    <2>6. Consistent(m)
      BY <2>1, <2>3, <2>4, PoolWrite DEF Follows
    <2>7. UsersOfPool(db, p) \subseteq Workloads(m)
      <3>1. m.workloads = db.workloads
        BY <2>3 DEF TableName
      <3>. QED
        BY <3>1 DEF UsersOfPool, Workloads
    <2>. QED
      BY <2>1, <2>2, <2>3, <2>5, <2>6, <2>7, CommitPropagatedTyped DEF CommitPropagated
  <1>. QED
    BY <1>2, <1>3, <1>4

\* So is a WalletRef.
LEMMA WalletRefTyped ==
  ASSUME TypedIn(db), Consistent(db), Consistent(db'), CreateWalletRef \/ UpdateWalletRef \/ DeleteWalletRef
  PROVE  TypedIn(db')
  <1>. USE ConfigRows
  <1>. db = [t \in TableName |-> db[t]]
    BY DEF Consistent, WellFormed
  <1>1. ASSUME NEW k \in Wallet, NEW r \in Row(WalletContent, db.revision + 1),
               Commit([db EXCEPT !.wallets[k] = r])
        PROVE  TypedIn(db')
    <2>1. PICK m : m = [db EXCEPT !.wallets[k] = r]
      OBVIOUS
    <2>2. RowsIn(m, db.revision + 1, db.revision + 1)
      BY <2>1, ConfigTyped DEF WalletRow
    <2>3. m = [t \in TableName |-> m[t]]
      BY <2>1 DEF TableName
    <2>. QED
      BY <1>1, <2>1, <2>2, <2>3, CommitTyped
  <1>2. CASE CreateWalletRef
    <2>1. PICK k \in Wallet, c \in WalletContent : Commit([db EXCEPT !.wallets[k] = NewRow(c)])
      BY <1>2 DEF CreateWalletRef
    <2>2. NewRow(c) \in Row(WalletContent, db.revision + 1)
      BY RowsMade
    <2>. QED
      BY <1>1, <2>1, <2>2
  <1>3. CASE DeleteWalletRef
    <2>1. PICK k \in Wallet : Live(db.wallets[k])
              /\ Commit([db EXCEPT !.wallets[k] = Erased(db.wallets[k])])
      BY <1>3 DEF DeleteWalletRef
    <2>2. db.wallets[k].content \in WalletContent
      BY <2>1 DEF Row
    <2>3. Erased(db.wallets[k]) \in Row(WalletContent, db.revision + 1)
      BY <2>2, RowsMade
    <2>. QED
      BY <1>1, <2>1, <2>3
  <1>4. CASE UpdateWalletRef
    <2>1. PICK k \in Wallet, c \in WalletContent :
              /\ Live(db.wallets[k])
              /\ CommitPropagated([db EXCEPT !.wallets[k] = Revised(db.wallets[k], c)],
                                  UsersOfWallet(db, k))
      BY <1>4 DEF UpdateWalletRef
    <2>2. PICK r : r = Revised(db.wallets[k], c)
      OBVIOUS
    <2>3. PICK m : m = [db EXCEPT !.wallets[k] = r]
      OBVIOUS
    <2>4. r \in Row(WalletContent, db.revision + 1) /\ IsRow(r, RowColumns) /\ Live(r) /\ r.content = c
      BY <2>1, <2>2, RowsMade, RevisedRow
    <2>5. RowsIn(m, db.revision + 1, db.revision)
      BY <2>3, <2>4, ConfigTyped DEF WalletRow
    <2>6. Consistent(m)
      BY <2>1, <2>3, <2>4, WalletWrite DEF Follows
    <2>7. UsersOfWallet(db, k) \subseteq Workloads(m)
      <3>1. m.workloads = db.workloads
        BY <2>3 DEF TableName
      <3>. QED
        BY <3>1 DEF UsersOfWallet, Workloads
    <2>. QED
      BY <2>1, <2>2, <2>3, <2>5, <2>6, <2>7, CommitPropagatedTyped DEF CommitPropagated
  <1>. QED
    BY <1>2, <1>3, <1>4

\* So is a MiningProfile.
LEMMA MiningProfileTyped ==
  ASSUME TypedIn(db), Consistent(db), Consistent(db'), CreateMiningProfile \/ UpdateMiningProfile \/ DeleteMiningProfile
  PROVE  TypedIn(db')
  <1>. USE ConfigRows
  <1>. db = [t \in TableName |-> db[t]]
    BY DEF Consistent, WellFormed
  <1>1. ASSUME NEW f \in Profile, NEW r \in Row(ProfileContent, db.revision + 1),
               Commit([db EXCEPT !.profiles[f] = r])
        PROVE  TypedIn(db')
    <2>1. PICK m : m = [db EXCEPT !.profiles[f] = r]
      OBVIOUS
    <2>2. RowsIn(m, db.revision + 1, db.revision + 1)
      BY <2>1, ConfigTyped DEF ProfileRow
    <2>3. m = [t \in TableName |-> m[t]]
      BY <2>1 DEF TableName
    <2>. QED
      BY <1>1, <2>1, <2>2, <2>3, CommitTyped
  <1>2. CASE CreateMiningProfile
    <2>1. PICK f \in Profile, c \in ProfileContent : Commit([db EXCEPT !.profiles[f] = NewRow(c)])
      BY <1>2 DEF CreateMiningProfile
    <2>2. NewRow(c) \in Row(ProfileContent, db.revision + 1)
      BY RowsMade
    <2>. QED
      BY <1>1, <2>1, <2>2
  <1>3. CASE DeleteMiningProfile
    <2>1. PICK f \in Profile : Live(db.profiles[f])
              /\ Commit([db EXCEPT !.profiles[f] = Erased(db.profiles[f])])
      BY <1>3 DEF DeleteMiningProfile
    <2>2. db.profiles[f].content \in ProfileContent
      BY <2>1 DEF Row
    <2>3. Erased(db.profiles[f]) \in Row(ProfileContent, db.revision + 1)
      BY <2>2, RowsMade
    <2>. QED
      BY <1>1, <2>1, <2>3
  <1>4. CASE UpdateMiningProfile
    <2>1. PICK f \in Profile, c \in ProfileContent :
              /\ Live(db.profiles[f]) /\ References(db, c)
              /\ CommitPropagated([db EXCEPT !.profiles[f] = Revised(db.profiles[f], c)],
                                  UsersOfProfile(db, f))
      BY <1>4 DEF UpdateMiningProfile
    <2>2. PICK r : r = Revised(db.profiles[f], c)
      OBVIOUS
    <2>3. PICK m : m = [db EXCEPT !.profiles[f] = r]
      OBVIOUS
    <2>4. r \in Row(ProfileContent, db.revision + 1) /\ IsRow(r, RowColumns) /\ Live(r) /\ r.content = c
      BY <2>1, <2>2, RowsMade, RevisedRow
    <2>5. RowsIn(m, db.revision + 1, db.revision)
      BY <2>3, <2>4, ConfigTyped DEF ProfileRow
    <2>6. Consistent(m)
      BY <2>1, <2>3, <2>4, ProfileWrite DEF Follows
    <2>7. UsersOfProfile(db, f) \subseteq Workloads(m)
      <3>1. m.workloads = db.workloads
        BY <2>3 DEF TableName
      <3>. QED
        BY <3>1 DEF UsersOfProfile, Workloads
    <2>. QED
      BY <2>1, <2>2, <2>3, <2>5, <2>6, <2>7, CommitPropagatedTyped DEF CommitPropagated
  <1>. QED
    BY <1>2, <1>3, <1>4

\* So are HostProfileSettings.
LEMMA HostProfileSettingsTyped ==
  ASSUME TypedIn(db), Consistent(db), Consistent(db'),
         \/ CreateHostProfileSettings \/ UpdateHostProfileSettings
         \/ DeleteHostProfileSettings
  PROVE  TypedIn(db')
  <1>. USE ConfigRows
  <1>1. PICK h \in Host, f \in Profile : \E r \in Row(Tuning, db.revision + 1) :
            /\ IsRow(r, RowColumns) /\ (Live(r) => Live(db.profiles[f]))
            /\ CommitPropagated([db EXCEPT !.settings[<<h, f>>] = r],
                                UsersOfSettings(db, h, f))
    <2>1. CASE CreateHostProfileSettings
      <3>1. PICK h \in Host, f \in Profile, t \in Tuning :
                /\ Live(db.profiles[f])
                /\ CommitPropagated([db EXCEPT !.settings[<<h, f>>] = NewRow(t)],
                                    UsersOfSettings(db, h, f))
        BY <2>1 DEF CreateHostProfileSettings
      <3>2. <<h, f>> \in Host \X Profile
        OBVIOUS
      <3>3. NewRow(t) \in Row(Tuning, db.revision + 1) /\ IsRow(NewRow(t), RowColumns)
        BY <3>2, RowsMade, FreshRow
      <3>. QED
        BY <3>1, <3>3
    <2>2. CASE UpdateHostProfileSettings
      <3>1. PICK h \in Host, f \in Profile, t \in Tuning :
                /\ Live(db.settings[<<h, f>>])
                /\ CommitPropagated([db EXCEPT !.settings[<<h, f>>] =
                                        Revised(db.settings[<<h, f>>], t)],
                                    UsersOfSettings(db, h, f))
        BY <2>2 DEF UpdateHostProfileSettings
      <3>2. <<h, f>> \in Host \X Profile /\ Live(db.profiles[f])
        BY <3>1 DEF Consistent, ReferencesIn
      <3>3. /\ Revised(db.settings[<<h, f>>], t) \in Row(Tuning, db.revision + 1)
            /\ IsRow(Revised(db.settings[<<h, f>>], t), RowColumns)
        BY <3>2, RowsMade, RevisedRow
      <3>. QED
        BY <3>1, <3>2, <3>3
    <2>3. CASE DeleteHostProfileSettings
      <3>1. PICK h \in Host, f \in Profile :
                /\ Live(db.settings[<<h, f>>])
                /\ CommitPropagated([db EXCEPT !.settings[<<h, f>>] = NoRow],
                                    UsersOfSettings(db, h, f))
        BY <2>3 DEF DeleteHostProfileSettings
      <3>2. <<h, f>> \in Host \X Profile
        OBVIOUS
      <3>3. db.settings[<<h, f>>].content \in Tuning
        BY <3>1, <3>2 DEF Row
      <3>4. NoRow \in Row(Tuning, db.revision + 1) /\ IsRow(NoRow, RowColumns) /\ ~Live(NoRow)
        BY <3>2, <3>3, RowsMade, FreshRow
      <3>. QED
        BY <3>1, <3>4
    <2>. QED
      BY <2>1, <2>2, <2>3
  <1>2. PICK r \in Row(Tuning, db.revision + 1) :
            /\ IsRow(r, RowColumns) /\ (Live(r) => Live(db.profiles[f]))
            /\ CommitPropagated([db EXCEPT !.settings[<<h, f>>] = r],
                                UsersOfSettings(db, h, f))
    BY <1>1
  <1>3. PICK key \in Host \X Profile : key = <<h, f>>
    OBVIOUS
  <1>4. PICK m : m = [db EXCEPT !.settings[<<h, f>>] = r]
    OBVIOUS
  <1>5. m = [db EXCEPT !.settings[key] = r]
    BY <1>3, <1>4
  <1>6. RowsIn(m, db.revision + 1, db.revision)
    BY <1>5, ConfigTyped DEF SettingsRow
  <1>7. Consistent(m)
    BY <1>2, <1>4, SettingsWrite DEF Follows
  <1>8. UsersOfSettings(db, h, f) \subseteq Workloads(m)
    <2>1. m.workloads = db.workloads
      BY <1>4 DEF TableName, Consistent, WellFormed
    <2>. QED
      BY <2>1 DEF UsersOfSettings, UsersOfProfile, Workloads
  <1>. QED
    BY <1>2, <1>4, <1>6, <1>7, <1>8, CommitPropagatedTyped DEF CommitPropagated

\* What is known of a workload's row.
LEMMA WorkloadRowIs ==
  ASSUME NEW d, NEW n \in Nat, NEW g \in Nat, RowsIn(d, n, g), NEW w \in WorkloadId
  PROVE  LET row == d.workloads[w]
         IN  /\ row = [c \in WorkloadColumns |-> row[c]]
             /\ row.rev \in -1..n /\ row.content \in Work \cup {None}
             /\ row.gen \in 0..g /\ row.hash \in Hash \cup {None}
             /\ w \in Workloads(d) => row.content \in Work /\ row.gen \in 1..g /\ row.hash \in Hash
  <1>1. d.workloads[w] \in WorkloadRow(n, g)
    BY DEF RowsIn
  <1>. QED
    BY <1>1 DEF WorkloadRow, Revision, WorkloadColumns, Workloads

\* A row of these columns is a workload's.
LEMMA WorkloadRowOf ==
  ASSUME NEW n \in Nat, NEW g \in Nat, NEW r, r = [c \in WorkloadColumns |-> r[c]],
         r.rev \in -1..n, r.content \in Work \cup {None}, r.gen \in 0..g,
         r.hash \in Hash \cup {None},
         Live(r) => r.content \in Work /\ r.gen \in 1..g /\ r.hash \in Hash
  PROVE  r \in WorkloadRow(n, g)
  <1>1. r \in [rev : Revision(n), content : Work \cup {None},
               gen : 0..g, hash : Hash \cup {None}]
    BY DEF WorkloadColumns, Revision
  <1>. QED
    BY <1>1 DEF WorkloadRow

\* Bindings, Holds, barriers and incidents are written.
LEMMA StateTyped ==
  ASSUME NEW d, d = [t \in TableName |-> d[t]], NEW n, NEW g, RowsIn(d, n, g),
         NEW b \in [WorkloadId -> [gen : 0..n, code : BlockCode \cup {None}]],
         NEW h \in [Host -> [rev : Revision(n), active : BOOLEAN]],
         NEW a \in [Host -> [rev : Revision(n), status : {"CLEAR", "PENDING", "CONFLICT"}]],
         NEW required \in BOOLEAN, NEW i,
         NEW m, m = [d EXCEPT !.bindings = b, !.holds = h, !.barriers = a,
                              !.restoreRequired = required, !.incidents = i]
  PROVE  RowsIn(m, n, g) /\ m = [t \in TableName |-> m[t]]
  BY DEF RowsIn, TableName

\* No binding is one.
LEMMA NoBindingTyped ==
  ASSUME NEW n \in Nat, NEW b \in [WorkloadId -> [gen : 0..n, code : BlockCode \cup {None}]],
         NEW w \in WorkloadId
  PROVE  [b EXCEPT ![w] = NoBinding] \in [WorkloadId -> [gen : 0..n, code : BlockCode \cup {None}]]
  BY DEF NoBinding

\* A workload that is deleted is typed.
LEMMA WithoutTyped ==
  ASSUME TypedIn(db), Consistent(db), Consistent(db'), NEW w \in WorkloadId,
         Commit(WithoutWorkload(db, w))
  PROVE  TypedIn(db')
  <1>. USE ConfigRows
  <1>1. db = [t \in TableName |-> db[t]]
    BY DEF Consistent, WellFormed
  <1>2. PICK i, b : /\ i = ResolveIncidentsOf(db, w).incidents
                    /\ b = [db.bindings EXCEPT ![w] = NoBinding]
    OBVIOUS
  <1>3. PICK r : r = Erased(db.workloads[w])
    OBVIOUS
  <1>4. PICK x : x = [db EXCEPT !.incidents = i]
    OBVIOUS
  <1>5. PICK m : m = [x EXCEPT !.workloads[w] = r, !.bindings = b]
    OBVIOUS
  <1>6. /\ x = [t \in TableName |-> x[t]] /\ x.workloads = db.workloads
        /\ x.bindings = db.bindings
    BY <1>1, <1>4 DEF TableName
  <1>7. WithoutWorkload(db, w) = m
    <2>1. ResolveIncidentsOf(db, w) = x
      BY <1>1, <1>2, <1>4 DEF ResolveIncidentsOf, TableName
    <2>. QED
      BY <1>2, <1>3, <1>5, <1>6, <2>1 DEF WithoutWorkload
  <1>8. RowsIn(x, db.revision + 1, db.revision + 1)
    BY <1>1, <1>4 DEF RowsIn, TableName
  <1>9. b \in [WorkloadId -> [gen : 0..(db.revision + 1), code : BlockCode \cup {None}]]
    BY <1>2, NoBindingTyped DEF RowsIn
  <1>10. r \in WorkloadRow(db.revision + 1, db.revision + 1)
    <2>1. LET row == db.workloads[w]
          IN  /\ row = [c \in WorkloadColumns |-> row[c]]
              /\ row.content \in Work \cup {None}
              /\ row.gen \in 0..(db.revision + 1) /\ row.hash \in Hash \cup {None}
      BY WorkloadRowIs
    <2>2. /\ r = [c \in WorkloadColumns |-> r[c]] /\ r.rev = -1
          /\ r.content = db.workloads[w].content /\ r.gen = db.workloads[w].gen
          /\ r.hash = db.workloads[w].hash
      BY <1>3, <2>1 DEF Erased, WorkloadColumns
    <2>3. ~Live(r) /\ r.rev \in -1..(db.revision + 1)
      BY <2>2 DEF Live
    <2>. QED
      BY <2>1, <2>2, <2>3, WorkloadRowOf
  <1>11. RowsIn(m, db.revision + 1, db.revision + 1)
    BY <1>5, <1>6, <1>8, <1>9, <1>10, WorkloadTyped
  <1>12. m = [t \in TableName |-> m[t]]
    BY <1>5, <1>6 DEF TableName
  <1>. QED
    BY <1>7, <1>11, <1>12, CommitTyped

\* A workload that is updated is.
LEMMA UpdatedTyped ==
  ASSUME TypedIn(db), Consistent(db), Consistent(db'), NEW w \in Workloads(db), NEW c \in Work,
         CanUpdate(db, w, c), Commit(Updated(db, w, c))
  PROVE  TypedIn(db')
  <1>. USE ConfigRows
  <1>1. db = [t \in TableName |-> db[t]] /\ w \in WorkloadId
    BY DEF Consistent, WellFormed, Workloads
  <1>2. PICK r : r = Revised(db.workloads[w], c)
    OBVIOUS
  <1>3. PICK m : m = [db EXCEPT !.workloads[w] = r]
    OBVIOUS
  <1>4. Updated(db, w, c) = Propagate(m, {w})
    BY <1>2, <1>3 DEF Updated
  <1>5. LET row == db.workloads[w]
        IN  /\ row = [x \in WorkloadColumns |-> row[x]] /\ row.rev \in -1..db.revision
            /\ row.content \in Work /\ row.gen \in 1..db.revision /\ row.hash \in Hash
    BY <1>1, WorkloadRowIs DEF TypedIn
  <1>6. /\ r = [x \in WorkloadColumns |-> r[x]] /\ r.rev = db.workloads[w].rev + 1
        /\ r.content = c /\ r.gen = db.workloads[w].gen /\ r.hash = db.workloads[w].hash
    BY <1>2, <1>5 DEF Revised, WorkloadColumns
  <1>7. r \in WorkloadRow(db.revision + 1, db.revision)
    <2>1. r.rev \in -1..(db.revision + 1) /\ r.gen \in 0..db.revision
      BY <1>5, <1>6
    <2>. QED
      BY <1>5, <1>6, <2>1, WorkloadRowOf
  <1>8. RowsIn(m, db.revision + 1, db.revision)
    <2>1. PICK b : b = db.bindings
      OBVIOUS
    <2>2. m = [db EXCEPT !.workloads[w] = r, !.bindings = b]
      BY <1>1, <1>3, <2>1 DEF TableName
    <2>3. b \in [WorkloadId -> [gen : 0..(db.revision + 1), code : BlockCode \cup {None}]]
      BY <2>1 DEF RowsIn
    <2>. QED
      BY <1>1, <1>7, <2>2, <2>3, WorkloadTyped
  <1>9. Consistent(m)
    <2>1. /\ IsRow(r, WorkloadColumns) /\ r.gen \in Nat /\ db.workloads[w].gen <= r.gen
      BY <1>5, <1>6 DEF IsRow
    <2>. QED
      BY <1>1, <1>3, <1>6, <2>1, WorkloadWrite DEF CanUpdate, Follows
  <1>10. {w} \subseteq Workloads(m)
    <2>1. m.workloads[w] = r
      <3>1. PICK t : t = [db.workloads EXCEPT ![w] = r]
        OBVIOUS
      <3>2. m = [db EXCEPT !.workloads = t]
        BY <1>3, <3>1
      <3>3. m.workloads = t
        BY <1>1, <3>2 DEF TableName
      <3>4. db.workloads = [v \in WorkloadId |-> db.workloads[v]]
        BY DEF Consistent, WellFormed, IsTable
      <3>. QED
        BY <1>1, <3>1, <3>3, <3>4
    <2>2. Live(db.workloads[w])
      BY DEF Workloads
    <2>3. Live(r)
      BY <1>5, <1>6, <2>2 DEF Live
    <2>. QED
      BY <1>1, <2>1, <2>3 DEF Workloads
  <1>. QED
    BY <1>4, <1>8, <1>9, <1>10, CommitPropagatedTyped

\* A workload's row is written, and with it a plan, or none.
LEMMA NewPlanTyped ==
  ASSUME TypedIn(db), Consistent(db), Consistent(db'), NEW w \in WorkloadId,
         NEW r \in WorkloadRow(db.revision + 1, db.revision + 1), Live(r),
         NEW b \in [WorkloadId -> [gen : 0..(db.revision + 1), code : BlockCode \cup {None}]],
         NEW hash \in Hash, NEW m, m = [db EXCEPT !.workloads[w] = r, !.bindings = b],
         Commit(m) \/ Commit(Snapshot(m, w, hash))
  PROVE  TypedIn(db')
  <1>. USE ConfigRows
  <1>1. db = [t \in TableName |-> db[t]] /\ db.workloads = [v \in WorkloadId |-> db.workloads[v]]
    BY DEF Consistent, WellFormed, IsTable
  <1>2. PICK t : t = [db.workloads EXCEPT ![w] = r]
    OBVIOUS
  <1>3. m = [db EXCEPT !.workloads = t, !.bindings = b]
    BY <1>2
  <1>4. m = [x \in TableName |-> m[x]] /\ m.workloads = t
    BY <1>1, <1>3 DEF TableName
  <1>5. RowsIn(m, db.revision + 1, db.revision + 1)
    BY <1>1, WorkloadTyped
  <1>6. w \in Workloads(m)
    BY <1>1, <1>2, <1>4 DEF Workloads
  <1>7. CASE Commit(m)
    BY <1>4, <1>5, <1>7, CommitTyped
  <1>8. CASE Commit(Snapshot(m, w, hash))
    <2>1. PICK s : s = Snapshot(m, w, hash)
      OBVIOUS
    <2>2. RowsIn(s, db.revision + 1, db.revision + 1)
      BY <1>4, <1>5, <1>6, <2>1, SnapshotTyped
    <2>3. s = [x \in TableName |-> s[x]]
      <3>1. \E p : s = [m EXCEPT !.snapshots = p]
        BY <2>1 DEF Snapshot
      <3>. QED
        BY <1>4, <3>1 DEF TableName
    <2>. QED
      BY <1>8, <2>1, <2>2, <2>3, CommitTyped
  <1>. QED
    BY <1>7, <1>8

\* A workload is created.
LEMMA CreateDesiredWorkloadTyped ==
  ASSUME TypedIn(db), Consistent(db), Consistent(db'), CreateDesiredWorkload
  PROVE  TypedIn(db')
  <1>. USE ConfigRows
  <1>1. PICK w \in WorkloadId, c \in WorkloadContent :
            LET placed == [db EXCEPT !.workloads[w] =
                              [rev |-> 1, content |-> c, gen |-> 1, hash |-> None]]
                hash == Resolve(placed, w)
            IN  /\ db.workloads[w] = NoWorkload /\ Live(db.profiles[c.profile])
                /\ Commit(SnapshotIfReady([placed EXCEPT !.workloads[w].hash = hash], w, hash))
    BY DEF CreateDesiredWorkload
  <1>2. PICK q : q = [rev |-> 1, content |-> c, gen |-> 1, hash |-> None]
    OBVIOUS
  <1>3. PICK t : t = [db.workloads EXCEPT ![w] = q]
    OBVIOUS
  <1>4. PICK placed : placed = [db EXCEPT !.workloads = t]
    OBVIOUS
  <1>5. PICK hash : hash = Resolve(placed, w)
    OBVIOUS
  <1>6. PICK r : r = [rev |-> 1, content |-> c, gen |-> 1, hash |-> hash]
    OBVIOUS
  <1>7. PICK n : n = [db EXCEPT !.workloads[w] = r, !.bindings = db.bindings]
    OBVIOUS
  <1>8. /\ db = [x \in TableName |-> db[x]]
        /\ db.workloads = [v \in WorkloadId |-> db.workloads[v]]
    BY DEF Consistent, WellFormed, IsTable
  <1>9. /\ placed = [x \in TableName |-> placed[x]] /\ placed.workloads = t
        /\ t[w] = q /\ SameTables(db, placed) /\ placed.snapshots = db.snapshots
    BY <1>3, <1>4, <1>8 DEF SameTables, TableName
  <1>10. [placed EXCEPT !.workloads[w].hash = hash] = n
    <2>1. [q EXCEPT !.hash = hash] = r
      BY <1>2, <1>6
    <2>2. [placed EXCEPT !.workloads[w].hash = hash]
            = [placed EXCEPT !.workloads = [t EXCEPT ![w] = r]]
      BY <1>9, <2>1
    <2>3. [t EXCEPT ![w] = r] = [db.workloads EXCEPT ![w] = r]
      BY <1>3
    <2>4. PICK u : u = [db.workloads EXCEPT ![w] = r]
      OBVIOUS
    <2>5. [placed EXCEPT !.workloads = u] = [db EXCEPT !.workloads = u, !.bindings = db.bindings]
      BY <1>4, <1>8 DEF TableName
    <2>. QED
      BY <1>7, <2>2, <2>3, <2>4, <2>5
  <1>11. Commit(SnapshotIfReady(n, w, hash))
    <2>1. placed = [db EXCEPT !.workloads[w] = q]
      BY <1>3, <1>4
    <2>2. Commit(SnapshotIfReady([placed EXCEPT !.workloads[w].hash = hash], w, hash))
      BY <1>1, <1>2, <1>5, <2>1
    <2>. QED
      BY <1>10, <2>2
  <1>12. c \in Work /\ Content(placed, w) = c
    BY <1>2, <1>9, FarmAssumption DEF Content
  <1>13. hash \in Hash
    <2>1. db.workloads[w].gen = 0
      BY <1>1 DEF NoWorkload
    <2>2. Generations(placed, w) = {}
      <3>1. \A k \in DOMAIN db.snapshots : k[1] # w
        <4>1. \A k \in DOMAIN db.snapshots :
                 /\ k \in WorkloadId \X (1..(db.revision + 1))
                 /\ k[2] <= db.workloads[k[1]].gen
          BY DEF Consistent, WellFormed, RowsIn
        <4>2. \A k \in WorkloadId \X (1..(db.revision + 1)) : k[2] > 0
          OBVIOUS
        <4>. QED
          BY <2>1, <4>1, <4>2
      <3>. QED
        BY <1>9, <3>1 DEF Generations
    <2>3. LatestAssignments(placed, w) \in Gpu
      BY <2>2 DEF LatestAssignments, Gpu
    <2>. QED
      BY <1>1, <1>5, <1>9, <1>12, <2>3, PlanTyped DEF Resolve
  <1>14. /\ r = [x \in WorkloadColumns |-> r[x]] /\ r.rev = 1 /\ r.content = c
         /\ r.gen = 1 /\ r.hash = hash
    BY <1>6 DEF WorkloadColumns
  <1>15. r \in WorkloadRow(db.revision + 1, db.revision + 1) /\ Live(r)
    <2>1. /\ r.rev \in -1..(db.revision + 1) /\ r.gen \in 0..(db.revision + 1)
          /\ r.gen \in 1..(db.revision + 1) /\ Live(r)
      BY <1>14 DEF Live
    <2>. QED
      BY <1>12, <1>13, <1>14, <2>1, WorkloadRowOf
  <1>16. PICK b : b = db.bindings
    OBVIOUS
  <1>17. b \in [WorkloadId -> [gen : 0..(db.revision + 1), code : BlockCode \cup {None}]]
    BY <1>16 DEF RowsIn
  <1>18. Commit(n) \/ Commit(Snapshot(n, w, hash))
    BY <1>11 DEF SnapshotIfReady
  <1>. QED
    BY <1>7, <1>13, <1>15, <1>16, <1>17, <1>18, NewPlanTyped

\* A generation is blocked, and a maintenance Hold is set.
LEMMA BlockTyped ==
  ASSUME TypedIn(db), Consistent(db), Consistent(db'),
         \/ BlockDesiredGeneration
         \/ \E h \in Host, active \in BOOLEAN : SetMaintenanceHold(h, active)
  PROVE  TypedIn(db')
  <1>. USE ConfigRows
  <1>1. db = [t \in TableName |-> db[t]]
    BY DEF Consistent, WellFormed
  <1>2. PICK b, h, a, q, i : /\ b = db.bindings /\ h = db.holds /\ a = db.barriers
                             /\ q = db.restoreRequired /\ i = db.incidents
    OBVIOUS
  <1>3. /\ b \in [WorkloadId -> [gen : 0..(db.revision + 1), code : BlockCode \cup {None}]]
        /\ h \in [Host -> [rev : Revision(db.revision + 1), active : BOOLEAN]]
        /\ a \in [Host -> [rev : Revision(db.revision + 1),
                           status : {"CLEAR", "PENDING", "CONFLICT"}]]
        /\ q \in BOOLEAN
    BY <1>2 DEF RowsIn
  <1>4. ASSUME NEW c \in [WorkloadId -> [gen : 0..(db.revision + 1),
                                         code : BlockCode \cup {None}]],
               NEW e \in [Host -> [rev : Revision(db.revision + 1), active : BOOLEAN]],
               Commit([db EXCEPT !.bindings = c, !.holds = e, !.barriers = a,
                                 !.restoreRequired = q, !.incidents = i])
        PROVE  TypedIn(db')
    <2>1. PICK m : m = [db EXCEPT !.bindings = c, !.holds = e, !.barriers = a,
                                  !.restoreRequired = q, !.incidents = i]
      OBVIOUS
    <2>2. RowsIn(m, db.revision + 1, db.revision + 1) /\ m = [t \in TableName |-> m[t]]
      BY <1>1, <1>3, <2>1, StateTyped
    <2>. QED
      BY <1>4, <2>1, <2>2, CommitTyped
  <1>5. CASE BlockDesiredGeneration
    <2>1. PICK w \in Workloads(db), code \in BlockCode, g \in Nat :
              /\ db.workloads[w].gen = g
              /\ Commit([db EXCEPT !.bindings[w] = [gen |-> g, code |-> code]])
      <3>1. \A w \in Workloads(db) : db.workloads[w].gen \in Nat
        BY DEF Consistent, WellFormed, Workloads
      <3>. QED
        BY <1>5, <3>1 DEF BlockDesiredGeneration
    <2>2. w \in WorkloadId
      BY DEF Workloads
    <2>3. g \in 0..(db.revision + 1)
      BY <2>1, <2>2, WorkloadRowIs
    <2>4. PICK x : x = [gen |-> g, code |-> code]
      OBVIOUS
    <2>5. x \in [gen : 0..(db.revision + 1), code : BlockCode \cup {None}]
      BY <2>3, <2>4
    <2>6. PICK c : c = [b EXCEPT ![w] = x]
      OBVIOUS
    <2>7. c \in [WorkloadId -> [gen : 0..(db.revision + 1), code : BlockCode \cup {None}]]
      BY <1>3, <2>5, <2>6
    <2>8. [db EXCEPT !.bindings[w] = x]
            = [db EXCEPT !.bindings = c, !.holds = h, !.barriers = a,
                         !.restoreRequired = q, !.incidents = i]
      BY <1>1, <1>2, <2>6 DEF TableName
    <2>9. Commit([db EXCEPT !.bindings[w] = x])
      BY <2>1, <2>4
    <2>. QED
      BY <1>3, <1>4, <2>7, <2>8, <2>9
  <1>6. CASE \E k \in Host, active \in BOOLEAN : SetMaintenanceHold(k, active)
    <2>1. PICK k \in Host, active \in BOOLEAN :
              Commit([db EXCEPT !.holds[k] = [rev |-> db.holds[k].rev + 1, active |-> active]])
      BY <1>6 DEF SetMaintenanceHold
    <2>2. PICK x : x = [rev |-> db.holds[k].rev + 1, active |-> active]
      OBVIOUS
    <2>3. db.holds[k].rev \in -1..db.revision
      BY DEF TypedIn, RowsIn, Revision
    <2>4. x \in [rev : Revision(db.revision + 1), active : BOOLEAN]
      BY <2>2, <2>3 DEF Revision
    <2>5. PICK e : e = [h EXCEPT ![k] = x]
      OBVIOUS
    <2>6. e \in [Host -> [rev : Revision(db.revision + 1), active : BOOLEAN]]
      BY <1>3, <2>4, <2>5
    <2>7. [db EXCEPT !.holds[k] = x]
            = [db EXCEPT !.bindings = b, !.holds = e, !.barriers = a,
                         !.restoreRequired = q, !.incidents = i]
      BY <1>1, <1>2, <2>5 DEF TableName
    <2>8. Commit([db EXCEPT !.holds[k] = x])
      BY <2>1, <2>2
    <2>. QED
      BY <1>3, <1>4, <2>6, <2>7, <2>8
  <1>. QED
    BY <1>5, <1>6

\* A restore barrier conflicts, or is cleared.
LEMMA BarrierTyped ==
  ASSUME TypedIn(db), Consistent(db), Consistent(db'),
         MarkRestoreHostConflict \/ ClearRestoreHostBarrier
  PROVE  TypedIn(db')
  <1>. USE ConfigRows
  <1>1. db = [t \in TableName |-> db[t]]
    BY DEF Consistent, WellFormed
  <1>2. PICK b, h, i : b = db.bindings /\ h = db.holds /\ i = db.incidents
    OBVIOUS
  <1>. DEFINE Barrier == [rev : Revision(db.revision + 1), status : {"CLEAR", "PENDING", "CONFLICT"}]
  <1>3. /\ b \in [WorkloadId -> [gen : 0..(db.revision + 1), code : BlockCode \cup {None}]]
        /\ h \in [Host -> [rev : Revision(db.revision + 1), active : BOOLEAN]]
        /\ db.barriers \in [Host -> Barrier]
        /\ db.restoreRequired \in BOOLEAN
    BY <1>2 DEF RowsIn
  <1>4. \A k \in Host : db.barriers[k].rev \in -1..db.revision
    BY DEF TypedIn, RowsIn, Revision
  <1>5. ASSUME NEW a \in [Host -> Barrier], NEW q \in BOOLEAN,
               Commit([db EXCEPT !.bindings = b, !.holds = h, !.barriers = a,
                                 !.restoreRequired = q, !.incidents = i])
        PROVE  TypedIn(db')
    <2>1. PICK m : m = [db EXCEPT !.bindings = b, !.holds = h, !.barriers = a,
                                  !.restoreRequired = q, !.incidents = i]
      OBVIOUS
    <2>2. RowsIn(m, db.revision + 1, db.revision + 1) /\ m = [t \in TableName |-> m[t]]
      BY <1>1, <1>3, <2>1, StateTyped
    <2>. QED
      BY <1>5, <2>1, <2>2, CommitTyped
  <1>6. ASSUME NEW k \in Host, NEW x \in Barrier PROVE [db.barriers EXCEPT ![k] = x] \in [Host -> Barrier]
    <2>. HIDE DEF Barrier
    <2>. QED
      BY <1>3
  <1>7. CASE MarkRestoreHostConflict
    <2>1. PICK k \in Host :
              Commit([db EXCEPT !.barriers[k] = [rev |-> db.barriers[k].rev + 1,
                                                 status |-> "CONFLICT"]])
      BY <1>7 DEF MarkRestoreHostConflict
    <2>2. PICK x : x = [rev |-> db.barriers[k].rev + 1, status |-> "CONFLICT"]
      OBVIOUS
    <2>3. x \in Barrier
      BY <1>4, <2>2 DEF Revision
    <2>4. PICK a : a = [db.barriers EXCEPT ![k] = x]
      OBVIOUS
    <2>5. PICK q : q = db.restoreRequired
      OBVIOUS
    <2>6. [db EXCEPT !.barriers[k] = x]
            = [db EXCEPT !.bindings = b, !.holds = h, !.barriers = a,
                         !.restoreRequired = q, !.incidents = i]
      BY <1>1, <1>2, <2>4, <2>5 DEF TableName
    <2>7. Commit([db EXCEPT !.barriers[k] = x])
      BY <2>1, <2>2
    <2>8. a \in [Host -> Barrier] /\ q \in BOOLEAN
      BY <1>3, <1>6, <2>3, <2>4, <2>5
    <2>. HIDE DEF Barrier
    <2>. QED
      BY <1>5, <2>6, <2>7, <2>8
  <1>8. CASE ClearRestoreHostBarrier
    <2>1. PICK k \in Host :
              LET left == [db.barriers EXCEPT ![k] = NoBarrier]
              IN  Commit([db EXCEPT !.barriers = left, !.restoreRequired = StillRequired(left)])
      BY <1>8 DEF ClearRestoreHostBarrier
    <2>2. PICK a : a = [db.barriers EXCEPT ![k] = NoBarrier]
      OBVIOUS
    <2>3. NoBarrier \in Barrier
      BY DEF NoBarrier, Revision
    <2>4. PICK q : q = StillRequired(a)
      OBVIOUS
    <2>5. [db EXCEPT !.barriers = a, !.restoreRequired = q]
            = [db EXCEPT !.bindings = b, !.holds = h, !.barriers = a,
                         !.restoreRequired = q, !.incidents = i]
      BY <1>1, <1>2 DEF TableName
    <2>6. Commit([db EXCEPT !.barriers = a, !.restoreRequired = q])
      BY <2>1, <2>2, <2>4
    <2>7. q \in BOOLEAN
      BY <2>4, Zenon DEF StillRequired
    <2>8. a \in [Host -> Barrier]
      BY <1>6, <2>2, <2>3
    <2>. HIDE DEF Barrier
    <2>. QED
      BY <1>5, <2>5, <2>6, <2>7, <2>8
  <1>. QED
    BY <1>7, <1>8

\* A blocked generation is tried again.
LEMMA RetryTyped ==
  ASSUME TypedIn(db), Consistent(db), Consistent(db'), RetryWorkload
  PROVE  TypedIn(db')
  <1>. USE ConfigRows
  <1>1. PICK w \in Workloads(db) :
            LET row == db.workloads[w]
                next == [db EXCEPT !.workloads[w] = [row EXCEPT !.rev = row.rev + 1,
                                                                !.gen = row.gen + 1],
                                   !.bindings[w] = NoBinding]
            IN  /\ <<w, row.gen>> \in DOMAIN db.snapshots
                /\ Commit(Snapshot(next, w, db.snapshots[<<w, row.gen>>]))
    BY DEF RetryWorkload
  <1>2. w \in WorkloadId
    BY DEF Workloads
  <1>3. PICK row : row = db.workloads[w]
    OBVIOUS
  <1>4. PICK r : r = [row EXCEPT !.rev = row.rev + 1, !.gen = row.gen + 1]
    OBVIOUS
  <1>5. PICK b : b = [db.bindings EXCEPT ![w] = NoBinding]
    OBVIOUS
  <1>6. PICK hash : hash = db.snapshots[<<w, row.gen>>]
    OBVIOUS
  <1>7. PICK m : m = [db EXCEPT !.workloads[w] = r, !.bindings = b]
    OBVIOUS
  <1>8. Commit(Snapshot(m, w, hash)) /\ hash \in Hash
    BY <1>1, <1>3, <1>4, <1>5, <1>6, <1>7 DEF RowsIn
  <1>9. /\ row = [c \in WorkloadColumns |-> row[c]]
        /\ row.rev \in -1..db.revision /\ row.content \in Work
        /\ row.gen \in 1..db.revision /\ row.hash \in Hash
    BY <1>2, <1>3, WorkloadRowIs DEF TypedIn
  <1>10. /\ r = [c \in WorkloadColumns |-> r[c]] /\ r.rev = row.rev + 1
         /\ r.content = row.content /\ r.gen = row.gen + 1 /\ r.hash = row.hash
    BY <1>4, <1>9 DEF WorkloadColumns
  <1>11. Live(r)
    <2>1. row.rev > 0
      BY <1>3 DEF Workloads, Live
    <2>. QED
      BY <1>9, <1>10, <2>1 DEF Live
  <1>12. r \in WorkloadRow(db.revision + 1, db.revision + 1)
    <2>1. /\ r.rev \in -1..(db.revision + 1) /\ r.gen \in 0..(db.revision + 1)
          /\ r.gen \in 1..(db.revision + 1)
      BY <1>9, <1>10
    <2>. QED
      BY <1>9, <1>10, <2>1, WorkloadRowOf
  <1>13. b \in [WorkloadId -> [gen : 0..(db.revision + 1), code : BlockCode \cup {None}]]
    BY <1>2, <1>5, NoBindingTyped DEF RowsIn
  <1>. QED
    BY <1>2, <1>7, <1>8, <1>11, <1>12, <1>13, NewPlanTyped

\* What a Host reports of devices that are all there is identities.
LEMMA AssignmentsTyped ==
  ASSUME NEW inv \in Inventory, NEW devices \in SUBSET Device, Assignable(devices, inv)
  PROVE  Assignments(devices, inv) \in Gpu
  <1>1. ASSUME NEW i \in devices PROVE inv[i] \in Identity
    <2>1. PICK reported : reported = {inv[k] : k \in Device}
      OBVIOUS
    <2>2. i \in Device /\ inv[i] \in reported /\ inv[i] # None
      BY <1>1, <2>1 DEF Assignable
    <2>3. reported \in {{v[k] : k \in Device} : v \in Inventory}
      BY <2>1
    <2>4. PICK all : all = {{v[k] : k \in Device} : v \in Inventory}
      OBVIOUS
    <2>5. inv[i] \in UNION all
      BY <2>2, <2>3, <2>4
    <2>6. Identity = (UNION all) \ {None}
      BY <2>4 DEF Identity
    <2>. QED
      BY <2>2, <2>5, <2>6
  <1>2. Assignments(devices, inv) \in [devices -> Identity]
    BY <1>1 DEF Assignments
  <1>. QED
    BY <1>2 DEF Gpu

\* A GPU plan is bound to what the Host reports.
LEMMA RefreshTyped ==
  ASSUME TypedIn(db), Consistent(db), Consistent(db'), RefreshResolvedSnapshotForInventory
  PROVE  TypedIn(db')
  <1>. USE ConfigRows
  <1>1. PICK w \in Workloads(db), inv \in Inventory :
            LET row == db.workloads[w]
                planned == <<w, row.gen>> \in DOMAIN db.snapshots
                now == Assignments(Content(db, w).devices, inv)
                hash == ResolveWith(db, w, now)
                next == [db EXCEPT !.workloads[w].hash = hash,
                                   !.workloads[w].gen = BoundGeneration(row, planned)]
            IN  /\ Assignable(Content(db, w).devices, inv)
                /\ Commit(Snapshot(next, w, hash))
    BY DEF RefreshResolvedSnapshotForInventory
  <1>2. w \in WorkloadId
    BY DEF Workloads
  <1>3. PICK row : row = db.workloads[w]
    OBVIOUS
  <1>4. PICK hash : hash = ResolveWith(db, w, Assignments(Content(db, w).devices, inv))
    OBVIOUS
  <1>5. PICK g : g = BoundGeneration(row, <<w, row.gen>> \in DOMAIN db.snapshots)
    OBVIOUS
  <1>6. PICK r : r = [row EXCEPT !.hash = hash, !.gen = g]
    OBVIOUS
  <1>7. PICK b : b = db.bindings
    OBVIOUS
  <1>8. PICK m : m = [db EXCEPT !.workloads[w] = r, !.bindings = b]
    OBVIOUS
  <1>9. Commit(Snapshot(m, w, hash))
    <2>1. [db EXCEPT !.workloads[w].hash = hash, !.workloads[w].gen = g] = m
      BY <1>2, <1>3, <1>6, <1>7, <1>8 DEF Consistent, WellFormed, IsTable, TableName
    <2>. QED
      BY <1>1, <1>3, <1>4, <1>5, <2>1
  <1>10. hash \in Hash
    <2>1. Content(db, w).devices \in SUBSET Device
      BY <1>2, WorkloadFacts DEF Work
    <2>2. Assignments(Content(db, w).devices, inv) \in Gpu
      BY <1>1, <2>1, AssignmentsTyped
    <2>. QED
      BY <1>4, <2>2, ResolvedTyped
  <1>11. /\ row = [c \in WorkloadColumns |-> row[c]]
         /\ row.rev \in -1..db.revision /\ row.content \in Work
         /\ row.gen \in 1..db.revision
    BY <1>2, <1>3, WorkloadRowIs DEF TypedIn
  <1>12. g = row.gen \/ g = row.gen + 1
    BY <1>5 DEF BoundGeneration
  <1>13. /\ r = [c \in WorkloadColumns |-> r[c]] /\ r.rev = row.rev
         /\ r.content = row.content /\ r.gen = g /\ r.hash = hash
    BY <1>6, <1>11 DEF WorkloadColumns
  <1>14. Live(r)
    BY <1>3, <1>13 DEF Workloads, Live
  <1>15. r \in WorkloadRow(db.revision + 1, db.revision + 1)
    <2>1. /\ r.rev \in -1..(db.revision + 1) /\ r.gen \in 0..(db.revision + 1)
          /\ r.gen \in 1..(db.revision + 1)
      BY <1>11, <1>12, <1>13
    <2>. QED
      BY <1>10, <1>11, <1>13, <2>1, WorkloadRowOf
  <1>16. b \in [WorkloadId -> [gen : 0..(db.revision + 1), code : BlockCode \cup {None}]]
    BY <1>7 DEF RowsIn
  <1>. QED
    BY <1>2, <1>8, <1>9, <1>10, <1>14, <1>15, <1>16, NewPlanTyped

\* The operator writes a workload that was read, or a Hold.
LEMMA OperatorTyped ==
  ASSUME FarmInv, TypedIn(db), Consistent(db'),
         OperatorSetsRunState \/ OperatorDeletesWorkload \/ OperatorSetsHold
  PROVE  TypedIn(db')
  <1>. USE DEF FarmInv, EditOK
  <1>1. CASE OperatorSetsRunState
    <2>1. PICK run \in BOOLEAN :
              LET w == edit.id
                  c == [edit.row.content EXCEPT !.run = run]
              IN  /\ w \in Workloads(db) /\ edit.row.content \in Work
                  /\ CanUpdate(db, w, c) /\ Commit(Updated(db, w, c))
      BY <1>1 DEF OperatorSetsRunState, SeenRow, Workloads, Live
    <2>2. [edit.row.content EXCEPT !.run = run] \in Work
      BY <2>1 DEF Work
    <2>. QED
      BY <2>1, <2>2, UpdatedTyped
  <1>2. CASE OperatorDeletesWorkload
    <2>1. edit.id \in WorkloadId /\ Commit(WithoutWorkload(db, edit.id))
      BY <1>2 DEF OperatorDeletesWorkload, SeenRow, FinalizeRetiredDesiredWorkloadDeletion
    <2>. QED
      BY <2>1, WithoutTyped
  <1>3. CASE OperatorSetsHold
    BY <1>3, BlockTyped DEF OperatorSetsHold, SeenRow
  <1>. QED
    BY <1>1, <1>2, <1>3

(***************************************************************************)
(* The theorems.                                                           *)
(***************************************************************************)

\* The first database is consistent.
LEMMA InitConsistent == FarmInit => FarmInv
  BY FarmAssumption DEF FarmInit, FarmInv, Consistent, EditOK, TypedIn

\* FarmAssumption holds of the database that the migrations leave, whatever the other
\* constants are: nothing is in it.
EmptyDatabase ==
    [pools |-> [p \in Pool |-> NoRow], wallets |-> [k \in Wallet |-> NoRow],
     profiles |-> [f \in Profile |-> NoRow],
     settings |-> [k \in Host \X Profile |-> NoRow],
     workloads |-> [w \in WorkloadId |-> NoWorkload],
     snapshots |-> [k \in {} |-> None],
     bindings |-> [w \in WorkloadId |-> NoBinding],
     holds |-> [h \in Host |-> NoHold], barriers |-> [h \in Host |-> NoBarrier],
     restoreRequired |-> FALSE, incidents |-> [i \in {} |-> None], revision |-> 0]

LEMMA EmptyDatabaseIsConsistent ==
  Consistent(EmptyDatabase) /\ PlansIn(EmptyDatabase)
  <1>1. PICK d : d = EmptyDatabase
    OBVIOUS
  <1>2. /\ d = [t \in TableName |-> d[t]]
        /\ d.pools = [p \in Pool |-> NoRow] /\ d.wallets = [k \in Wallet |-> NoRow]
        /\ d.profiles = [f \in Profile |-> NoRow]
        /\ d.settings = [k \in Host \X Profile |-> NoRow]
        /\ d.workloads = [w \in WorkloadId |-> NoWorkload]
        /\ d.snapshots = [k \in {} |-> None]
        /\ d.barriers = [h \in Host |-> NoBarrier] /\ ~d.restoreRequired
    BY <1>1 DEF EmptyDatabase, TableName
  <1>3. /\ NoRow = [c \in RowColumns |-> NoRow[c]] /\ NoRow.rev = 0
        /\ NoWorkload = [c \in WorkloadColumns |-> NoWorkload[c]]
        /\ NoWorkload.rev = 0 /\ NoWorkload.gen = 0
        /\ NoBarrier = [c \in {"rev", "status"} |-> NoBarrier[c]]
        /\ NoBarrier.rev = 0 /\ NoBarrier.status = "CLEAR"
    BY DEF NoRow, NoWorkload, NoBarrier, RowColumns, WorkloadColumns
  <1>. HIDE DEF NoRow, NoWorkload, NoBarrier
  <1>4. /\ IsTable(d.pools, Pool, RowColumns) /\ IsTable(d.wallets, Wallet, RowColumns)
        /\ IsTable(d.profiles, Profile, RowColumns)
        /\ IsTable(d.settings, Host \X Profile, RowColumns)
        /\ IsTable(d.workloads, WorkloadId, WorkloadColumns)
        /\ IsTable(d.barriers, Host, {"rev", "status"})
    <2>1. ASSUME NEW ids, NEW columns, NEW r, IsRow(r, columns),
                 NEW t, t = [i \in ids |-> r]
          PROVE  IsTable(t, ids, columns)
      BY <2>1 DEF IsTable, IsRow
    <2>2. /\ IsRow(NoRow, RowColumns) /\ IsRow(NoWorkload, WorkloadColumns)
          /\ IsRow(NoBarrier, {"rev", "status"})
      BY <1>3 DEF IsRow
    <2>. QED
      BY <1>2, <2>1, <2>2
  <1>5. /\ \A f \in Profile : ~Live(d.profiles[f])
        /\ \A h \in Host, f \in Profile : ~Live(d.settings[<<h, f>>])
        /\ \A h \in Host : ~Live(d.barriers[h]) /\ d.barriers[h].status # "PENDING"
        /\ \A w \in WorkloadId : d.workloads[w].gen \in Nat
        /\ Workloads(d) = {} /\ DOMAIN d.snapshots = {}
    <2>1. ~Live(NoRow) /\ ~Live(NoWorkload) /\ ~Live(NoBarrier)
      BY <1>3 DEF Live
    <2>2. \A w \in WorkloadId : d.workloads[w] = NoWorkload
      BY <1>2
    <2>3. Workloads(d) = {}
      BY <2>1, <2>2 DEF Workloads
    <2>4. \A h \in Host, f \in Profile : d.settings[<<h, f>>] = NoRow
      BY <1>2
    <2>5. /\ \A f \in Profile : d.profiles[f] = NoRow
          /\ \A h \in Host : d.barriers[h] = NoBarrier
          /\ DOMAIN d.snapshots = {}
      BY <1>2
    <2>6. /\ \A h \in Host : d.barriers[h].status # "PENDING"
          /\ \A w \in WorkloadId : d.workloads[w].gen \in Nat
      BY <1>3, <2>2, <2>5
    <2>. QED
      BY <2>1, <2>3, <2>4, <2>5, <2>6
  <1>6. Consistent(d)
    BY <1>2, <1>4, <1>5
       DEF Consistent, WellFormed, ReferencesIn, ExclusiveIn, RestoringIn, RowColumns,
           WorkloadColumns
  <1>7. PlansIn(d)
    BY <1>5 DEF PlansIn, EffectiveIn, HardwareIn, BoundIn, Generations
  <1>. QED
    BY <1>1, <1>6, <1>7

\* Its rows are typed, with no transaction committed yet.
LEMMA EmptyDatabaseIsTyped == TypedIn(EmptyDatabase)
  <1>1. PICK d : d = EmptyDatabase
    OBVIOUS
  <1>2. /\ d.pools = [p \in Pool |-> NoRow] /\ d.wallets = [k \in Wallet |-> NoRow]
        /\ d.profiles = [f \in Profile |-> NoRow]
        /\ d.settings = [k \in Host \X Profile |-> NoRow]
        /\ d.workloads = [w \in WorkloadId |-> NoWorkload]
        /\ DOMAIN d.snapshots = {}
        /\ d.bindings = [w \in WorkloadId |-> NoBinding]
        /\ d.holds = [h \in Host |-> NoHold] /\ d.barriers = [h \in Host |-> NoBarrier]
        /\ d.restoreRequired = FALSE /\ d.revision = 0
    BY <1>1 DEF EmptyDatabase
  <1>3. \A contents : NoRow \in Row(contents, 0)
    BY DEF NoRow, Row, Revision, Live
  <1>4. /\ NoWorkload \in WorkloadRow(0, 0)
        /\ NoBinding \in [gen : 0..0, code : BlockCode \cup {None}]
        /\ NoHold \in [rev : Revision(0), active : BOOLEAN]
        /\ NoBarrier \in [rev : Revision(0), status : {"CLEAR", "PENDING", "CONFLICT"}]
    BY DEF NoWorkload, WorkloadRow, NoBinding, NoHold, NoBarrier, Revision, Live
  <1>5. /\ d.pools \in [Pool -> PoolRow(0)] /\ d.wallets \in [Wallet -> WalletRow(0)]
        /\ d.profiles \in [Profile -> ProfileRow(0)]
        /\ d.settings \in [Host \X Profile -> SettingsRow(0)]
    BY <1>2, <1>3 DEF PoolRow, WalletRow, ProfileRow, SettingsRow
  <1>6. RowsIn(d, 0, 0)
    <2>1. /\ d.workloads \in [WorkloadId -> WorkloadRow(0, 0)]
          /\ d.bindings \in [WorkloadId -> [gen : 0..0, code : BlockCode \cup {None}]]
          /\ d.holds \in [Host -> [rev : Revision(0), active : BOOLEAN]]
      BY <1>2, <1>4
    <2>2. d.barriers \in [Host -> [rev : Revision(0), status : {"CLEAR", "PENDING", "CONFLICT"}]]
      BY <1>2, <1>4
    <2>3. /\ DOMAIN d.snapshots \subseteq WorkloadId \X (1..0)
          /\ \A k \in DOMAIN d.snapshots : d.snapshots[k] \in Hash
          /\ d.restoreRequired \in BOOLEAN
      BY <1>2
    <2>. QED
      BY <1>5, <2>1, <2>2, <2>3 DEF RowsIn
  <1>. QED
    BY <1>1, <1>2, <1>6, EmptyDatabaseIsConsistent, FarmAssumption DEF TypedIn, Consistent

\* Nothing changes.
LEMMA Unchanged == ASSUME FarmInv, UNCHANGED db PROVE Leads(db, db')
  BY DEF FarmInv, Leads, Follows, KeepsPlans

\* Every operation follows the rules, and so does an interrupted edit.
LEMMA StepLeads ==
  ASSUME FarmInv, FarmStep
  PROVE  Leads(db, db') /\ EditOK'
  <1>. USE DEF FarmInv
  <1>1. CASE \/ CreatePool \/ UpdatePool \/ DeletePool
             \/ CreateWalletRef \/ UpdateWalletRef \/ DeleteWalletRef
             \/ CreateMiningProfile \/ UpdateMiningProfile \/ DeleteMiningProfile
    <2>1. Leads(db, db')
      BY <1>1, CreatePoolStep, UpdatePoolStep, DeletePoolStep,
         CreateWalletRefStep, UpdateWalletRefStep, DeleteWalletRefStep,
         CreateMiningProfileStep, UpdateMiningProfileStep, DeleteMiningProfileStep
    <2>2. UNCHANGED edit
      BY <1>1 DEF CreatePool, UpdatePool, DeletePool, CreateWalletRef, UpdateWalletRef,
                  DeleteWalletRef, CreateMiningProfile, UpdateMiningProfile,
                  DeleteMiningProfile
    <2>. QED
      BY <2>1, <2>2 DEF EditOK, Leads, Follows
  <1>2. CASE \/ CreateHostProfileSettings \/ UpdateHostProfileSettings
             \/ DeleteHostProfileSettings
    <2>1. Leads(db, db')
      BY <1>2, SettingsStep
    <2>2. UNCHANGED edit
      BY <1>2 DEF CreateHostProfileSettings, UpdateHostProfileSettings,
                  DeleteHostProfileSettings
    <2>. QED
      BY <2>1, <2>2 DEF EditOK, Leads, Follows
  <1>3. CASE \/ CreateDesiredWorkload \/ UpdateDesiredWorkload \/ DeleteDesiredWorkload
             \/ BlockDesiredGeneration \/ RetryWorkload
             \/ RefreshResolvedSnapshotForInventory
             \/ MarkRestoreHostConflict \/ ClearRestoreHostBarrier
    <2>1. Leads(db, db')
      BY <1>3, CreateDesiredWorkloadStep, UpdateDesiredWorkloadStep,
         DeleteDesiredWorkloadStep, OtherStep, RetryWorkloadStep, RefreshStep, BarrierStep
    <2>2. UNCHANGED edit
      BY <1>3 DEF CreateDesiredWorkload, UpdateDesiredWorkload, DeleteDesiredWorkload,
                  BlockDesiredGeneration, RetryWorkload,
                  RefreshResolvedSnapshotForInventory, MarkRestoreHostConflict,
                  ClearRestoreHostBarrier
    <2>. QED
      BY <2>1, <2>2 DEF EditOK, Leads, Follows
  <1>4. CASE OperatorReads
    <2>1. Leads(db, db')
      BY <1>4, Unchanged DEF OperatorReads
    <2>2. CASE \E w \in Workloads(db) \cap Editable :
                  edit' = [kind |-> "workload", id |-> w, row |-> db.workloads[w]]
      BY <2>1, <2>2, WorkloadFacts DEF EditOK, Workloads, Content
    <2>3. CASE \E h \in Host \cap Editable :
                  edit' = [kind |-> "hold", id |-> h, row |-> db.holds[h]]
      BY <2>1, <2>3 DEF EditOK, Leads, Follows
    <2>. QED
      BY <1>4, <2>2, <2>3 DEF OperatorReads
  <1>5. CASE OperatorSetsRunState \/ OperatorDeletesWorkload \/ OperatorSetsHold
    <2>1. Leads(db, db')
      BY <1>5, OperatorStep
    <2>2. edit' = None
      BY <1>5 DEF OperatorSetsRunState, OperatorDeletesWorkload, OperatorSetsHold
    <2>. QED
      BY <2>1, <2>2 DEF EditOK, Leads, Follows
  <1>6. CASE OperatorFails
    BY <1>6, Unchanged DEF OperatorFails, EditOK
  <1>. QED
    BY <1>1, <1>2, <1>3, <1>4, <1>5, <1>6 DEF FarmStep

\* So every operation follows the rules.
LEMMA StepFollows ==
  ASSUME FarmInv, FarmStep
  PROVE  Follows(db, db') /\ EditOK'
  BY StepLeads DEF Leads

\* Between any two transactions, from any database that operations left, the
\* rows are well-formed and consistent (writeTx and the checks of every
\* operation of the Service).
THEOREM FarmInvariant == FarmSpec => []FarmInv
  <1>1. FarmInv /\ [FarmStep]_farmVars => FarmInv'
    <2>1. ASSUME FarmInv, FarmStep PROVE FarmInv'
      BY <2>1, StepFollows DEF FarmInv, Follows
    <2>2. ASSUME FarmInv, UNCHANGED farmVars PROVE FarmInv'
      BY <2>2 DEF FarmInv, EditOK, farmVars
    <2>. QED
      BY <2>1, <2>2
  <1>. QED
    BY <1>1, InitConsistent, PTL DEF FarmSpec

\* Nothing that is referred to is ever deleted, whatever is edited, read or
\* deleted in between (ReferencesPool, ReferencesWallet, ReferencesProfile and
\* requireReferences).
THEOREM ReferencesAlwaysExist == FarmSpec => []ReferencesExist
  <1>1. FarmInv => ReferencesExist
    BY DEF FarmInv, Consistent, ReferencesExist
  <1>. QED
    BY <1>1, FarmInvariant, PTL

\* No two RUNNING workloads ever claim the same resource (checkResourceConflict),
\* with any number of Hosts, devices and workloads.
THEOREM ClaimsStayExclusive == FarmSpec => []ExclusiveClaims
  <1>1. FarmInv => ExclusiveClaims
    BY DEF FarmInv, Consistent, ExclusiveClaims
  <1>. QED
    BY <1>1, FarmInvariant, PTL

\* The Controller stays in the reconciliation of a restore exactly as long as a
\* Host of any number has a barrier (ClearRestoreHostBarrier).
THEOREM RestoreEndsWithBarriers == FarmSpec => []RestoreEndsWithLastBarrier
  <1>1. FarmInv => RestoreEndsWithLastBarrier
    BY DEF FarmInv, Consistent, RestoreEndsWithLastBarrier
  <1>. QED
    BY <1>1, FarmInvariant, PTL

\* The plans as they should be are left so by every operation.
LEMMA PlansAlways == FarmSpec => [](FarmInv /\ PlansIn(db))
  <1>1. FarmInit => FarmInv /\ PlansIn(db)
    BY InitConsistent, FarmAssumption DEF FarmInit, PlansIn
  <1>2. FarmInv /\ PlansIn(db) /\ [FarmStep]_farmVars => PlansIn(db')
    <2>1. ASSUME FarmInv, PlansIn(db), FarmStep PROVE PlansIn(db')
      BY <2>1, StepLeads DEF Leads
    <2>2. ASSUME PlansIn(db), UNCHANGED farmVars PROVE PlansIn(db')
      BY <2>2 DEF farmVars
    <2>. QED
      BY <2>1, <2>2
  <1>3. FarmInv /\ PlansIn(db) /\ [FarmStep]_farmVars => PlansIn(db)'
    BY <1>2
  <1>. QED
    BY <1>1, <1>3, FarmInvariant, PTL DEF FarmSpec

\* What every workload is to run is what its rows and those they refer to say, and the
\* plan of its generation says the same (propagateWorkloadIDs, called with the users
\* of whatever row an operation changes, with any number of them).
THEOREM EffectiveAlwaysCurrent == FarmSpec => []EffectiveIsCurrent
  <1>1. FarmInv /\ PlansIn(db) => EffectiveIsCurrent
    BY DEF PlansIn, EffectiveIsCurrent
  <1>. QED
    BY <1>1, PlansAlways, PTL

\* While a workload claims the same devices, no plan of it binds them to another card
\* than the one before did (gpuresource.ValidateStableIdentities, and plans that
\* are retried or propagated), for any devices and inventories.
THEOREM BindingsAlwaysKeepHardware == FarmSpec => []BindingsKeepHardware
  <1>1. FarmInv /\ PlansIn(db) => BindingsKeepHardware
    BY DEF PlansIn, BindingsKeepHardware
  <1>. QED
    BY <1>1, PlansAlways, PTL

\* The plan under an ExecutionID is never changed or removed (createSnapshot
\* with the generations of propagateWorkloadIDs, RetryWorkload and
\* RefreshResolvedSnapshotForInventory).
THEOREM PlansStayImmutable == FarmSpec => PlansAreImmutable
  <1>1. FarmInv /\ [FarmStep]_farmVars => [KeepsPlans(db, db')]_db
    BY StepFollows DEF Follows, farmVars
  <1>. QED
    BY <1>1, FarmInvariant, PTL DEF FarmSpec, PlansAreImmutable

\* Every operation leaves rows that can be read.
LEMMA StepTyped ==
  ASSUME FarmInv, FarmTypeOK, FarmStep
  PROVE  FarmTypeOK'
  <1>. USE DEF FarmInv, FarmTypeOK
  <1>1. Consistent(db')
    BY StepFollows DEF Follows
  <1>2. ASSUME db' = db PROVE TypedIn(db')
    BY <1>2
  <1>3. CASE \/ CreatePool \/ UpdatePool \/ DeletePool
             \/ CreateWalletRef \/ UpdateWalletRef \/ DeleteWalletRef
             \/ CreateMiningProfile \/ UpdateMiningProfile \/ DeleteMiningProfile
             \/ CreateHostProfileSettings \/ UpdateHostProfileSettings
             \/ DeleteHostProfileSettings
    <2>1. TypedIn(db')
      BY <1>1, <1>3, PoolTyped, WalletRefTyped, MiningProfileTyped, HostProfileSettingsTyped
    <2>2. UNCHANGED edit
      BY <1>3 DEF CreatePool, UpdatePool, DeletePool, CreateWalletRef, UpdateWalletRef,
                  DeleteWalletRef, CreateMiningProfile, UpdateMiningProfile,
                  DeleteMiningProfile, CreateHostProfileSettings,
                  UpdateHostProfileSettings, DeleteHostProfileSettings
    <2>. QED
      BY <2>1, <2>2
  <1>4. CASE \/ CreateDesiredWorkload \/ UpdateDesiredWorkload \/ DeleteDesiredWorkload
             \/ BlockDesiredGeneration \/ RetryWorkload
             \/ RefreshResolvedSnapshotForInventory
             \/ MarkRestoreHostConflict \/ ClearRestoreHostBarrier
    <2>1. ASSUME UpdateDesiredWorkload PROVE TypedIn(db')
      <3>1. PICK w \in Workloads(db), c \in WorkloadContent :
                CanUpdate(db, w, c) /\ Commit(Updated(db, w, c))
        BY <2>1 DEF UpdateDesiredWorkload
      <3>2. c \in Work
        BY FarmAssumption
      <3>. QED
        BY <1>1, <3>1, <3>2, UpdatedTyped
    <2>2. ASSUME DeleteDesiredWorkload PROVE TypedIn(db')
      <3>1. PICK w \in Workloads(db) : Commit(WithoutWorkload(db, w))
        BY <2>2 DEF DeleteDesiredWorkload
      <3>2. w \in WorkloadId
        BY DEF Workloads
      <3>. QED
        BY <1>1, <3>1, <3>2, WithoutTyped
    <2>3. TypedIn(db')
      BY <1>1, <1>4, <2>1, <2>2, CreateDesiredWorkloadTyped, BlockTyped, RetryTyped,
         RefreshTyped, BarrierTyped
    <2>4. UNCHANGED edit
      BY <1>4 DEF CreateDesiredWorkload, UpdateDesiredWorkload, DeleteDesiredWorkload,
                  BlockDesiredGeneration, RetryWorkload,
                  RefreshResolvedSnapshotForInventory, MarkRestoreHostConflict,
                  ClearRestoreHostBarrier
    <2>. QED
      BY <2>3, <2>4
  <1>5. CASE OperatorReads
    BY <1>2, <1>5 DEF OperatorReads
  <1>6. CASE OperatorSetsRunState \/ OperatorDeletesWorkload \/ OperatorSetsHold
    <2>1. TypedIn(db')
      BY <1>1, <1>6, OperatorTyped
    <2>2. edit' = None
      BY <1>6 DEF OperatorSetsRunState, OperatorDeletesWorkload, OperatorSetsHold
    <2>. QED
      BY <2>1, <2>2
  <1>7. CASE OperatorFails
    BY <1>2, <1>7 DEF OperatorFails
  <1>. QED
    BY <1>3, <1>4, <1>5, <1>6, <1>7 DEF FarmStep

\* Every operation leaves rows that the scan functions and their validation read back
\* (validateStoredMeta, scanPool, scanWallet, scanProfile, scanWorkload): a live row has its content, a live
\* workload its generation and hash, and no row's revision, generation or plan is of
\* a transaction the database has not seen (the triggers count each of them).
THEOREM FarmTypesAlways == FarmSpec => []FarmTypeOK
  <1>1. FarmInit => FarmTypeOK
    BY FarmAssumption DEF FarmInit, FarmTypeOK
  <1>2. FarmInv /\ FarmTypeOK /\ [FarmStep]_farmVars => FarmTypeOK'
    <2>1. ASSUME FarmInv, FarmTypeOK, UNCHANGED farmVars PROVE FarmTypeOK'
      BY <2>1 DEF FarmTypeOK, farmVars
    <2>. QED
      BY <2>1, StepTyped
  <1>. QED
    BY <1>1, <1>2, FarmInvariant, PTL DEF FarmSpec
===============================================================================
