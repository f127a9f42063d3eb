--------------------------- MODULE Mailbox_proofs ---------------------------
(* The mailbox keeps what it promised, for any number of programs, messages  *)
(* and drafts, whatever the programs and Pat do between two file operations  *)
(* and wherever a program is killed.                                         *)
EXTENDS Mailbox, TLAPS, FiniteSetTheorems

-----------------------------------------------------------------------------
(* The inductive invariant. *)

\* A file has one name, and no program writes to one that has been named.
OneName ==
  /\ \A f, g \in Folder, m, n \in Msg :
       file[f][m] # None /\ file[f][m] = file[g][n] => f = g /\ m = n
  /\ \A f \in Folder, m, n \in Msg : file[f][m] # None => file[f][m] # tmp[n]
  /\ \A m, n \in Msg : tmp[m] # None /\ tmp[m] = tmp[n] => m = n

\* Received messages and drafts lie in different folders.
InPlace ==
  /\ Names("in") \cup Names("archive") \subseteq Mail
  /\ Names("out") \cup Names("sent") \subseteq queued

Stores(p, m) == job[p].op \in Storing /\ job[p].m = m

\* The temporary file is the one the program has open, nobody else's, and
\* written once it is about to be renamed.
Alone(p, m) ==
  /\ tmp[m] = job[p].ino
  /\ job[p].op = "rename" => tmp[m] \in whole
  /\ \A q \in Prog : q # p => ~Stores(q, m)

\* What a session stores it has noted, and it would not have taken it had it
\* seen it.
StoresMail(p, m) ==
  /\ mode[p] = "exchange" /\ m \in known[p]
  /\ m \in Names("in") \cup Names("archive") => m \in arrived[p]

\* A draft is stored once, before anybody can send it.
StoresDraft(m) ==
  /\ m \in queued \ confirmed
  /\ m \notin Names("out")
  /\ \A q \in Prog : m \notin outbound[q]

StoreOK ==
  /\ clash \subseteq Mail
  /\ \A p \in Prog, m \in Msg : Stores(p, m) =>
       /\ m \notin clash => Alone(p, m)
       /\ m \in Mail => StoresMail(p, m)
       /\ m \in Draft => StoresDraft(m)

\* What has been looked at is known, or came there since.  The archive comes
\* last, so what Pat moves meanwhile is seen in one folder or in both.
ScanOK ==
  \A p \in Prog :
    /\ mode[p] \in {"in", "archive"} => job[p] = NoJob
    /\ mode[p] \in {"archive", "exchange"} => Names("in") \subseteq known[p] \cup arrived[p]
    /\ mode[p] = "exchange" => Names("archive") \subseteq known[p] \cup arrived[p]

Kept == Names("in") \cup Names("archive") \cup removed \cup failed \cup clash

\* What a session refuses is held or about to be, and what was acknowledged
\* is held.
KnownOK ==
  /\ \A p \in Prog : unconfirmed[p] \subseteq known[p]
  /\ \A p \in Prog : \A m \in known[p] : m \in Kept \/ Stores(p, m)
  /\ acked \subseteq Kept

\* Only what was queued is sent, and what was confirmed is on its way to sent.
Outgoing ==
  /\ confirmed \subseteq queued
  /\ \A p \in Prog : outbound[p] \subseteq queued
  /\ \A p \in Prog : job[p].op = "move" => job[p].m \in confirmed
  /\ \A m \in confirmed \ unmoved :
       m \in Names("out") => \E p \in Prog : job[p] = Job("move", m, None)

MailboxInv ==
  /\ TypeOK /\ OneName /\ VisibleIsWhole /\ HeldOnce
  /\ InPlace /\ StoreOK /\ ScanOK /\ KnownOK /\ Outgoing

-----------------------------------------------------------------------------
(* There is room for a file. *)

\* Two sets together have no more members than each by itself.
LEMMA UnionAtMost ==
  ASSUME NEW S, NEW T, IsFiniteSet(S), IsFiniteSet(T), NEW a \in Nat, NEW b \in Nat,
         Cardinality(S) <= a, Cardinality(T) <= b
  PROVE  IsFiniteSet(S \cup T) /\ Cardinality(S \cup T) <= a + b
<1>1. IsFiniteSet(S \cap T)
  BY FS_Subset, S \cap T \in SUBSET S
<1>2. {Cardinality(S), Cardinality(T), Cardinality(S \cap T)} \subseteq Nat
  BY <1>1, FS_CardinalityType
<1> QED
  BY <1>2, FS_Union

\* A function has no more values than arguments.
LEMMA ValuesAtMost ==
  ASSUME NEW D, IsFiniteSet(D), NEW g, g = [x \in D |-> g[x]]
  PROVE  IsFiniteSet({g[x] : x \in D}) /\ Cardinality({g[x] : x \in D}) <= Cardinality(D)
<1>1. g \in Surjection(D, {g[x] : x \in D})
  BY DEF Surjection
<1> QED
  BY <1>1, FS_Surjection

\* When a program needs a file there is one that nothing refers to.
LEMMA FreshIsFree ==
  ASSUME TypeOK
  PROVE  FreshInode \in Inode /\ FreshInode \notin InUse
<1> USE MailboxAssumption
<1> DEFINE n == Cardinality(Msg)
           Values(f) == {file[f][m] : m \in Msg}
           Open == {q \in Prog : job[q].op \in Storing}
<1>1. n \in Nat /\ Cardinality(Prog) \in Nat
  BY FS_CardinalityType
<1>2. \A f \in Folder : IsFiniteSet(Values(f)) /\ Cardinality(Values(f)) <= n
  <2> SUFFICES ASSUME NEW f \in Folder PROVE IsFiniteSet(Values(f)) /\ Cardinality(Values(f)) <= n
    OBVIOUS
  <2>1. file[f] = [m \in Msg |-> file[f][m]]
    BY DEF TypeOK
  <2> QED
    BY <2>1, ValuesAtMost
<1>3. IsFiniteSet({tmp[m] : m \in Msg}) /\ Cardinality({tmp[m] : m \in Msg}) <= n
  <2>1. tmp = [m \in Msg |-> tmp[m]]
    BY DEF TypeOK
  <2> QED
    BY <2>1, ValuesAtMost
<1>4. IsFiniteSet({job[p].ino : p \in Open})
      /\ Cardinality({job[p].ino : p \in Open}) <= Cardinality(Prog)
  <2>1. IsFiniteSet(Open) /\ Cardinality(Open) <= Cardinality(Prog)
    BY FS_Subset, Open \in SUBSET Prog
  <2> HIDE DEF Open
  <2>2. PICK g : g = [q \in Open |-> job[q].ino]
    OBVIOUS
  <2>3. g = [q \in Open |-> g[q]] /\ {g[q] : q \in Open} = {job[p].ino : p \in Open}
    BY <2>2
  <2>4. IsFiniteSet({g[q] : q \in Open}) /\ Cardinality({g[q] : q \in Open}) <= Cardinality(Open)
    BY <2>1, <2>3, ValuesAtMost
  <2> DEFINE V == {g[q] : q \in Open}
  <2>5. IsFiniteSet(V) /\ Cardinality(V) <= Cardinality(Prog)
    <3> HIDE DEF V
    <3>1. IsFiniteSet(V) /\ Cardinality(V) <= Cardinality(Open)
      BY <2>4 DEF V
    <3>2. Cardinality(Open) \in Nat /\ Cardinality(V) \in Nat
      BY <2>1, <3>1, FS_CardinalityType
    <3> QED
      BY <1>1, <2>1, <3>1, <3>2
  <2> QED
    BY <2>3, <2>5
<1> DEFINE F2 == Values("in") \cup Values("out")
           F3 == F2 \cup Values("sent")
           F4 == F3 \cup Values("archive")
           F5 == F4 \cup {tmp[m] : m \in Msg}
           F6 == F5 \cup {job[p].ino : p \in Open}
<1>5. InUse = F6
  BY DEF InUse, Folder
<1>6. {"in", "out", "sent", "archive"} \subseteq Folder
  BY DEF Folder
<1> HIDE DEF n, Values, Open
<1>7. IsFiniteSet(F2) /\ Cardinality(F2) <= n + n
  BY <1>1, <1>2, <1>6, UnionAtMost
<1>8. IsFiniteSet(F3) /\ Cardinality(F3) <= (n + n) + n
  <2> HIDE DEF F2
  <2> QED
    BY <1>1, <1>2, <1>6, <1>7, UnionAtMost, n + n \in Nat
<1>9. IsFiniteSet(F4) /\ Cardinality(F4) <= ((n + n) + n) + n
  <2> HIDE DEF F3
  <2> QED
    BY <1>1, <1>2, <1>6, <1>8, UnionAtMost, (n + n) + n \in Nat
<1>10. IsFiniteSet(F5) /\ Cardinality(F5) <= (((n + n) + n) + n) + n
  <2> HIDE DEF F4
  <2> QED
    BY <1>1, <1>3, <1>9, UnionAtMost, ((n + n) + n) + n \in Nat
<1>11. IsFiniteSet(F6) /\ Cardinality(F6) <= ((((n + n) + n) + n) + n) + Cardinality(Prog)
  <2> HIDE DEF F5
  <2> QED
    BY <1>1, <1>4, <1>10, UnionAtMost, (((n + n) + n) + n) + n \in Nat
<1> HIDE DEF F6
<1>12. Cardinality(F6) < MaxInode
  <2>1. MaxInode > 5 * n + Cardinality(Prog)
    BY DEF n
  <2>2. Cardinality(F6) \in Nat
    BY <1>11, FS_CardinalityType
  <2> QED
    BY <1>1, <1>11, <2>1, <2>2
<1>13. \E i \in Inode : i \notin F6
  <2> SUFFICES ASSUME Inode \subseteq F6 PROVE FALSE
    OBVIOUS
  <2>1. Cardinality(Inode) = MaxInode /\ IsFiniteSet(Inode)
    BY FS_Interval DEF Inode
  <2>2. Cardinality(Inode) <= Cardinality(F6)
    BY <1>11, FS_Subset
  <2>3. Cardinality(F6) \in Nat
    BY <1>11, FS_CardinalityType
  <2> QED
    BY <1>12, <2>1, <2>2, <2>3
<1> QED
  BY <1>5, <1>13 DEF FreshInode


-----------------------------------------------------------------------------
\* The order of the scan.
LEMMA ScanSteps ==
  ScanOrder[1] = "in" /\ AfterScan("in") = "archive" /\ AfterScan("archive") = "exchange"
BY DEF AfterScan, ScanOrder

\* A file that moves from one folder to another keeps its one name.
LEMMA MovedHasOneName ==
  ASSUME OneName, tmp' = tmp, NEW m \in Msg, NEW from \in Folder, NEW to \in Folder,
         from # to, file[from][m] # None,
         \A f \in Folder, n \in Msg :
           file'[f][n] = IF f = to /\ n = m THEN file[from][m]
                         ELSE IF f = from /\ n = m THEN None ELSE file[f][n]
  PROVE  OneName'
<1> DEFINE Was(f, n) == IF f = to /\ n = m THEN from ELSE f
<1>1. \A f \in Folder, n \in Msg : file'[f][n] # None =>
        Was(f, n) \in Folder /\ file'[f][n] = file[Was(f, n)][n] /\ ~(f = from /\ n = m)
  OBVIOUS
<1>2. \A f, g \in Folder, n, k \in Msg :
        file'[f][n] # None /\ file'[f][n] = file'[g][k] => Was(f, n) = Was(g, k) /\ n = k
  <2> HIDE DEF Was
  <2> QED
    BY <1>1 DEF OneName
<1>3. \A f, g \in Folder, n, k \in Msg :
        file'[f][n] # None /\ file'[f][n] = file'[g][k] => f = g /\ n = k
  BY <1>1, <1>2
<1>4. \A f \in Folder, n, k \in Msg : file'[f][n] # None => file'[f][n] # tmp'[k]
  <2> HIDE DEF Was
  <2> QED
    BY <1>1 DEF OneName
<1> QED
  BY <1>3, <1>4 DEF OneName

\* The temporary file a store opens has no other name and comes to light
\* nowhere.
LEMMA OpenTmpDoes ==
  ASSUME TypeOK, OneName, NEW p \in Prog, NEW m \in Msg, OpenTmp(p, m)
  PROVE  \E ino \in Inode :
           /\ tmp' = [tmp EXCEPT ![m] = ino] /\ whole' = whole \ {ino}
           /\ job' = [job EXCEPT ![p] = Job("write", m, ino)]
           /\ file' = file
           /\ \A f \in Folder, n \in Msg : file[f][n] # ino
           /\ \A n \in Msg : n # m => tmp[n] # ino
           /\ clash' = IF \E q \in Prog : q # p /\ Stores(q, m) THEN clash \cup {m} ELSE clash
<1> DEFINE ino == IF tmp[m] # None THEN tmp[m] ELSE FreshInode
<1>1. /\ tmp' = [tmp EXCEPT ![m] = ino] /\ whole' = whole \ {ino}
      /\ job' = [job EXCEPT ![p] = Job("write", m, ino)]
      /\ file' = file
  BY DEF OpenTmp
<1>2. clash' = IF \E q \in Prog : q # p /\ Stores(q, m) THEN clash \cup {m} ELSE clash
  BY DEF OpenTmp, Stores
<1>3. ino \in Inode
  BY FreshIsFree DEF TypeOK
<1>4. \A f \in Folder, n \in Msg : file[f][n] # ino
  BY FreshIsFree DEF OneName, InUse
<1>5. \A n \in Msg : n # m => tmp[n] # ino
  BY FreshIsFree DEF OneName, InUse
<1> HIDE DEF ino
<1> QED
  BY <1>1, <1>2, <1>3, <1>4, <1>5

\* A move to sent that is under way still is, when no job of that kind ends.
LEMMA MovesGoOn ==
  ASSUME MailboxInv, confirmed' = confirmed, unmoved' = unmoved,
         \A m \in confirmed : m \in Names("out")' => m \in Names("out"),
         \A p \in Prog : job[p].op = "move" => job'[p] = job[p]
  PROVE  \A m \in (confirmed \ unmoved)' :
           m \in Names("out")' => \E p \in Prog : job'[p] = Job("move", m, None)
<1> SUFFICES ASSUME NEW m \in confirmed \ unmoved, m \in Names("out")'
             PROVE  \E p \in Prog : job'[p] = Job("move", m, None)
  OBVIOUS
<1>1. PICK p \in Prog : job[p] = Job("move", m, None)
  BY DEF MailboxInv, Outgoing
<1>2. job[p].op = "move"
  BY <1>1 DEF Job
<1> QED
  BY <1>1, <1>2

\* A program opens its session knowing nothing yet.
LEMMA ConnectKeeps ==
  ASSUME MailboxInv, NEW p \in Prog, Connect(p)
  PROVE  MailboxInv'
<1>1. TypeOK'
  BY ScanSteps DEF MailboxInv, TypeOK, InPlace, Connect, Readable, Names, Msg, files, told
<1>2. OneName'
  BY DEF MailboxInv, Connect, OneName, Readable, files, told
<1>3. VisibleIsWhole'
  BY DEF MailboxInv, Connect, VisibleIsWhole, Names, Readable, files, told
<1>4. HeldOnce'
  BY DEF MailboxInv, Connect, HeldOnce, Names, Readable, files, told
<1>5. InPlace'
  BY DEF MailboxInv, Connect, InPlace, Names, Readable, files, told
<1>6. StoreOK'
  BY DEF MailboxInv, Connect, StoreOK, Stores, Alone, StoresMail, StoresDraft, Names, Readable, files, told
<1>7. ScanOK'
  BY ScanSteps DEF MailboxInv, TypeOK, ScanOK, Connect, Names, files
<1>8. KnownOK'
  BY DEF MailboxInv, Connect, KnownOK, Kept, Stores, Names, Readable, files, told
<1>9. Outgoing'
  <2>1. \A m \in (confirmed \ unmoved)' :
          m \in Names("out")' => \E q \in Prog : job'[q] = Job("move", m, None)
    BY MovesGoOn DEF MailboxInv, TypeOK, Connect, Readable, Names, NoJob, Storing, Msg, files, local, told
  <2>2. Readable("out") \subseteq queued
    BY DEF MailboxInv, InPlace, Readable
  <2> QED
    BY <2>1, <2>2 DEF MailboxInv, Connect, Outgoing, TypeOK, told
<1> QED
  BY <1>1, <1>2, <1>3, <1>4, <1>5, <1>6, <1>7, <1>8, <1>9 DEF MailboxInv

\* Looking at a folder makes known what lies in it.
LEMMA ScanKeeps ==
  ASSUME MailboxInv, NEW p \in Prog, Scan(p)
  PROVE  MailboxInv'
<1>1. TypeOK'
  BY ScanSteps DEF MailboxInv, TypeOK, InPlace, Scan, Names, Msg, files, told
<1>2. OneName'
  BY DEF MailboxInv, Scan, OneName, files, told
<1>3. VisibleIsWhole'
  BY DEF MailboxInv, Scan, VisibleIsWhole, Names, files, told
<1>4. HeldOnce'
  BY DEF MailboxInv, Scan, HeldOnce, Names, files, told
<1>5. InPlace'
  BY DEF MailboxInv, Scan, InPlace, Names, files, told
<1>6. StoreOK'
  BY DEF MailboxInv, Scan, StoreOK, Stores, Alone, StoresMail, StoresDraft, Names, files, told
<1>7. ScanOK'
  BY ScanSteps DEF MailboxInv, TypeOK, ScanOK, Scan, Names, files
<1>8. KnownOK'
  BY DEF MailboxInv, Scan, KnownOK, Kept, Stores, Names, files, told
<1>9. Outgoing'
  BY DEF MailboxInv, Scan, Outgoing, Names, files, told
<1> QED
  BY <1>1, <1>2, <1>3, <1>4, <1>5, <1>6, <1>7, <1>8, <1>9 DEF MailboxInv

\* The file is written to its end, still out of sight.
LEMMA WriteTmpKeeps ==
  ASSUME MailboxInv, NEW p \in Prog, WriteTmp(p)
  PROVE  MailboxInv'
<1>1. TypeOK'
  BY DEF MailboxInv, WriteTmp, TypeOK, NoJob, Storing, told
<1>2. OneName'
  BY DEF MailboxInv, WriteTmp, OneName, told
<1>3. VisibleIsWhole'
  BY DEF MailboxInv, WriteTmp, VisibleIsWhole, Names, told
<1>4. HeldOnce'
  BY DEF MailboxInv, WriteTmp, HeldOnce, Names, told
<1>5. InPlace'
  BY DEF MailboxInv, WriteTmp, InPlace, Names, told
<1>6. StoreOK'
  BY DEF MailboxInv, WriteTmp, StoreOK, Stores, Alone, StoresMail, StoresDraft, Names, Storing, told
<1>7. ScanOK'
  BY DEF MailboxInv, WriteTmp, ScanOK, Names, NoJob, told
<1>8. KnownOK'
  BY DEF MailboxInv, WriteTmp, KnownOK, Kept, Stores, Names, Storing, told
<1>9. Outgoing'
  <2>1. \A m \in (confirmed \ unmoved)' :
          m \in Names("out")' => \E q \in Prog : job'[q] = Job("move", m, None)
    BY MovesGoOn DEF MailboxInv, TypeOK, WriteTmp, Names, NoJob, Storing, Msg, files, local, told
  <2> QED
    BY <2>1, MailboxAssumption DEF MailboxInv, WriteTmp, Outgoing, TypeOK, Names, NoJob, Storing, Inode, Msg, None, Folder, vars, files, local, told
<1> QED
  BY <1>1, <1>2, <1>3, <1>4, <1>5, <1>6, <1>7, <1>8, <1>9 DEF MailboxInv

\* A write that fails shows nothing, and what was to be stored counts as failed.
LEMMA WriteFailsKeeps ==
  ASSUME MailboxInv, NEW p \in Prog, WriteFails(p)
  PROVE  MailboxInv'
<1>1. TypeOK'
  BY DEF MailboxInv, WriteFails, TypeOK, NoJob, Storing, StoreFails, files
<1>2. OneName'
  BY DEF MailboxInv, WriteFails, OneName, StoreFails, files
<1>3. VisibleIsWhole'
  BY DEF MailboxInv, WriteFails, VisibleIsWhole, Names, StoreFails, files
<1>4. HeldOnce'
  BY DEF MailboxInv, WriteFails, HeldOnce, Names, StoreFails, files
<1>5. InPlace'
  BY DEF MailboxInv, WriteFails, InPlace, Names, StoreFails, files
<1>6. StoreOK'
  BY DEF MailboxInv, WriteFails, StoreOK, Stores, Alone, StoresMail, StoresDraft, Names, NoJob, Storing, StoreFails, files
<1>7. ScanOK'
  BY DEF MailboxInv, WriteFails, ScanOK, Names, StoreFails, files
<1>8. KnownOK'
  BY DEF MailboxInv, WriteFails, KnownOK, Kept, Stores, Names, StoreFails, files
<1>9. Outgoing'
  <2>1. \A m \in (confirmed \ unmoved)' :
          m \in Names("out")' => \E q \in Prog : job'[q] = Job("move", m, None)
    BY MovesGoOn DEF MailboxInv, TypeOK, WriteFails, StoreFails, Names, NoJob, Storing, Msg, files, local, told
  <2> QED
    BY <2>1, MailboxAssumption DEF MailboxInv, WriteFails, StoreFails, Outgoing, TypeOK, Names, NoJob, Storing, Inode, Msg, None, Folder, vars, files, local, told
<1> QED
  BY <1>1, <1>2, <1>3, <1>4, <1>5, <1>6, <1>7, <1>8, <1>9 DEF MailboxInv

\* A rename that fails shows nothing, and what was to be stored counts as failed.
LEMMA RenameFailsKeeps ==
  ASSUME MailboxInv, NEW p \in Prog, RenameFails(p)
  PROVE  MailboxInv'
<1>1. TypeOK'
  BY DEF MailboxInv, RenameFails, TypeOK, NoJob, Storing, StoreFails, files
<1>2. OneName'
  BY DEF MailboxInv, RenameFails, OneName, StoreFails, files
<1>3. VisibleIsWhole'
  BY DEF MailboxInv, RenameFails, VisibleIsWhole, Names, StoreFails, files
<1>4. HeldOnce'
  BY DEF MailboxInv, RenameFails, HeldOnce, Names, StoreFails, files
<1>5. InPlace'
  BY DEF MailboxInv, RenameFails, InPlace, Names, StoreFails, files
<1>6. StoreOK'
  BY DEF MailboxInv, RenameFails, StoreOK, Stores, Alone, StoresMail, StoresDraft, Names, NoJob, Storing, StoreFails, files
<1>7. ScanOK'
  BY DEF MailboxInv, RenameFails, ScanOK, Names, StoreFails, files
<1>8. KnownOK'
  BY DEF MailboxInv, RenameFails, KnownOK, Kept, Stores, Names, StoreFails, files
<1>9. Outgoing'
  <2>1. \A m \in (confirmed \ unmoved)' :
          m \in Names("out")' => \E q \in Prog : job'[q] = Job("move", m, None)
    BY MovesGoOn DEF MailboxInv, TypeOK, RenameFails, StoreFails, Names, NoJob, Storing, Msg, files, local, told
  <2> QED
    BY <2>1, MailboxAssumption DEF MailboxInv, RenameFails, StoreFails, Outgoing, TypeOK, Names, NoJob, Storing, Inode, Msg, None, Folder, vars, files, local, told
<1> QED
  BY <1>1, <1>2, <1>3, <1>4, <1>5, <1>6, <1>7, <1>8, <1>9 DEF MailboxInv

\* A rename shows the whole file in its folder, under one name.
LEMMA RenameTmpKeeps ==
  ASSUME MailboxInv, NEW p \in Prog, RenameTmp(p)
  PROVE  MailboxInv'
<1> DEFINE m == job[p].m
<1>a. /\ m \in Msg /\ Stores(p, m) /\ tmp[m] # None /\ tmp[m] \in Inode
      /\ \A f \in Folder, n \in Msg :
           file'[f][n] = IF f = Home(m) /\ n = m THEN tmp[m] ELSE file[f][n]
      /\ tmp' = [tmp EXCEPT ![m] = None] /\ whole' = whole
  BY DEF MailboxInv, TypeOK, RenameTmp, Stores, Storing, NoJob
<1>b. Home(m) = (IF m \in Mail THEN "in" ELSE "out") /\ Home(m) \in Folder
  BY DEF Home, Folder
<1>c. /\ m \notin clash => Alone(p, m)
      /\ m \in Mail => StoresMail(p, m)
      /\ m \in Draft => StoresDraft(m)
  BY <1>a DEF MailboxInv, StoreOK
<1>1. TypeOK'
  BY DEF MailboxInv, RenameTmp, TypeOK, NoJob, Storing, Inode, None, Folder, Home
<1>2. OneName'
  BY DEF MailboxInv, RenameTmp, TypeOK, OneName, Home
<1>3. VisibleIsWhole'
  <2>1. m \notin clash => tmp[m] \in whole
    BY <1>a, <1>c DEF Alone, RenameTmp
  <2> QED
    BY <1>a, <2>1 DEF MailboxInv, VisibleIsWhole, Names, RenameTmp
<1>4. HeldOnce'
  <2>1. overlap' = IF m \in arrived[p] THEN overlap \cup {m} ELSE overlap
    BY DEF RenameTmp
  <2> SUFFICES ASSUME NEW x \in (Names("in") \cap Names("archive"))' PROVE x \in overlap'
    BY DEF HeldOnce
  <2>2. {"in", "out", "archive"} \subseteq Folder /\ x \in Msg
    BY DEF Folder, Names
  <2>3. CASE x = m /\ m \in Mail
    <3>1. m \in Names("archive")
      BY <1>a, <1>b, <2>2, <2>3 DEF Names
    <3> QED
      BY <1>c, <2>1, <2>3, <3>1 DEF StoresMail
  <2>4. CASE x # m \/ m \notin Mail
    <3>1. x \in Names("in") \cap Names("archive")
      BY <1>a, <1>b, <2>2, <2>4 DEF Names
    <3> QED
      BY <2>1, <3>1 DEF MailboxInv, HeldOnce
  <2> QED
    BY <2>3, <2>4
<1>5. InPlace'
  <2>1. \A f \in Folder, n \in Msg : n \in Names(f)' => n \in Names(f) \/ (f = Home(m) /\ n = m)
    BY <1>a DEF Names
  <2>2. m \in Draft => m \in queued
    BY <1>c DEF StoresDraft
  <2> QED
    BY <1>a, <1>b, <2>1, <2>2 DEF MailboxInv, InPlace, RenameTmp, Names, Folder, Msg
<1>6. StoreOK'
  BY DEF MailboxInv, RenameTmp, TypeOK, StoreOK, Stores, Alone, StoresMail, StoresDraft, Names, NoJob, Storing, Home
<1>7. ScanOK'
  <2>1. \A f \in Folder, n \in Msg : n \in Names(f)' => n \in Names(f) \/ (f = Home(m) /\ n = m)
    BY <1>a DEF Names
  <2>2. \A q \in Prog : mode[q] # "idle" =>
          /\ arrived[q] \subseteq arrived'[q]
          /\ q # p => m \in arrived'[q]
    BY <1>a DEF MailboxInv, TypeOK, RenameTmp
  <2>3. m \in Mail => m \in known[p]
    BY <1>c DEF StoresMail
  <2>4. mode' = mode /\ known' = known /\ job' = [job EXCEPT ![p] = NoJob]
    BY DEF RenameTmp
  <2>5. \A q \in Prog : mode'[q] \in {"in", "archive"} => job'[q] = NoJob
    BY <2>4 DEF MailboxInv, TypeOK, ScanOK
  <2>6. ASSUME NEW q \in Prog, mode[q] # "idle", NEW f \in {"in", "archive"}, Names(f) \subseteq known[q] \cup arrived[q]
        PROVE  Names(f)' \subseteq known'[q] \cup arrived'[q]
    <3> SUFFICES ASSUME NEW n \in Names(f)' PROVE n \in known'[q] \cup arrived'[q]
      OBVIOUS
    <3>1. n \in Msg /\ f \in Folder
      BY <2>6 DEF Names, Folder
    <3>2. CASE n \in Names(f)
      BY <2>2, <2>4, <2>6, <3>2
    <3>3. CASE f = Home(m) /\ n = m
      BY <1>b, <2>2, <2>3, <2>4, <2>6, <3>3
    <3> QED
      BY <2>1, <3>1, <3>2, <3>3
  <2> QED
    BY <2>4, <2>5, <2>6 DEF MailboxInv, ScanOK
<1>8. KnownOK'
  BY MailboxAssumption DEF MailboxInv, RenameTmp, TypeOK, KnownOK, Kept, Stores, Names, NoJob, Storing, Home, Inode, Msg, None, Folder, Readable, vars, files, local, told
<1>9. Outgoing'
  <2>1. \A n \in confirmed : n \in Names("out")' => n \in Names("out")
    <3>1. m \notin Draft \/ m \notin confirmed
      BY <1>c DEF StoresDraft
    <3> QED
      BY <1>a, <1>b, <3>1, MailboxAssumption DEF MailboxInv, TypeOK, Names, Folder
  <2>2. \A q \in Prog : job[q].op = "move" => job'[q] = job[q]
    BY <1>a DEF MailboxInv, TypeOK, RenameTmp, Stores, Storing
  <2>3. \A n \in (confirmed \ unmoved)' :
          n \in Names("out")' => \E q \in Prog : job'[q] = Job("move", n, None)
    BY <2>1, <2>2, MovesGoOn DEF RenameTmp
  <2> QED
    BY <2>3 DEF MailboxInv, Outgoing, TypeOK, RenameTmp, NoJob
<1> QED
  BY <1>1, <1>2, <1>3, <1>4, <1>5, <1>6, <1>7, <1>8, <1>9 DEF MailboxInv

\* A draft gets a file nobody has.
LEMMA QueueKeeps ==
  ASSUME MailboxInv, NEW p \in Prog, NEW m \in Msg, Queue(p, m)
  PROVE  MailboxInv'
<1> PICK ino \in Inode :
      /\ tmp' = [tmp EXCEPT ![m] = ino] /\ whole' = whole \ {ino}
      /\ job' = [job EXCEPT ![p] = Job("write", m, ino)]
      /\ file' = file
      /\ \A f \in Folder, n \in Msg : file[f][n] # ino
      /\ \A n \in Msg : n # m => tmp[n] # ino
      /\ clash' = IF \E q \in Prog : q # p /\ Stores(q, m) THEN clash \cup {m} ELSE clash
  BY OpenTmpDoes DEF MailboxInv, Queue
<1>1. TypeOK'
  BY DEF MailboxInv, TypeOK, Queue, Job, Storing, Msg, told
<1>2. OneName'
  BY DEF MailboxInv, TypeOK, OneName
<1>3. VisibleIsWhole'
  BY DEF MailboxInv, TypeOK, VisibleIsWhole, Names
<1>4. HeldOnce'
  BY DEF MailboxInv, Queue, HeldOnce, Names, OpenTmp, Job
<1>5. InPlace'
  BY DEF MailboxInv, Queue, InPlace, Names, OpenTmp, Job
<1>6. StoreOK'
  <2>1. \A q \in Prog, x \in Msg : Stores(q, x)' <=> (q = p /\ x = m) \/ (q # p /\ Stores(q, x))
    BY DEF MailboxInv, TypeOK, Stores, Job, Storing
  <2>5. clash' \subseteq Mail
    BY MailboxAssumption DEF MailboxInv, TypeOK, StoreOK, StoresDraft, Queue, Msg
  <2> SUFFICES ASSUME NEW q \in Prog, NEW x \in Msg, Stores(q, x)'
               PROVE  /\ x \notin clash' => Alone(q, x)'
                      /\ x \in Mail => StoresMail(q, x)'
                      /\ x \in Draft => StoresDraft(x)'
    BY <2>5 DEF StoreOK
  <2>2. x \notin clash' => Alone(q, x)'
    BY <2>1 DEF MailboxInv, TypeOK, StoreOK, Alone, Job
  <2>3. x \in Mail => StoresMail(q, x)'
    BY <2>1, MailboxAssumption DEF MailboxInv, TypeOK, StoreOK, StoresMail, ScanOK, Queue, Names
  <2>4. x \in Draft => StoresDraft(x)'
    BY <2>1, MailboxAssumption DEF MailboxInv, TypeOK, StoreOK, StoresDraft, InPlace, Outgoing, Queue, Names
  <2> QED
    BY <2>2, <2>3, <2>4
<1>7. ScanOK'
  BY DEF MailboxInv, Queue, ScanOK, Names, OpenTmp, Job
<1>8. KnownOK'
  BY DEF MailboxInv, Queue, KnownOK, Kept, Stores, Names, NoJob, Storing, OpenTmp, Job
<1>9. Outgoing'
  BY DEF MailboxInv, Queue, Outgoing, Names, NoJob, OpenTmp, Job, Storing
<1> QED
  BY <1>1, <1>2, <1>3, <1>4, <1>5, <1>6, <1>7, <1>8, <1>9 DEF MailboxInv

\* A received message gets a file nobody has, unless two programs store it at once.
LEMMA ReceiveKeeps ==
  ASSUME MailboxInv, NEW p \in Prog, NEW m \in Msg, Receive(p, m)
  PROVE  MailboxInv'
<1> PICK ino \in Inode :
      /\ tmp' = [tmp EXCEPT ![m] = ino] /\ whole' = whole \ {ino}
      /\ job' = [job EXCEPT ![p] = Job("write", m, ino)]
      /\ file' = file
      /\ \A f \in Folder, n \in Msg : file[f][n] # ino
      /\ \A n \in Msg : n # m => tmp[n] # ino
      /\ clash' = IF \E q \in Prog : q # p /\ Stores(q, m) THEN clash \cup {m} ELSE clash
  BY OpenTmpDoes DEF MailboxInv, Receive
<1>1. TypeOK'
  BY DEF MailboxInv, TypeOK, Receive, InSession, Job, Storing, Msg, told
<1>2. OneName'
  BY DEF MailboxInv, TypeOK, OneName
<1>3. VisibleIsWhole'
  BY DEF MailboxInv, TypeOK, VisibleIsWhole, Names
<1>4. HeldOnce'
  BY DEF MailboxInv, Receive, HeldOnce, Names, OpenTmp, Job, InSession
<1>5. InPlace'
  BY DEF MailboxInv, Receive, InPlace, Names, OpenTmp, Job, InSession
<1>6. StoreOK'
  <2>1. \A q \in Prog, x \in Msg : Stores(q, x)' <=> (q = p /\ x = m) \/ (q # p /\ Stores(q, x))
    BY DEF MailboxInv, TypeOK, Stores, Job, Storing
  <2>5. clash' \subseteq Mail
    BY MailboxAssumption DEF MailboxInv, TypeOK, StoreOK, StoresDraft, Receive, InSession, Msg
  <2> SUFFICES ASSUME NEW q \in Prog, NEW x \in Msg, Stores(q, x)'
               PROVE  /\ x \notin clash' => Alone(q, x)'
                      /\ x \in Mail => StoresMail(q, x)'
                      /\ x \in Draft => StoresDraft(x)'
    BY <2>5 DEF StoreOK
  <2>2. x \notin clash' => Alone(q, x)'
    BY <2>1 DEF MailboxInv, TypeOK, StoreOK, Alone, Job
  <2>3. x \in Mail => StoresMail(q, x)'
    BY <2>1, MailboxAssumption DEF MailboxInv, TypeOK, StoreOK, StoresMail, ScanOK, Receive, InSession, Names
  <2>4. x \in Draft => StoresDraft(x)'
    BY <2>1, MailboxAssumption DEF MailboxInv, TypeOK, StoreOK, StoresDraft, InPlace, Outgoing, Receive, InSession, Names
  <2> QED
    BY <2>2, <2>3, <2>4
<1>7. ScanOK'
  BY DEF MailboxInv, Receive, ScanOK, Names, OpenTmp, Job, InSession
<1>8. KnownOK'
  BY DEF MailboxInv, Receive, TypeOK, KnownOK, Kept, Stores, Names, NoJob, Storing, OpenTmp, Job, InSession
<1>9. Outgoing'
  BY DEF MailboxInv, Receive, Outgoing, Names, NoJob, OpenTmp, Job, InSession, Storing
<1> QED
  BY <1>1, <1>2, <1>3, <1>4, <1>5, <1>6, <1>7, <1>8, <1>9 DEF MailboxInv

\* What is acknowledged was stored before.
LEMMA ConfirmReceivedKeeps ==
  ASSUME MailboxInv, NEW p \in Prog, ConfirmReceived(p)
  PROVE  MailboxInv'
<1>1. TypeOK'
  BY DEF MailboxInv, ConfirmReceived, TypeOK, InSession, files
<1>2. OneName'
  BY DEF MailboxInv, ConfirmReceived, OneName, InSession, files
<1>3. VisibleIsWhole'
  BY DEF MailboxInv, ConfirmReceived, VisibleIsWhole, Names, InSession, files
<1>4. HeldOnce'
  BY DEF MailboxInv, ConfirmReceived, HeldOnce, Names, InSession, files
<1>5. InPlace'
  BY DEF MailboxInv, ConfirmReceived, InPlace, Names, InSession, files
<1>6. StoreOK'
  BY DEF MailboxInv, ConfirmReceived, StoreOK, Stores, Alone, StoresMail, StoresDraft, Names, InSession, files
<1>7. ScanOK'
  BY DEF MailboxInv, ConfirmReceived, ScanOK, Names, InSession, files
<1>8. KnownOK'
  BY DEF MailboxInv, ConfirmReceived, KnownOK, Kept, Stores, Names, NoJob, Storing, InSession, files
<1>9. Outgoing'
  BY DEF MailboxInv, ConfirmReceived, Outgoing, Names, InSession, files
<1> QED
  BY <1>1, <1>2, <1>3, <1>4, <1>5, <1>6, <1>7, <1>8, <1>9 DEF MailboxInv

\* A message is refused as held only when it is known.
LEMMA RefuseKnownKeeps ==
  ASSUME MailboxInv, NEW p \in Prog, NEW m \in Msg, RefuseKnown(p, m)
  PROVE  MailboxInv'
<1>1. TypeOK'
  BY DEF MailboxInv, RefuseKnown, TypeOK, InSession, files, local
<1>2. OneName'
  BY DEF MailboxInv, RefuseKnown, OneName, InSession, files, local
<1>3. VisibleIsWhole'
  BY DEF MailboxInv, RefuseKnown, VisibleIsWhole, Names, InSession, files, local
<1>4. HeldOnce'
  BY DEF MailboxInv, RefuseKnown, HeldOnce, Names, InSession, files, local
<1>5. InPlace'
  BY DEF MailboxInv, RefuseKnown, InPlace, Names, InSession, files, local
<1>6. StoreOK'
  BY DEF MailboxInv, RefuseKnown, StoreOK, Stores, Alone, StoresMail, StoresDraft, Names, InSession, files, local
<1>7. ScanOK'
  BY DEF MailboxInv, RefuseKnown, ScanOK, Names, InSession, files, local
<1>8. KnownOK'
  BY DEF MailboxInv, RefuseKnown, KnownOK, Kept, Stores, Names, NoJob, Storing, InSession, files, local
<1>9. Outgoing'
  BY DEF MailboxInv, RefuseKnown, Outgoing, Names, InSession, files, local
<1> QED
  BY <1>1, <1>2, <1>3, <1>4, <1>5, <1>6, <1>7, <1>8, <1>9 DEF MailboxInv

\* A confirmed draft is on its way to the sent folder.
LEMMA DeliveredKeeps ==
  ASSUME MailboxInv, NEW p \in Prog, NEW m \in Msg, Delivered(p, m)
  PROVE  MailboxInv'
<1>1. TypeOK'
  BY DEF MailboxInv, Delivered, TypeOK, InSession, MoveToSent, Job, files
<1>2. OneName'
  BY DEF MailboxInv, Delivered, OneName, InSession, MoveToSent, Job, files
<1>3. VisibleIsWhole'
  BY DEF MailboxInv, Delivered, VisibleIsWhole, Names, InSession, MoveToSent, Job, files
<1>4. HeldOnce'
  BY DEF MailboxInv, Delivered, HeldOnce, Names, InSession, MoveToSent, Job, files
<1>5. InPlace'
  BY DEF MailboxInv, Delivered, InPlace, Names, InSession, MoveToSent, Job, files
<1>6. StoreOK'
  BY DEF MailboxInv, Delivered, StoreOK, Stores, Alone, StoresMail, StoresDraft, Names, NoJob, Storing, InSession, MoveToSent, Job, files
<1>7. ScanOK'
  BY DEF MailboxInv, Delivered, ScanOK, Names, InSession, MoveToSent, Job, files
<1>8. KnownOK'
  BY DEF MailboxInv, Delivered, KnownOK, Kept, Stores, Names, NoJob, Storing, InSession, MoveToSent, Job, files
<1>9. Outgoing'
  BY DEF MailboxInv, Delivered, TypeOK, Outgoing, Names, NoJob, InSession, MoveToSent, Job, files
<1> QED
  BY <1>1, <1>2, <1>3, <1>4, <1>5, <1>6, <1>7, <1>8, <1>9 DEF MailboxInv

\* A deferred draft stays where it is.
LEMMA DeferredKeeps ==
  ASSUME MailboxInv, NEW p \in Prog, NEW m \in Msg, Deferred(p, m)
  PROVE  MailboxInv'
<1>1. TypeOK'
  BY DEF MailboxInv, Deferred, TypeOK, InSession, files, told
<1>2. OneName'
  BY DEF MailboxInv, Deferred, OneName, InSession, files, told
<1>3. VisibleIsWhole'
  BY DEF MailboxInv, Deferred, VisibleIsWhole, Names, InSession, files, told
<1>4. HeldOnce'
  BY DEF MailboxInv, Deferred, HeldOnce, Names, InSession, files, told
<1>5. InPlace'
  BY DEF MailboxInv, Deferred, InPlace, Names, InSession, files, told
<1>6. StoreOK'
  BY DEF MailboxInv, Deferred, StoreOK, Stores, Alone, StoresMail, StoresDraft, Names, InSession, files, told
<1>7. ScanOK'
  BY DEF MailboxInv, Deferred, ScanOK, Names, InSession, files, told
<1>8. KnownOK'
  BY DEF MailboxInv, Deferred, KnownOK, Kept, Stores, Names, InSession, files, told
<1>9. Outgoing'
  BY DEF MailboxInv, Deferred, Outgoing, Names, InSession, files, told
<1> QED
  BY <1>1, <1>2, <1>3, <1>4, <1>5, <1>6, <1>7, <1>8, <1>9 DEF MailboxInv

\* The move takes the draft out of the outbox and into sent.
LEMMA RenameToSentKeeps ==
  ASSUME MailboxInv, NEW p \in Prog, RenameToSent(p)
  PROVE  MailboxInv'
<1> DEFINE m == job[p].m
<1>a. /\ m \in Draft /\ m \in Msg /\ job[p] = Job("move", m, None) /\ m \in confirmed
  BY DEF MailboxInv, TypeOK, Outgoing, RenameToSent, Storing, NoJob, Job, Msg
<1>b. \/ /\ m \in Names("out") /\ unmoved' = unmoved
         /\ \A f \in Folder, n \in Msg :
              file'[f][n] = CASE f = "sent" /\ n = m -> file["out"][m]
                              [] f = "out" /\ n = m -> None
                              [] OTHER -> file[f][n]
      \/ file' = file /\ unmoved' = unmoved \cup ({m} \cap Names("out"))
  BY <1>a DEF MailboxInv, TypeOK, RenameToSent, Folder
<1>c. file' \in [Folder -> [Msg -> Inode \cup {None}]]
  <2>1. CASE file' = [file EXCEPT !["sent"][m] = file["out"][m], !["out"][m] = None]
    <3>1. file["out"][m] \in Inode \cup {None}
      BY <1>a DEF MailboxInv, TypeOK, Folder
    <3> QED
      BY <1>a, <2>1, <3>1 DEF MailboxInv, TypeOK, Folder
  <2>2. CASE file' = file
    BY <2>2 DEF MailboxInv, TypeOK
  <2> QED
    BY <2>1, <2>2 DEF RenameToSent
<1>1. TypeOK'
  <2>1. unmoved' \subseteq Draft
    BY <1>a DEF MailboxInv, TypeOK, RenameToSent
  <2>2. job' = [job EXCEPT ![p] = NoJob]
        /\ UNCHANGED <<tmp, whole, mode, known, outbound, unconfirmed, queued, acked,
                       confirmed, failed, removed, clash, overlap, arrived>>
    BY DEF RenameToSent
  <2> QED
    BY <1>c, <2>1, <2>2 DEF MailboxInv, TypeOK
<1>2. OneName'
  <2>1. CASE file' # file
    <3>1. file["out"][m] # None /\ tmp' = tmp /\ "out" \in Folder /\ "sent" \in Folder
      BY <1>b, <2>1 DEF Names, Folder, RenameToSent
    <3>2. \A f \in Folder, n \in Msg :
            file'[f][n] = IF f = "sent" /\ n = m THEN file["out"][m]
                          ELSE IF f = "out" /\ n = m THEN None ELSE file[f][n]
      BY <1>b, <2>1
    <3> QED
      BY <1>a, <3>1, <3>2, MovedHasOneName DEF MailboxInv
  <2>2. CASE file' = file
    BY <2>2 DEF MailboxInv, OneName, RenameToSent
  <2> QED
    BY <2>1, <2>2
<1>3. VisibleIsWhole'
  BY DEF MailboxInv, RenameToSent, TypeOK, VisibleIsWhole, Names, None, Folder, told
<1>4. HeldOnce'
  BY MailboxAssumption DEF MailboxInv, RenameToSent, TypeOK, HeldOnce, Names, Job, NoJob, Storing, Inode, Msg, None, Folder, Readable, vars, files, local, told
<1>d. /\ Names("in")' = Names("in") /\ Names("archive")' = Names("archive")
      /\ Names("out")' \subseteq Names("out")
      /\ Names("sent")' \subseteq Names("sent") \cup Names("out")
  <2>1. \A n \in Msg : file'["in"][n] = file["in"][n] /\ file'["archive"][n] = file["archive"][n]
    BY <1>b DEF Folder
  <2>2. \A n \in Msg : file'["out"][n] \in {None, file["out"][n]}
    BY <1>b DEF Folder
  <2>3. \A n \in Msg : file'["sent"][n] \in {file["sent"][n], file["out"][n]}
    BY <1>b DEF Folder
  <2> QED
    BY <2>1, <2>2, <2>3 DEF Names
<1>e. \A q \in Prog, n \in Msg : Stores(q, n)' <=> Stores(q, n)
  <2>1. job[p].op = "move" /\ job' = [job EXCEPT ![p] = NoJob]
    BY DEF RenameToSent
  <2>2. DOMAIN job = Prog
    BY DEF MailboxInv, TypeOK
  <2> QED
    BY <2>1, <2>2 DEF Stores, Storing, NoJob
<1>f. \A q \in Prog, n \in Msg : Stores(q, n) => job'[q] = job[q]
  BY DEF MailboxInv, TypeOK, RenameToSent, Stores, Storing
<1>5. InPlace'
  <2>1. InPlace /\ queued' = queued
    BY DEF MailboxInv, RenameToSent, told
  <2> QED
    BY <2>1, <1>d DEF InPlace
<1>6. StoreOK'
  <2>1. UNCHANGED <<tmp, whole, mode, known, outbound, queued, confirmed, arrived, clash>>
    BY DEF RenameToSent, told
  <2>2. StoreOK
    BY DEF MailboxInv
  <2>3. clash' \subseteq Mail
    BY <2>1, <2>2 DEF StoreOK
  <2>4. ASSUME NEW q \in Prog, NEW n \in Msg, Stores(q, n)'
        PROVE  /\ n \notin clash' => Alone(q, n)'
               /\ n \in Mail => StoresMail(q, n)'
               /\ n \in Draft => StoresDraft(n)'
    <3>1. Stores(q, n) /\ job'[q] = job[q]
      BY <2>4, <1>e, <1>f
    <3>2. n \notin clash' => Alone(q, n)'
      BY <2>1, <2>2, <3>1, <1>e DEF StoreOK, Alone
    <3>3. n \in Mail => StoresMail(q, n)'
      BY <2>1, <2>2, <3>1, <1>d DEF StoreOK, StoresMail
    <3>4. n \in Draft => StoresDraft(n)'
      BY <2>1, <2>2, <3>1, <1>d DEF StoreOK, StoresDraft
    <3> QED
      BY <3>2, <3>3, <3>4
  <2> QED
    BY <2>3, <2>4 DEF StoreOK
<1>7. ScanOK'
  BY MailboxAssumption DEF MailboxInv, RenameToSent, TypeOK, ScanOK, Names, NoJob, Job, Storing, Inode, Msg, None, Folder, Readable, vars, files, local, told
<1>8. KnownOK'
  <2>1. UNCHANGED <<unconfirmed, known, acked, removed, failed, clash>>
    BY DEF RenameToSent, told
  <2>2. Kept' = Kept
    BY <2>1, <1>d DEF Kept
  <2>3. KnownOK /\ \A q \in Prog : known[q] \subseteq Msg
    BY DEF MailboxInv, TypeOK, Msg
  <2> QED
    BY <2>1, <2>2, <2>3, <1>e DEF KnownOK
<1>9. Outgoing'
  <2>1. UNCHANGED <<queued, confirmed, outbound>> /\ job' = [job EXCEPT ![p] = NoJob]
    BY DEF RenameToSent
  <2>2. Outgoing /\ job \in [Prog -> {job[q] : q \in Prog}]
    BY DEF MailboxInv, TypeOK
  <2>3. \A q \in Prog : job'[q].op = "move" => job'[q] = job[q]
    BY <2>1, <2>2 DEF NoJob
  <2>4. m \notin Names("out")' \/ m \in unmoved'
    BY <1>a, <1>b DEF Names, Folder
  <2>5. unmoved \subseteq unmoved'
    BY <1>b
  <2>6. ASSUME NEW n \in (confirmed \ unmoved)', n \in Names("out")'
        PROVE  \E q \in Prog : job'[q] = Job("move", n, None)
    <3>1. n \in confirmed \ unmoved /\ n \in Names("out") /\ n # m
      BY <2>1, <2>4, <2>5, <2>6, <1>d
    <3>2. PICK q \in Prog : job[q] = Job("move", n, None)
      BY <2>2, <3>1 DEF Outgoing
    <3>3. q # p
      BY <3>1, <3>2 DEF Job
    <3> QED
      BY <2>1, <2>2, <3>2, <3>3
  <2> QED
    BY <2>1, <2>2, <2>3, <2>6 DEF Outgoing
<1> QED
  BY <1>1, <1>2, <1>3, <1>4, <1>5, <1>6, <1>7, <1>8, <1>9 DEF MailboxInv

\* The session ends.
LEMMA DoneKeeps ==
  ASSUME MailboxInv, NEW p \in Prog, Done(p)
  PROVE  MailboxInv'
<1>1. TypeOK'
  BY DEF MailboxInv, Done, TypeOK, InSession, Forget, files, told
<1>2. OneName'
  BY DEF MailboxInv, Done, OneName, InSession, Forget, files, told
<1>3. VisibleIsWhole'
  BY DEF MailboxInv, Done, VisibleIsWhole, Names, InSession, Forget, files, told
<1>4. HeldOnce'
  BY DEF MailboxInv, Done, HeldOnce, Names, InSession, Forget, files, told
<1>5. InPlace'
  BY DEF MailboxInv, Done, InPlace, Names, InSession, Forget, files, told
<1>6. StoreOK'
  BY DEF MailboxInv, Done, StoreOK, Stores, Alone, StoresMail, StoresDraft, Names, NoJob, Storing, InSession, Forget, files, told
<1>7. ScanOK'
  BY DEF MailboxInv, Done, TypeOK, ScanOK, Names, InSession, Forget, files, told
<1>8. KnownOK'
  BY DEF MailboxInv, Done, TypeOK, KnownOK, Kept, Stores, Names, InSession, Forget, files, told
<1>9. Outgoing'
  BY DEF MailboxInv, Done, Outgoing, Names, InSession, Forget, files, told
<1> QED
  BY <1>1, <1>2, <1>3, <1>4, <1>5, <1>6, <1>7, <1>8, <1>9 DEF MailboxInv

\* A crash leaves the files, and forgets the rest.
LEMMA CrashKeeps ==
  ASSUME MailboxInv, NEW p \in Prog, Crash(p)
  PROVE  MailboxInv'
<1>1. TypeOK'
  BY DEF MailboxInv, Crash, TypeOK, NoJob, Storing, Forget, files
<1>2. OneName'
  BY DEF MailboxInv, Crash, OneName, Forget, files
<1>3. VisibleIsWhole'
  BY DEF MailboxInv, Crash, VisibleIsWhole, Names, Forget, files
<1>4. HeldOnce'
  BY DEF MailboxInv, Crash, HeldOnce, Names, Forget, files
<1>5. InPlace'
  BY DEF MailboxInv, Crash, InPlace, Names, Forget, files
<1>6. StoreOK'
  BY DEF MailboxInv, Crash, TypeOK, StoreOK, Stores, Alone, StoresMail, StoresDraft, Names, NoJob, Storing, Forget, files
<1>7. ScanOK'
  BY DEF MailboxInv, Crash, TypeOK, ScanOK, Names, Forget, files
<1>8. KnownOK'
  BY DEF MailboxInv, Crash, TypeOK, KnownOK, Kept, Stores, Names, Forget, files
<1>9. Outgoing'
  <2>1. ASSUME NEW n \in (confirmed \ unmoved)', n \in Names("out")'
        PROVE  \E q \in Prog : job'[q] = Job("move", n, None)
    <3>1. n \in confirmed \ unmoved /\ n \in Names("out")
      BY <2>1 DEF Crash, files, Names
    <3>2. PICK q \in Prog : job[q] = Job("move", n, None)
      BY <3>1 DEF MailboxInv, Outgoing
    <3>3. q # p
      BY <2>1, <3>2 DEF Crash, Job
    <3> QED
      BY <3>2, <3>3 DEF MailboxInv, TypeOK, Crash
  <2> QED
    BY <2>1 DEF MailboxInv, Outgoing, TypeOK, Crash, Forget, NoJob
<1> QED
  BY <1>1, <1>2, <1>3, <1>4, <1>5, <1>6, <1>7, <1>8, <1>9 DEF MailboxInv

\* A deleted message is gone for good, and is said to be.
LEMMA DeleteKeeps ==
  ASSUME MailboxInv, NEW p \in Prog, NEW f \in Folder, NEW m \in Msg, Delete(p, f, m)
  PROVE  MailboxInv'
<1>1. TypeOK'
  BY DEF MailboxInv, Delete, TypeOK, Readable, local
<1>2. OneName'
  BY DEF MailboxInv, Delete, OneName, Readable, local
<1>3. VisibleIsWhole'
  BY DEF MailboxInv, Delete, VisibleIsWhole, Names, Readable, local
<1>4. HeldOnce'
  BY DEF MailboxInv, Delete, HeldOnce, Names, Readable, local
<1>5. InPlace'
  BY DEF MailboxInv, Delete, InPlace, Names, Readable, local
<1>6. StoreOK'
  BY DEF MailboxInv, Delete, StoreOK, Stores, Alone, StoresMail, StoresDraft, Names, Readable, local
<1>7. ScanOK'
  BY DEF MailboxInv, Delete, ScanOK, Names, Readable, local
<1>8. KnownOK'
  BY DEF MailboxInv, Delete, KnownOK, Kept, Stores, Names, Readable, local
<1>9. Outgoing'
  BY DEF MailboxInv, Delete, Outgoing, Names, Readable, local
<1> QED
  BY <1>1, <1>2, <1>3, <1>4, <1>5, <1>6, <1>7, <1>8, <1>9 DEF MailboxInv

\* The archive gets what leaves the inbox, in one step.
LEMMA PatArchivesKeeps ==
  ASSUME MailboxInv, NEW m \in Msg, PatArchives(m)
  PROVE  MailboxInv'
<1>1. TypeOK'
  BY DEF MailboxInv, PatArchives, TypeOK, Inode, None, Folder, local, told
<1>2. OneName'
  <2>1. file["in"][m] # None /\ tmp' = tmp /\ "in" \in Folder /\ "archive" \in Folder
    BY DEF PatArchives, Names, Folder
  <2>2. \A f \in Folder, n \in Msg :
          file'[f][n] = IF f = "archive" /\ n = m THEN file["in"][m]
                        ELSE IF f = "in" /\ n = m THEN None ELSE file[f][n]
    BY DEF MailboxInv, TypeOK, PatArchives, Folder
  <2> QED
    BY <2>1, <2>2, MovedHasOneName DEF MailboxInv
<1>3. VisibleIsWhole'
  BY DEF MailboxInv, PatArchives, TypeOK, VisibleIsWhole, Names, None, Folder, local, told
<1>4. HeldOnce'
  BY MailboxAssumption DEF MailboxInv, PatArchives, TypeOK, HeldOnce, Names, NoJob, Storing, Inode, Msg, None, Folder, Readable, vars, files, local, told
<1>5. InPlace'
  BY MailboxAssumption DEF MailboxInv, PatArchives, TypeOK, InPlace, Names, NoJob, Storing, Inode, Msg, None, Folder, Readable, vars, files, local, told
<1>6. StoreOK'
  BY MailboxAssumption DEF MailboxInv, PatArchives, TypeOK, StoreOK, Stores, Alone, StoresMail, StoresDraft, Names, NoJob, Storing, Inode, Msg, None, Folder, Readable, vars, files, local, told
<1>7. ScanOK'
  BY MailboxAssumption DEF MailboxInv, PatArchives, TypeOK, ScanOK, Names, NoJob, Storing, Inode, Msg, None, Folder, Readable, vars, files, local, told
<1>8. KnownOK'
  BY MailboxAssumption DEF MailboxInv, PatArchives, TypeOK, KnownOK, Kept, Stores, Names, NoJob, Storing, Inode, Msg, None, Folder, Readable, vars, files, local, told
<1>9. Outgoing'
  BY MailboxAssumption DEF MailboxInv, PatArchives, TypeOK, Outgoing, Names, NoJob, Storing, Inode, Msg, None, Folder, Readable, vars, files, local, told
<1> QED
  BY <1>1, <1>2, <1>3, <1>4, <1>5, <1>6, <1>7, <1>8, <1>9 DEF MailboxInv

\* An empty mailbox keeps all of it.
LEMMA InitInv == Init => MailboxInv
<1> SUFFICES ASSUME Init PROVE MailboxInv
  OBVIOUS
<1> USE DEF Init, Names, NoJob
<1>1. TypeOK
  BY DEF TypeOK, Folder, None
<1>2. OneName /\ VisibleIsWhole /\ HeldOnce /\ InPlace
  BY DEF OneName, VisibleIsWhole, HeldOnce, InPlace, Folder, None
<1>3. StoreOK /\ ScanOK
  BY DEF StoreOK, ScanOK, Stores, Storing
<1>4. KnownOK /\ Outgoing
  BY DEF KnownOK, Outgoing
<1> QED
  BY <1>1, <1>2, <1>3, <1>4 DEF MailboxInv

\* Every step does, a stutter included.
LEMMA StepInv == MailboxInv /\ [Next]_vars => MailboxInv'
<1> SUFFICES ASSUME MailboxInv, [Next]_vars PROVE MailboxInv'
  OBVIOUS
<1>1. CASE UNCHANGED vars
  <2> USE <1>1 DEF vars, files, local, told, Names
  <2>1. TypeOK' /\ OneName' /\ VisibleIsWhole' /\ HeldOnce' /\ InPlace'
    BY DEF MailboxInv, TypeOK, OneName, VisibleIsWhole, HeldOnce, InPlace
  <2>2. StoreOK' /\ ScanOK'
    BY DEF MailboxInv, StoreOK, ScanOK, Stores, Alone, StoresMail, StoresDraft
  <2>3. KnownOK' /\ Outgoing'
    BY DEF MailboxInv, KnownOK, Kept, Stores, Outgoing
  <2> QED
    BY <2>1, <2>2, <2>3 DEF MailboxInv
<1>2. ASSUME NEW p \in Prog,
             Connect(p) \/ Scan(p) \/ ConfirmReceived(p) \/ RenameToSent(p) \/ Done(p) \/ Crash(p)
      PROVE  MailboxInv'
  BY <1>2, ConnectKeeps, ScanKeeps, ConfirmReceivedKeeps, RenameToSentKeeps, DoneKeeps, CrashKeeps
<1>3. ASSUME NEW p \in Prog, Store(p) PROVE MailboxInv'
  BY <1>3, WriteTmpKeeps, WriteFailsKeeps, RenameTmpKeeps, RenameFailsKeeps DEF Store
<1>4. ASSUME NEW p \in Prog, NEW m \in Msg,
             Queue(p, m) \/ Receive(p, m) \/ RefuseKnown(p, m) \/ Delivered(p, m) \/ Deferred(p, m)
      PROVE  MailboxInv'
  BY <1>4, QueueKeeps, ReceiveKeeps, RefuseKnownKeeps, DeliveredKeeps, DeferredKeeps
<1>5. ASSUME NEW p \in Prog, NEW m \in Msg, NEW f \in Folder, Delete(p, f, m) PROVE MailboxInv'
  BY <1>5, DeleteKeeps
<1>6. ASSUME NEW m \in Msg, PatArchives(m) PROVE MailboxInv'
  BY <1>6, PatArchivesKeeps
<1> QED
  BY <1>1, <1>2, <1>3, <1>4, <1>5, <1>6 DEF Next

\* The invariant holds however many programs share the mailbox.
THEOREM MailboxInvHolds == Spec => []MailboxInv
BY InitInv, StepInv, PTL DEF Spec

-----------------------------------------------------------------------------
(* What follows from it. *)

\* Every variable keeps its type: no program reads or writes a file outside
\* the mailbox.
THEOREM MailboxTypes == Spec => []TypeOK
<1>1. MailboxInv => TypeOK
  BY DEF MailboxInv
<1> QED
  BY <1>1, MailboxInvHolds, PTL

\* store is atomic: wherever a program is killed, whatever fails, a message is
\* found entire under its name or not at all, unless two stored it at once.
THEOREM StoreIsAtomic == Spec => []VisibleIsWhole
<1>1. MailboxInv => VisibleIsWhole
  BY DEF MailboxInv
<1> QED
  BY <1>1, MailboxInvHolds, PTL

\* known_mids misses no message that Pat moves while it looks.
THEOREM HoldsOnce == Spec => []HeldOnce
<1>1. MailboxInv => HeldOnce
  BY DEF MailboxInv
<1> QED
  BY <1>1, MailboxInvHolds, PTL

\* What was acknowledged to another station, or refused as a duplicate, is in
\* the mailbox, entire.
THEOREM AckedStaysHeld == Spec => []AckedIsHeld
<1>1. ASSUME MailboxInv PROVE AckedIsHeld
  <2>1. \A m \in Kept : m \in Readable("in") \cup Readable("archive") \cup removed \cup failed \cup clash
    BY <1>1 DEF MailboxInv, VisibleIsWhole, Kept, Readable, Names, Folder
  <2> QED
    BY <1>1, <2>1 DEF MailboxInv, KnownOK, AckedIsHeld
<1> QED
  BY <1>1, MailboxInvHolds, PTL

\* What is confirmed and still in the outbox is being moved, as the first part
\* of OutboxSettles has it.
MovesPending ==
  \A m \in confirmed \ unmoved :
    m \in Names("out") => \E p \in Prog : job[p] = Job("move", m, None)

\* A draft leaves the outbox to sent, confirmed, or is deleted.
Leaves ==
  \A m \in Draft :
    (file["out"][m] # None /\ file'["out"][m] = None)
      => \/ m \in confirmed /\ file'["sent"][m] = file["out"][m]
         \/ m \in removed'

\* A draft that leaves the outbox was confirmed, or deleted.
LEMMA StepLeaves == MailboxInv /\ [Next]_vars => [Leaves]_vars
<1> SUFFICES ASSUME MailboxInv, Next, NEW m \in Draft,
                    file["out"][m] # None, file'["out"][m] = None
             PROVE  \/ m \in confirmed /\ file'["sent"][m] = file["out"][m]
                    \/ m \in removed'
  BY DEF Leaves
<1>1. "out" \in Folder /\ "sent" \in Folder /\ m \in Msg /\ file \in [Folder -> [Msg -> Inode \cup {None}]]
  BY DEF MailboxInv, TypeOK, Folder, Msg
<1>2. file' # file
  OBVIOUS
<1>3. ASSUME NEW p \in Prog, RenameTmp(p) PROVE FALSE
  <2>1. tmp[job[p].m] # None /\ file' = [file EXCEPT ![Home(job[p].m)][job[p].m] = tmp[job[p].m]]
    BY <1>3 DEF RenameTmp
  <2> QED
    BY <1>1, <2>1
<1>4. ASSUME NEW p \in Prog, RenameToSent(p)
      PROVE  m \in confirmed /\ file'["sent"][m] = file["out"][m]
  <2>1. job[p].m \in confirmed
    BY <1>4 DEF MailboxInv, Outgoing, RenameToSent
  <2> QED
    BY <1>1, <1>2, <1>4, <2>1 DEF RenameToSent
<1>5. ASSUME NEW p \in Prog, NEW f \in Folder, NEW n \in Msg, Delete(p, f, n)
      PROVE  m \in removed'
  BY <1>1, <1>5 DEF Delete
<1>6. ASSUME NEW n \in Msg, PatArchives(n) PROVE FALSE
  BY <1>1, <1>6 DEF PatArchives
<1>7. ASSUME NEW p \in Prog,
             \/ Connect(p) \/ Scan(p) \/ ConfirmReceived(p) \/ Done(p) \/ Crash(p)
             \/ WriteTmp(p) \/ WriteFails(p) \/ RenameFails(p)
      PROVE  FALSE
  BY <1>2, <1>7 DEF Connect, Scan, ConfirmReceived, Done, Crash, WriteTmp, WriteFails, RenameFails,
     StoreFails, files
<1>8. ASSUME NEW p \in Prog, NEW n \in Msg,
             Queue(p, n) \/ Receive(p, n) \/ RefuseKnown(p, n) \/ Delivered(p, n) \/ Deferred(p, n)
      PROVE  FALSE
  BY <1>2, <1>8 DEF OpenTmp, Queue, Receive, RefuseKnown, Delivered, Deferred, files
<1>9. CASE \E p \in Prog : \/ Connect(p) \/ Scan(p) \/ Store(p) \/ ConfirmReceived(p)
                          \/ RenameToSent(p) \/ Done(p) \/ Crash(p)
  BY <1>3, <1>4, <1>7, <1>9 DEF Store
<1>10. CASE \E p \in Prog, n \in Msg : \/ Queue(p, n) \/ Receive(p, n) \/ RefuseKnown(p, n)
                                      \/ Delivered(p, n) \/ Deferred(p, n)
                                      \/ \E f \in Folder : Delete(p, f, n)
  BY <1>5, <1>8, <1>10
<1> QED
  BY <1>6, <1>9, <1>10 DEF Next

\* The outbox empties exactly by confirmation, up to deletions by the user and
\* moves that a kill or an error of the rename prevented.
THEOREM DraftsSettle == Spec => OutboxSettles
<1>1. MailboxInv => MovesPending
  BY DEF MailboxInv, Outgoing, MovesPending
<1>2. Spec => []MovesPending /\ [][Leaves]_vars
  BY <1>1, StepLeaves, MailboxInvHolds, PTL DEF Spec
<1> QED
  BY <1>2 DEF OutboxSettles, MovesPending, Leaves
=============================================================================
