------------------------------ MODULE Mailbox -------------------------------
(* The mailbox on disk: one file <folder>/<MID>.b2f for each message, shared *)
(* by several programs (b2fmsg more than once, Pat, the user's own mv and    *)
(* rm).  Every file operation is a step, so the programs interleave between  *)
(* them, and a program may be killed after any of them.                      *)
EXTENDS Naturals, FiniteSets

CONSTANTS
  Prog,     \* the running b2fmsg programs that share the mailbox
  Mail,     \* messages other stations hold for this one
  Draft,    \* messages the user writes
  MaxInode  \* room on the disk: for a file under every name, and one a program

Msg == Mail \cup Draft

ASSUME MailboxAssumption ==
  /\ Mail \cap Draft = {}
  /\ IsFiniteSet(Msg) /\ IsFiniteSet(Prog)
  /\ MaxInode \in Nat /\ MaxInode > 5 * Cardinality(Msg) + Cardinality(Prog)

Folder == {"in", "out", "sent", "archive"}
None == 0
Inode == 1..MaxInode
Home(m) == IF m \in Mail THEN "in" ELSE "out"

VARIABLES
  file,        \* file[f][m]: the inode f/m.b2f names, or None
  tmp,         \* tmp[m]: the inode of m.b2f.tmp in the folder m is stored to
  whole,       \* the inodes that hold an entire message
  mode,        \* mode[p]: "idle", the folder known_mids reads next, "exchange"
  known,       \* known[p]: the MIDs the session of p refuses
  outbound,    \* outbound[p]: what it still has to send
  job,         \* job[p]: the file operation p is in
  unconfirmed  \* unconfirmed[p]: received in this turn, not yet acknowledged

\* What has happened, for the properties to speak of.
VARIABLES
  queued,      \* drafts that have been given their MID
  acked,       \* messages some station was told we have
  confirmed,   \* drafts some station said it has
  failed,      \* stores that ended in an error shown to the user
  removed,     \* messages a user deleted
  unmoved,     \* drafts whose move a crash or an error of the rename prevented
  clash,       \* messages two programs were storing at the same time
  overlap,     \* messages stored while another had stored them in the meantime
  arrived      \* arrived[p]: stored by others since p began to collect known

files == <<file, tmp, whole>>
local == <<mode, known, outbound, job, unconfirmed>>
told == <<queued, acked, confirmed, failed, removed, unmoved, clash, overlap>>
vars == <<files, local, told, arrived>>

NoJob == [op |-> "none"]
Job(op, m, ino) == [op |-> op, m |-> m, ino |-> ino]
Storing == {"write", "rename"}

Names(f) == {m \in Msg : file[f][m] # None}
Readable(f) == {m \in Names(f) : file[f][m] \in whole}
InUse == {file[f][m] : f \in Folder, m \in Msg} \cup {tmp[m] : m \in Msg}
         \cup {job[p].ino : p \in {q \in Prog : job[q].op \in Storing}}
FreshInode == CHOOSE i \in Inode : i \notin InUse

Init ==
  /\ file = [f \in Folder |-> [m \in Msg |-> None]]
  /\ tmp = [m \in Msg |-> None]
  /\ whole = {}
  /\ mode = [p \in Prog |-> "idle"]
  /\ known = [p \in Prog |-> {}]
  /\ outbound = [p \in Prog |-> {}]
  /\ job = [p \in Prog |-> NoJob]
  /\ unconfirmed = [p \in Prog |-> {}]
  /\ queued = {} /\ acked = {} /\ confirmed = {} /\ failed = {} /\ removed = {}
  /\ unmoved = {} /\ clash = {} /\ overlap = {}
  /\ arrived = [p \in Prog |-> {}]

-----------------------------------------------------------------------------
(* run_exchange: the outbox, then the folders whose messages are refused.    *)

ScanOrder == <<"in", "archive">>
AfterScan(f) == IF f = ScanOrder[1] THEN ScanOrder[2] ELSE "exchange"

Connect(p) ==
  /\ mode[p] = "idle" /\ job[p] = NoJob
  /\ mode' = [mode EXCEPT ![p] = ScanOrder[1]]
  /\ outbound' = [outbound EXCEPT ![p] = Readable("out")]
  /\ arrived' = [arrived EXCEPT ![p] = {}]
  /\ UNCHANGED <<files, known, job, unconfirmed, told>>

\* Variant: the MIDs of the outbox are refused as well.
ScanAll(p) ==
  /\ mode[p] \in {"in", "archive"}
  /\ known' = [known EXCEPT ![p] = @ \cup Names(mode[p]) \cup Names("out")]
  /\ mode' = [mode EXCEPT ![p] = AfterScan(@)]
  /\ UNCHANGED <<files, outbound, job, unconfirmed, told, arrived>>

\* known_mids goes by the names, and takes no look at the contents.
Scan(p) ==
  /\ mode[p] \in {"in", "archive"}
  /\ known' = [known EXCEPT ![p] = @ \cup Names(mode[p])]
  /\ mode' = [mode EXCEPT ![p] = AfterScan(@)]
  /\ UNCHANGED <<files, outbound, job, unconfirmed, told, arrived>>

-----------------------------------------------------------------------------
(* store: fs::write opens and empties the temporary file, writes and closes  *)
(* it; rename gives it its name.                                             *)
OpenTmp(p, m) ==
  LET ino == IF tmp[m] # None THEN tmp[m] ELSE FreshInode
  IN /\ tmp' = [tmp EXCEPT ![m] = ino]
     /\ whole' = whole \ {ino}
     /\ job' = [job EXCEPT ![p] = Job("write", m, ino)]
     /\ clash' = IF \E q \in Prog \ {p} : job[q].op \in Storing /\ job[q].m = m
                 THEN clash \cup {m} ELSE clash
     /\ UNCHANGED file

WriteTmp(p) ==
  /\ job[p].op = "write"
  /\ whole' = whole \cup {job[p].ino}
  /\ job' = [job EXCEPT ![p].op = "rename"]
  /\ UNCHANGED <<file, tmp, mode, known, outbound, unconfirmed, told, arrived>>

\* apply goes on after a store that failed: the error is shown, and the
\* message is confirmed like any other.
StoreFails(p) ==
  /\ failed' = failed \cup {job[p].m}
  /\ job' = [job EXCEPT ![p] = NoJob]
  /\ UNCHANGED <<files, mode, known, outbound, unconfirmed, queued, acked,
                 confirmed, removed, unmoved, clash, overlap, arrived>>

\* Variant: the error of the write is passed over.
WriteFailsSilently(p) ==
  /\ job[p].op = "write"
  /\ job' = [job EXCEPT ![p].op = "rename"]
  /\ UNCHANGED <<files, mode, known, outbound, unconfirmed, told, arrived>>

\* The disk is full: the temporary file stays as it is.
WriteFails(p) == job[p].op = "write" /\ StoreFails(p)

RenameTmp(p) ==
  LET m == job[p].m
  IN /\ job[p].op = "rename" /\ tmp[m] # None
     /\ file' = [file EXCEPT ![Home(m)][m] = tmp[m]]
     /\ tmp' = [tmp EXCEPT ![m] = None]
     /\ job' = [job EXCEPT ![p] = NoJob]
     /\ overlap' = IF m \in arrived[p] THEN overlap \cup {m} ELSE overlap
     /\ arrived' = [q \in Prog |-> IF q # p /\ mode[q] # "idle"
                                   THEN arrived[q] \cup {m} ELSE arrived[q]]
     /\ UNCHANGED <<whole, mode, known, outbound, unconfirmed, queued, acked,
                    confirmed, failed, removed, unmoved, clash>>

\* Another program took the temporary file away, or the system refuses; the
\* file, if it is there, stays under its temporary name.
RenameFails(p) == job[p].op = "rename" /\ StoreFails(p)

Store(p) == WriteTmp(p) \/ WriteFails(p) \/ RenameTmp(p) \/ RenameFails(p)

\* queue: the user's message goes to the outbox under a MID of its own.
Queue(p, m) ==
  /\ mode[p] = "idle" /\ job[p] = NoJob
  /\ m \in Draft \ queued
  /\ queued' = queued \cup {m}
  /\ OpenTmp(p, m)
  /\ UNCHANGED <<mode, known, outbound, unconfirmed, acked, confirmed, failed,
                 removed, unmoved, overlap, arrived>>

-----------------------------------------------------------------------------
(* What the session orders, one action after another.                        *)
InSession(p) == mode[p] = "exchange" /\ job[p] = NoJob

\* Variant: the session does not learn what it has taken.
ReceiveUnnoted(p, m) ==
  /\ InSession(p) /\ m \in Mail \ known[p]
  /\ unconfirmed' = [unconfirmed EXCEPT ![p] = @ \cup {m}]
  /\ OpenTmp(p, m)
  /\ UNCHANGED <<mode, known, outbound, queued, acked, confirmed, failed, removed,
                 unmoved, overlap, arrived>>

\* A message comes in whole, and apply stores it.
Receive(p, m) ==
  /\ InSession(p) /\ m \in Mail \ known[p]
  /\ known' = [known EXCEPT ![p] = @ \cup {m}]
  /\ unconfirmed' = [unconfirmed EXCEPT ![p] = @ \cup {m}]
  /\ OpenTmp(p, m)
  /\ UNCHANGED <<mode, outbound, queued, acked, confirmed, failed, removed,
                 unmoved, overlap, arrived>>

\* Variant: the turn is transmitted before the message is stored.
ConfirmEarly(p) ==
  /\ mode[p] = "exchange" /\ unconfirmed[p] # {}
  /\ acked' = acked \cup unconfirmed[p]
  /\ unconfirmed' = [unconfirmed EXCEPT ![p] = {}]
  /\ UNCHANGED <<files, mode, known, outbound, job, queued, confirmed, failed,
                 removed, unmoved, clash, overlap, arrived>>

\* Its own turn tells the station that everything it sent has arrived.
ConfirmReceived(p) ==
  /\ InSession(p) /\ unconfirmed[p] # {}
  /\ acked' = acked \cup unconfirmed[p]
  /\ unconfirmed' = [unconfirmed EXCEPT ![p] = {}]
  /\ UNCHANGED <<files, mode, known, outbound, job, queued, confirmed, failed,
                 removed, unmoved, clash, overlap, arrived>>

\* What is known is refused, and the station takes that for delivered.
RefuseKnown(p, m) ==
  /\ InSession(p) /\ m \in (Mail \cap known[p]) \ unconfirmed[p]
  /\ acked' = acked \cup {m}
  /\ UNCHANGED <<files, local, queued, confirmed, failed, removed, unmoved,
                 clash, overlap, arrived>>

\* Variant: the question is whether the message is in sent.
MoveIfSent(p, m) ==
  job' = [job EXCEPT ![p] = IF m \in Names("sent") THEN Job("move", m, None)
                                                   ELSE NoJob]

\* move_to_sent asks whether the file is there before it renames it.
MoveToSent(p, m) ==
  job' = [job EXCEPT ![p] = IF m \in Names("out") THEN Job("move", m, None)
                                                  ELSE NoJob]

\* Delivered and AlreadyDelivered.
Delivered(p, m) ==
  /\ InSession(p) /\ m \in outbound[p]
  /\ outbound' = [outbound EXCEPT ![p] = @ \ {m}]
  /\ confirmed' = confirmed \cup {m}
  /\ MoveToSent(p, m)
  /\ UNCHANGED <<files, mode, known, unconfirmed, queued, acked, failed, removed,
                 unmoved, clash, overlap, arrived>>

Deferred(p, m) ==
  /\ InSession(p) /\ m \in outbound[p]
  /\ outbound' = [outbound EXCEPT ![p] = @ \ {m}]
  /\ UNCHANGED <<files, mode, known, job, unconfirmed, told, arrived>>

\* The rename, or its error, which is only shown: the file has gone since, or
\* the system refuses and the draft stays where it is.
RenameToSent(p) ==
  LET m == job[p].m
  IN /\ job[p].op = "move"
     /\ job' = [job EXCEPT ![p] = NoJob]
     /\ \/ /\ m \in Names("out")
           /\ file' = [file EXCEPT !["sent"][m] = file["out"][m],
                                  !["out"][m] = None]
           /\ UNCHANGED unmoved
        \/ /\ UNCHANGED file
           /\ unmoved' = unmoved \cup ({m} \cap Names("out"))
     /\ UNCHANGED <<tmp, whole, mode, known, outbound, unconfirmed, queued, acked,
                    confirmed, failed, removed, clash, overlap, arrived>>

Forget(p) ==
  /\ mode' = [mode EXCEPT ![p] = "idle"]
  /\ known' = [known EXCEPT ![p] = {}]
  /\ outbound' = [outbound EXCEPT ![p] = {}]
  /\ unconfirmed' = [unconfirmed EXCEPT ![p] = {}]
  /\ arrived' = [arrived EXCEPT ![p] = {}]

\* The exchange is over, in good order or not.
Done(p) ==
  /\ InSession(p)
  /\ Forget(p)
  /\ UNCHANGED <<files, job, told>>

\* The program is killed, and started again.
Crash(p) ==
  /\ mode[p] # "idle" \/ job[p] # NoJob
  /\ Forget(p)
  /\ job' = [job EXCEPT ![p] = NoJob]
  /\ unmoved' = IF job[p].op = "move" THEN unmoved \cup {job[p].m}
                                          ELSE unmoved
  /\ UNCHANGED <<files, queued, acked, confirmed, failed, removed, clash, overlap>>

-----------------------------------------------------------------------------
\* delete: the message of a listing must still be there, and readable.
Delete(p, f, m) ==
  /\ mode[p] = "idle" /\ job[p] = NoJob
  /\ m \in Readable(f)
  /\ file' = [file EXCEPT ![f][m] = None]
  /\ removed' = removed \cup {m}
  /\ UNCHANGED <<tmp, whole, local, queued, acked, confirmed, failed, unmoved,
                 clash, overlap, arrived>>

\* Pat moves a message that has been read to the archive.
PatArchives(m) ==
  /\ m \in Names("in")
  /\ file' = [file EXCEPT !["archive"][m] = file["in"][m], !["in"][m] = None]
  /\ UNCHANGED <<tmp, whole, local, told, arrived>>

Next ==
  \/ \E p \in Prog : \/ Connect(p) \/ Scan(p) \/ Store(p) \/ ConfirmReceived(p)
                     \/ RenameToSent(p) \/ Done(p) \/ Crash(p)
  \/ \E p \in Prog, m \in Msg : \/ Queue(p, m) \/ Receive(p, m) \/ RefuseKnown(p, m)
                                \/ Delivered(p, m) \/ Deferred(p, m)
                                \/ \E f \in Folder : Delete(p, f, m)
  \/ \E m \in Msg : PatArchives(m)

Spec == Init /\ [][Next]_vars

-----------------------------------------------------------------------------
\* Types, and that no program reads or writes outside the mailbox.
TypeOK ==
  /\ file \in [Folder -> [Msg -> Inode \cup {None}]]
  /\ tmp \in [Msg -> Inode \cup {None}]
  /\ whole \subseteq Inode
  /\ mode \in [Prog -> {"idle", "in", "archive", "exchange"}]
  /\ known \in [Prog -> SUBSET Mail]
  /\ outbound \in [Prog -> SUBSET Draft]
  /\ unconfirmed \in [Prog -> SUBSET Mail]
  /\ job \in [Prog -> {NoJob} \cup [op : Storing, m : Msg, ino : Inode]
                             \cup [op : {"move"}, m : Draft, ino : {None}]]
  /\ acked \subseteq Mail
  /\ queued \cup confirmed \cup unmoved \subseteq Draft
  /\ failed \cup removed \cup clash \cup overlap \subseteq Msg
  /\ arrived \in [Prog -> SUBSET Msg]

\* store is atomic whatever is killed or fails in it: under its name a message
\* is found whole or not at all, a leftover temporary file never comes to light
\* and never stands in the way.  It holds as long as no two programs store
\* messages of one MID at once, who would share the temporary file.
VisibleIsWhole ==
  \A f \in Folder : \A m \in Names(f) \ clash : file[f][m] \in whole

\* A message is not stored a second time while its first copy lies in the
\* archive, unless another program stored that one after this one had looked:
\* known_mids reads two folders one after the other while Pat moves files from
\* one to the other, and misses none.
HeldOnce ==
  \A m \in Names("in") \cap Names("archive") : m \in overlap

\* What a station was told we have is in the mailbox, entire, or the user has
\* deleted it or seen the error: a program killed between the store and the
\* confirmation, or before the store, loses nothing.  Exempt is a message two
\* programs were storing at the same time, who share the temporary file.
AckedIsHeld ==
  acked \subseteq Readable("in") \cup Readable("archive")
                  \cup removed \cup failed \cup clash

\* A draft leaves the outbox for the sent folder, with its contents, when some
\* station has confirmed it, and only then, or it is deleted.  And once confirmed
\* it does not stay to be sent again, but in two cases: the program was killed
\* just then, or its rename failed, of which move_to_sent only shows the error
\* (src/src/bin/b2fmsg.rs:730).
OutboxSettles ==
  /\ [](\A m \in confirmed \ unmoved :
          m \in Names("out") => \E p \in Prog : job[p] = Job("move", m, None))
  /\ [][\A m \in Draft :
          (file["out"][m] # None /\ file'["out"][m] = None)
            => \/ m \in confirmed /\ file'["sent"][m] = file["out"][m]
               \/ m \in removed']_vars
=============================================================================
