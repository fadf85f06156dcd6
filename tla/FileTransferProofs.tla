------------------------- MODULE FileTransferProofs -------------------------
(* What no transfer may do to the files, for any number of transfers of any  *)
(* workloads and folders of any length.                                      *)
EXTENDS FileTransfer, FiniteSetTheorems, TLAPS

Fields == {"stage", "result", "into", "again", "member", "stray", "pc", "target", "probe",
           "sftp", "req", "staging", "committed", "settled", "outcome"}

Shape ==
    /\ job \in Workloads
    /\ DOMAIN tr = Transfers /\ \A t \in Transfers : DOMAIN tr[t] = Fields
    /\ DOMAIN file = Sides /\ \A s \in Sides : DOMAIN file[s] = Names

\* The check of the target, and what follows it up to the end of the file's transfer.
Choosing == {"checking", "moving", "naming"}
Uploading == {"writing", "closing", "renaming", "unlinking"}
Downloading == {"stat", "reading", "streaming"}
ArchiveStages == {"mkdir", "packing", "listing", "sending", "unpacking", "cleaning"}

\* Where a transfer of a folder is beside that of the file it sends.
StageInv(r, j) ==
    /\ r.stage \in {"file", "returned", "target"} \cup ArchiveStages
                   \cup {"tree", "channel", "making", "member"}
    /\ j.folder <=> r.stage # "file"
    /\ r.stage \in {"tree", "channel", "making", "member"} => j.tree
    /\ r.stage \in ArchiveStages => j.folder /\ ~j.tree
    /\ r.stage \in {"tree", "channel", "making", "mkdir", "packing"} => r.pc = "idle" /\ ~r.settled
    /\ r.stage = "target" => r.pc \in {"idle"} \cup Choosing /\ ~r.settled /\ ~(j.tree /\ j.up)
    /\ r.stage \in {"tree", "target", "mkdir", "packing"} => r.sftp = "none"
    /\ r.stage = "listing" => IF j.up THEN r.pc = "idle" /\ ~r.settled /\ r.sftp = "none" ELSE r.settled
    /\ r.stage = "mkdir" => j.up
    /\ r.stage = "unpacking" => r.settled
    /\ r.stage \in {"cleaning", "returned"} => r.settled \/ r.pc = "idle"
    /\ r.stage \in {"tree", "target", "channel", "making"} => r.member = 0
    /\ r.stage = "member" => r.member \in 1..Len(Members)

\* Where the transfer of a file is, and what it has at its staging path.
FileInv(r, j) ==
    /\ r.settled \/ r.stage \in {"cleaning", "returned"} => r.sftp # "open"
    /\ r.pc \in Choosing => ~r.settled /\ r.stage \in {"file", "target", "member", "sending"}
    /\ r.pc \in {"moving", "naming"} => r.stage # "sending" /\ j.up
    /\ r.pc = "moving" => j.strategy = "backup"
    /\ r.pc = "naming" => j.strategy = "rename" /\ r.probe \in DOMAIN Numbered
    /\ r.pc \in Uploading => j.up
    /\ r.pc \in Downloading => ~j.up
    /\ r.pc = "closing" => r.sftp # "open"
    /\ r.pc = "renaming" /\ r.req = "sent" => r.staging = "whole"
    /\ ~j.up /\ r.pc # "streaming" => r.staging = "absent"

\* The names it works with. Only a backup has the suffix of one.
InFlight(r) ==
    \/ r.pc = "opening" /\ ~r.settled
    \/ r.pc \in {"writing", "closing", "renaming"} \cup Downloading

Plain == {"", ".1", ".2"}
NamesInv(t, r, j) ==
    /\ r.into \in {"folder"} \X {""} \X Plain
    /\ InFlight(r) =>
        IF ~j.folder THEN r.target \in {"file"} \X {""} \X Plain
        ELSE IF j.tree THEN r.target \in MemberNames \X Plain \X Plain
        ELSE r.target = Archive(t)

Local(t) == StageInv(tr[t], job[t]) /\ FileInv(tr[t], job[t]) /\ NamesInv(t, tr[t], job[t])
LocalInv == \A t \in Transfers : Local(t)

\* A local archive is there only while it is packed, listed and sent.
ArchiveInv ==
    \A t \in Transfers :
        job[t].up /\ tr[t].stage \notin {"packing", "listing", "sending", "unpacking"}
            => file["local"][Archive(t)] = Nothing

IInv == Shape /\ LocalInv /\ ArchiveInv /\ WholeFilesOnly

-----------------------------------------------------------------------------
(* The old content.                                                          *)
Overwrites(t) == job[t].strategy = "overwrite"
Backs(t) == job[t].strategy = "backup"
Users(s, p) == {t \in Transfers : To(t) = s /\ job[t].folder = (p # "file")}
Targets == {"file", "folder"} \cup MemberNames

\* No transfer may lose the old content of p.
Quiet(s, p) ==
    /\ there
    /\ \A t \in Users(s, p) : ~(Overwrites(t) /\ (p # "file" \/ tr[t].committed))
    /\ \A t, u \in Users(s, p) : Backs(t) /\ Backs(u) => t = u

\* A move of its target, or of the member p, is still ahead of t.
MayMoveTarget(r) == r.stage = "target" /\ r.pc \in {"idle", "checking", "moving"}
MayMove(r, p) ==
    \/ MayMoveTarget(r)
    \/ r.stage \in {"tree", "channel", "making"}
    \/ r.stage = "file" /\ r.pc \in {"idle", "checking", "moving"}
    \/ /\ r.stage = "member"
       /\ \E k \in DOMAIN Members :
            /\ Members[k] = p
            /\ k > r.member \/ (k = r.member /\ r.pc \in {"checking", "moving"})

OldAt(s, n) == file[s][n].of = Before
InBackup(p) == IF p = "folder" THEN <<"folder", "", ".bak">> ELSE <<p, ".bak", "">>

Kept(s, p) ==
    \/ OldAt(s, <<p, "", "">>)
    \/ /\ p # "file" /\ OldAt(s, InBackup(p))
       /\ \A t \in Users(s, p) : Backs(t) => ~MayMoveTarget(tr[t])
    \/ /\ p # "folder" /\ OldAt(s, <<p, "", ".bak">>)
       /\ \A t \in Users(s, p) : Backs(t) => ~MayMove(tr[t], p)

KeptInv == \A s \in Sides, p \in Targets : Quiet(s, p) => Kept(s, p)

\* What a transfer that overwrites nothing is about to write is not the old content.
ClearInv ==
    \A t \in Transfers : ~Overwrites(t) =>
        /\ InFlight(tr[t]) => ~OldAt(To(t), tr[t].target)
        /\ tr[t].stage \in ArchiveStages \ {"cleaning"} => ~OldAt(To(t), tr[t].into)

ArchivesAreNew == \A s \in Sides, t \in Transfers : ~OldAt(s, Archive(t))

\* The place of a backup is free until the backup is made.
FreeInv ==
    \A t \in Transfers :
        Backs(t) /\ MayMoveTarget(tr[t]) /\ (\A u \in Users(To(t), "folder") : Backs(u) => u = t)
            => file[To(t)][<<"folder", "", ".bak">>].of = Nobody

-----------------------------------------------------------------------------
(* The steps of one transfer.                                                *)
USE DEF Fields, Choosing, Uploading, Downloading, ArchiveStages, Plain

LEMMA MembersAreNumbered == DOMAIN Members = 1..Len(Members) /\ Len(Members) \in Nat \ {0}
BY MembersAssumption

LEMMA Jobs ==
    ASSUME Shape, NEW t \in Transfers
    PROVE  /\ {job[t].up, job[t].folder, job[t].tree, job[t].stream} \subseteq BOOLEAN
           /\ job[t].strategy \in {"overwrite", "skip", "backup", "rename"}
           /\ job[t].tree => job[t].folder
           /\ DOMAIN tr = Transfers /\ DOMAIN tr[t] = Fields
BY WorkloadsAssumption DEF Shape, AllJobs

\* What a transfer of a file leaves alone, and what it sets.
Frame(q, r) ==
    /\ DOMAIN q = Fields
    /\ q.stage = r.stage /\ q.into = r.into /\ q.member = r.member
    /\ q.target = r.target /\ q.probe = r.probe
Now(q, pc, sftp, req, staging, settled) ==
    /\ q.pc = pc /\ q.sftp = sftp /\ q.req = req /\ q.staging = staging /\ q.settled = settled

\* The transfer of a file that is under way goes on or ends.
GoesOn(q, r) ==
    /\ Frame(q, r)
    /\ {r.pc, q.pc} \cap ({"idle"} \cup Choosing) = {}
    /\ r.settled => q.settled
    /\ r.committed => q.committed
    /\ InFlight(q) => InFlight(r)

LEMMA GoesOnLocally ==
    ASSUME Shape, NEW t \in Transfers, Local(t), NEW q, GoesOn(q, tr[t])
    PROVE  StageInv(q, job[t]) /\ NamesInv(t, q, job[t])
<1>1. StageInv(q, job[t])  BY Jobs DEF Local, StageInv, GoesOn, Frame
<1>2. NamesInv(t, q, job[t])  BY DEF Local, NamesInv, GoesOn, Frame
<1> QED  BY <1>1, <1>2

LEMMA FileSteps ==
    ASSUME Shape, NEW t \in Transfers, Local(t), NEW q, q = tr'[t],
           SftpOpens(t) \/ SftpFails(t) \/ Timeout(t) \/ Upload(t) \/ Download(t)
           \/ Hashed(t) \/ HashFails(t)
    PROVE  GoesOn(q, tr[t]) /\ FileInv(q, job[t])
<1> DEFINE r == tr[t]
<1>0. DOMAIN tr = Transfers /\ DOMAIN r = Fields  BY Jobs
<1>f. FileInv(r, job[t])  BY DEF Local
<1>1. CASE SftpOpens(t)
  <2>1. /\ Frame(q, r) /\ (r.committed => q.committed)
        /\ \/ r.settled /\ Now(q, "over", "ended", r.req, r.staging, r.settled)
           \/ ~r.settled /\ Now(q, IF job[t].up THEN "writing" ELSE "stat", "open", r.req, r.staging, r.settled)
    BY <1>1, <1>0, Jobs DEF SftpOpens, Frame, Now
  <2>2. GoesOn(q, r)  
    <3>1. CASE r.settled BY <3>1, <2>1, <1>1 DEF SftpOpens, GoesOn, InFlight, Now
    <3>2. CASE ~r.settled BY <3>2, <2>1, <1>1 DEF SftpOpens, GoesOn, InFlight, Now
    <3> QED  BY <3>1, <3>2
  <2>3. FileInv(q, job[t])
    BY <2>1, <1>1, <1>f, Jobs DEF SftpOpens, FileInv, StageInv, Local, Frame, Now
  <2> QED  BY <2>2, <2>3
<1>2. CASE SftpFails(t)
  <2>1. /\ Frame(q, r) /\ (r.committed => q.committed)
        /\ Now(q, "over", endSftp(r), r.req, r.staging, TRUE)
    BY <1>2, <1>0, Jobs DEF SftpFails, finishOnce, Frame, Now
  <2>2. GoesOn(q, r)  BY <2>1, <1>2, <1>f, Jobs DEF SftpFails, GoesOn, InFlight, Now, FileInv
  <2>3. FileInv(q, job[t])  BY <2>1, <1>2, <1>f, Jobs DEF SftpFails, endSftp, FileInv, Frame, Now
  <2> QED  BY <2>2, <2>3
<1>3. CASE Timeout(t)
  <2>1. /\ Frame(q, r) /\ (r.committed => q.committed)
        /\ Now(q, r.pc, endSftp(r), r.req, IF job[t].up THEN r.staging ELSE "absent", TRUE)
    BY <1>3, <1>0, Jobs DEF Timeout, finishOnce, Frame, Now
  <2>2. GoesOn(q, r)  BY <2>1, <1>3, <1>f, Jobs DEF Timeout, Armed, GoesOn, InFlight, Now, FileInv
  <2>3. FileInv(q, job[t])  BY <2>1, <1>3, <1>f, Jobs DEF Timeout, Armed, endSftp, FileInv, Frame, Now
  <2> QED  BY <2>2, <2>3
<1>4. CASE Write(t)
  <2>1. /\ Frame(q, r) /\ (r.committed => q.committed)
        /\ Now(q, r.pc, r.sftp, r.req, IF r.staging = "absent" THEN "partial" ELSE "whole", r.settled)
    BY <1>4, <1>0, Jobs DEF Write, Frame, Now
  <2>2. GoesOn(q, r)  BY <2>1, <1>4, <1>f, Jobs DEF Write, GoesOn, InFlight, Now, FileInv
  <2>3. FileInv(q, job[t])  BY <2>1, <1>4, <1>f, Jobs DEF Write, FileInv, Frame, Now
  <2> QED  BY <2>2, <2>3
<1>5. CASE StreamCloses(t)
  <2>1. /\ Frame(q, r) /\ (r.committed => q.committed)
        /\ Now(q, "renaming", r.sftp, request(r), r.staging, r.settled)
    BY <1>5, <1>0, Jobs DEF StreamCloses, Frame, Now
  <2>2. GoesOn(q, r)  BY <2>1, <1>5, <1>f, Jobs DEF StreamCloses, GoesOn, InFlight, Now, FileInv
  <2>3. FileInv(q, job[t])  BY <2>1, <1>5, <1>f, Jobs DEF StreamCloses, request, FileInv, Frame, Now
  <2> QED  BY <2>2, <2>3
<1>6. CASE StreamFails(t)
  <2>1. /\ Frame(q, r) /\ (r.committed => q.committed)
        /\ \/ Now(q, "unlinking", r.sftp, request(r), r.staging, r.settled)
           \/ Now(q, "closing", endSftp(r), r.req, r.staging, TRUE)
    BY <1>6, <1>0, Jobs DEF StreamFails, finishOnce, Frame, Now
  <2>2. GoesOn(q, r)  BY <2>1, <1>6, <1>f, Jobs DEF StreamFails, GoesOn, InFlight, Now, FileInv
  <2>3. FileInv(q, job[t])  BY <2>1, <1>6, <1>f, Jobs DEF StreamFails, endSftp, request, FileInv, Frame, Now
  <2> QED  BY <2>2, <2>3
<1>7. CASE ServerRenames(t)
  <2>1. /\ Frame(q, r) /\ (r.committed => q.committed)
        /\ \/ Now(q, r.pc, r.sftp, "ok", "absent", r.settled)
           \/ Now(q, r.pc, r.sftp, "refused", r.staging, r.settled)
    BY <1>7, <1>0, Jobs DEF ServerRenames, Frame, Now
  <2>2. GoesOn(q, r)  BY <2>1, <1>7, <1>f, Jobs DEF ServerRenames, GoesOn, InFlight, Now, FileInv
  <2>3. FileInv(q, job[t])  BY <2>1, <1>7, <1>f, Jobs DEF ServerRenames, FileInv, Frame, Now
  <2> QED  BY <2>2, <2>3
<1>8. CASE Renamed(t)
  <2>1. /\ Frame(q, r) /\ (r.committed => q.committed)
        /\ \/ Now(q, "hashing", r.sftp, r.req, r.staging, r.settled)
           \/ Now(q, "over", endSftp(r), r.req, r.staging, TRUE)
    BY <1>8, <1>0, Jobs DEF Renamed, finishOnce, Frame, Now
  <2>2. GoesOn(q, r)  BY <2>1, <1>8, <1>f, Jobs DEF Renamed, GoesOn, InFlight, Now, FileInv
  <2>3. FileInv(q, job[t])  BY <2>1, <1>8, <1>f, Jobs DEF Renamed, endSftp, FileInv, Frame, Now
  <2> QED  BY <2>2, <2>3
<1>9. CASE RenameFails(t)
  <2>1. /\ Frame(q, r) /\ (r.committed => q.committed)
        /\ Now(q, "unlinking", r.sftp, request(r), r.staging, r.settled)
    BY <1>9, <1>0, Jobs DEF RenameFails, Frame, Now
  <2>2. GoesOn(q, r)  BY <2>1, <1>9, <1>f, Jobs DEF RenameFails, GoesOn, InFlight, Now, FileInv
  <2>3. FileInv(q, job[t])  BY <2>1, <1>9, <1>f, Jobs DEF RenameFails, request, FileInv, Frame, Now
  <2> QED  BY <2>2, <2>3
<1>10. CASE ServerUnlinks(t)
  <2>1. /\ Frame(q, r) /\ (r.committed => q.committed)
        /\ Now(q, r.pc, r.sftp, "ok", "absent", r.settled)
    BY <1>10, <1>0, Jobs DEF ServerUnlinks, Frame, Now
  <2>2. GoesOn(q, r)  BY <2>1, <1>10, <1>f, Jobs DEF ServerUnlinks, GoesOn, InFlight, Now, FileInv
  <2>3. FileInv(q, job[t])  BY <2>1, <1>10, <1>f, Jobs DEF ServerUnlinks, FileInv, Frame, Now
  <2> QED  BY <2>2, <2>3
<1>11. CASE Unlinked(t)
  <2>1. /\ Frame(q, r) /\ (r.committed => q.committed)
        /\ Now(q, "over", endSftp(r), r.req, r.staging, TRUE)
    BY <1>11, <1>0, Jobs DEF Unlinked, finishOnce, Frame, Now
  <2>2. GoesOn(q, r)  BY <2>1, <1>11, <1>f, Jobs DEF Unlinked, GoesOn, InFlight, Now, FileInv
  <2>3. FileInv(q, job[t])  BY <2>1, <1>11, <1>f, Jobs DEF Unlinked, endSftp, FileInv, Frame, Now
  <2> QED  BY <2>2, <2>3
<1>12. CASE StatDone(t)
  <2>1. /\ Frame(q, r) /\ (r.committed => q.committed)
        /\ Now(q, "reading", r.sftp, r.req, r.staging, r.settled)
    BY <1>12, <1>0, Jobs DEF StatDone, Frame, Now
  <2>2. GoesOn(q, r)  BY <2>1, <1>12, <1>f, Jobs DEF StatDone, GoesOn, InFlight, Now, FileInv
  <2>3. FileInv(q, job[t])  BY <2>1, <1>12, <1>f, Jobs DEF StatDone, FileInv, Frame, Now
  <2> QED  BY <2>2, <2>3
<1>13. CASE OpenLocal(t)
  <2>1. /\ Frame(q, r) /\ (r.committed => q.committed)
        /\ Now(q, "streaming", r.sftp, r.req, "partial", r.settled)
    BY <1>13, <1>0, Jobs DEF OpenLocal, Frame, Now
  <2>2. GoesOn(q, r)  BY <2>1, <1>13, <1>f, Jobs DEF OpenLocal, GoesOn, InFlight, Now, FileInv
  <2>3. FileInv(q, job[t])  BY <2>1, <1>13, <1>f, Jobs DEF OpenLocal, FileInv, Frame, Now
  <2> QED  BY <2>2, <2>3
<1>14. CASE ReadLast(t)
  <2>1. /\ Frame(q, r) /\ (r.committed => q.committed)
        /\ Now(q, r.pc, r.sftp, "ok", r.staging, r.settled)
    BY <1>14, <1>0, Jobs DEF ReadLast, Frame, Now
  <2>2. GoesOn(q, r)  BY <2>1, <1>14, <1>f, Jobs DEF ReadLast, GoesOn, InFlight, Now, FileInv
  <2>3. FileInv(q, job[t])  BY <2>1, <1>14, <1>f, Jobs DEF ReadLast, FileInv, Frame, Now
  <2> QED  BY <2>2, <2>3
<1>15. CASE ReadEnds(t)
  <2>1. /\ Frame(q, r) /\ (r.committed => q.committed)
        /\ Now(q, "over", endSftp(r), r.req, r.staging, TRUE)
    BY <1>15, <1>0, Jobs DEF ReadEnds, finishOnce, Frame, Now
  <2>2. GoesOn(q, r)  BY <2>1, <1>15, <1>f, Jobs DEF ReadEnds, GoesOn, InFlight, Now, FileInv
  <2>3. FileInv(q, job[t])  BY <2>1, <1>15, <1>f, Jobs DEF ReadEnds, endSftp, FileInv, Frame, Now
  <2> QED  BY <2>2, <2>3
<1>16. CASE Flushed(t)
  <2>1. /\ Frame(q, r) /\ (r.committed => q.committed)
        /\ \/ r.staging = "absent" /\ Now(q, "over", endSftp(r), r.req, r.staging, TRUE)
           \/ Now(q, "hashing", r.sftp, r.req, "absent", r.settled)
    <3>1. CASE r.staging = "absent"  BY <3>1, <1>16, <1>0, ZenonT(40) DEF Flushed, finishOnce, Frame, Now
    <3>2. CASE r.staging # "absent"  BY <3>2, <1>16, <1>0 DEF Flushed, Frame, Now
    <3> QED  BY <3>1, <3>2
  <2>2. GoesOn(q, r)  BY <2>1, <1>16, <1>f, Jobs DEF Flushed, GoesOn, InFlight, Now, FileInv
  <2>3. FileInv(q, job[t])  BY <2>1, <1>16, <1>f, Jobs DEF Flushed, endSftp, FileInv, Frame, Now
  <2> QED  BY <2>2, <2>3
<1>17. CASE ReadFails(t)
  <2>1. /\ Frame(q, r) /\ (r.committed => q.committed)
        /\ Now(q, "over", endSftp(r), r.req, "absent", TRUE)
    BY <1>17, <1>0, Jobs DEF ReadFails, finishOnce, Frame, Now
  <2>2. GoesOn(q, r)  BY <2>1, <1>17, <1>f, Jobs DEF ReadFails, GoesOn, InFlight, Now, FileInv
  <2>3. FileInv(q, job[t])  BY <2>1, <1>17, <1>f, Jobs DEF ReadFails, endSftp, FileInv, Frame, Now
  <2> QED  BY <2>2, <2>3
<1>18. CASE Hashed(t)
  <2>1. /\ Frame(q, r) /\ (r.committed => q.committed)
        /\ Now(q, "over", endSftp(r), r.req, r.staging, TRUE)
    BY <1>18, <1>0, Jobs DEF Hashed, finishOnce, Frame, Now
  <2>2. GoesOn(q, r)  BY <2>1, <1>18, <1>f, Jobs DEF Hashed, GoesOn, InFlight, Now, FileInv
  <2>3. FileInv(q, job[t])  BY <2>1, <1>18, <1>f, Jobs DEF Hashed, endSftp, FileInv, Frame, Now
  <2> QED  BY <2>2, <2>3
<1>19. CASE HashFails(t)
  <2>1. /\ Frame(q, r) /\ (r.committed => q.committed)
        /\ \/ job[t].up /\ Now(q, "unlinking", r.sftp, request(r), r.staging, r.settled)
           \/ Now(q, "over", endSftp(r), r.req, r.staging, TRUE)
    BY <1>19, <1>0, Jobs DEF HashFails, finishOnce, Frame, Now
  <2>2. GoesOn(q, r)  BY <2>1, <1>19, <1>f, Jobs DEF HashFails, GoesOn, InFlight, Now, FileInv
  <2>3. FileInv(q, job[t])  BY <2>1, <1>19, <1>f, Jobs DEF HashFails, endSftp, request, FileInv, Frame, Now
  <2> QED  BY <2>2, <2>3
<1> QED  BY <1>1, <1>2, <1>3, <1>4, <1>5, <1>6, <1>7, <1>8, <1>9, <1>10, <1>11, <1>12, <1>13, <1>14, <1>15, <1>16, <1>17, <1>18, <1>19 DEF Upload, Download

-----------------------------------------------------------------------------
(* The check of a target ends in one of four ways.                           *)
NameFor(t, name) ==
    \E x \in Plain : name = WithSuffix(Asked(t), x) /\ (tr[t].stage = "sending" => x = "")

\* A free name is found, or the target may be overwritten.
Proceeds(t) ==
    \E name : /\ NameFor(t, name) /\ proceed(t, name)
              /\ ~Exists(t, name) \/ Strategy(t) = "overwrite"
              /\ UNCHANGED file

Refuses(t) == (\E o : refuse(t, o)) /\ UNCHANGED file

\* There is a command to wait for.
Waits(t) ==
    /\ UNCHANGED file
    /\ job[t].up /\ tr[t].stage # "sending" /\ tr[t].pc \in {"checking", "naming"}
    /\ LET q == tr'[t]
           r == tr[t]
       IN  /\ Frame(q, [r EXCEPT !.probe = q.probe])
           /\ Now(q, q.pc, r.sftp, r.req, r.staging, r.settled) /\ q.committed = r.committed
           /\ \/ q.pc = "moving" /\ Backs(t) /\ r.pc = "checking"
              \/ q.pc = "naming" /\ job[t].strategy = "rename" /\ q.probe \in DOMAIN Numbered

\* The target is moved to its backup.
Backed(t) ==
    /\ tr[t].pc \in {"checking", "moving"} /\ Backs(t) /\ tr[t].stage # "sending"
    /\ Exists(t, Asked(t)) /\ file' = MovedAway(t)
    /\ proceed(t, Asked(t)) \/ refuse(t, "failed")

LEMMA Checks ==
    ASSUME Shape, NEW t \in Transfers, Local(t), Check(t)
    PROVE  /\ tr[t].pc \in Choosing
           /\ Proceeds(t) \/ Refuses(t) \/ Waits(t) \/ Backed(t)
<1> DEFINE r == tr[t]
<1>0. /\ DOMAIN tr = Transfers /\ DOMAIN r = Fields
      /\ FileInv(r, job[t])
  BY Jobs DEF Local
<1>1. Asked(t) = WithSuffix(Asked(t), "")  BY DEF Asked, Archive, Member, WithSuffix
<1>2. Strategy(t) # "overwrite" => r.stage # "sending" /\ Strategy(t) = job[t].strategy  BY DEF Strategy
<1>3. ASSUME NEW n \in DOMAIN Numbered, r.stage # "sending" PROVE NameFor(t, Copy(t, n))
  <2>1. Copy(t, n) = WithSuffix(Asked(t), Numbered[n])  BY DEF Copy
  <2>2. Numbered[n] \in Plain
    <3>1. n = 1 \/ n = 2  BY <1>3 DEF Numbered
    <3>2. Numbered[1] = ".1" /\ Numbered[2] = ".2"  BY DEF Numbered
    <3> QED  BY <3>1, <3>2
  <2> QED  BY <2>1, <2>2, <1>3 DEF NameFor
<1>4. NameFor(t, Asked(t))  BY <1>1 DEF NameFor
<1>5. CASE Checked(t)  BY <1>5, <1>4 DEF Checked, Proceeds
<1>6. CASE CheckedSkip(t)  BY <1>6 DEF CheckedSkip, Refuses
<1>7. CASE CheckedRemote(t)
  <2>1. CASE Strategy(t) = "backup" /\ tr' = [tr EXCEPT ![t].pc = "moving"]
    BY <2>1, <1>7, <1>0, <1>2 DEF CheckedRemote, Waits, Frame, Now, Backs
  <2>2. CASE Strategy(t) = "rename" /\ tr' = [tr EXCEPT ![t].pc = "naming", ![t].probe = 1]
    BY <2>2, <1>7, <1>0, <1>2 DEF CheckedRemote, Waits, Frame, Now, Numbered
  <2> QED  BY <1>7, <2>1, <2>2 DEF CheckedRemote
<1>8. CASE CheckedLocal(t)
  <2>1. CASE Strategy(t) = "backup" /\ file' = MovedAway(t) /\ proceed(t, Asked(t))
    BY <2>1, <1>8, <1>2 DEF CheckedLocal, Backed, Backs
  <2>2. ASSUME NEW n \in DOMAIN Numbered, ~Exists(t, Copy(t, n)), proceed(t, Copy(t, n)),
               Strategy(t) = "rename", UNCHANGED file
        PROVE  Proceeds(t)
    BY <2>2, <1>2, <1>3 DEF Proceeds
  <2> QED  BY <1>8, <2>1, <2>2 DEF CheckedLocal
<1>9. CASE CheckFails(t)  BY <1>9 DEF CheckFails, Refuses
<1>10. CASE Moved(t)  BY <1>10, <1>0 DEF Moved, Backed, Backs, FileInv
<1>11. CASE MoveFails(t)  BY <1>11, <1>0 DEF MoveFails, Backed, Refuses, Backs, FileInv
<1>12. CASE Named(t)
  <2>1. CASE Exists(t, Copy(t, r.probe))
    <3>1. r.probe + 1 \in DOMAIN Numbered  BY <2>1, <1>12, <1>0 DEF Named, Numbered, FileInv
    <3> QED  BY <3>1, <2>1, <1>12, <1>0 DEF Named, Waits, Frame, Now, FileInv
  <2>2. CASE ~Exists(t, Copy(t, r.probe))
    BY <2>2, <1>12, <1>0, <1>3 DEF Named, Proceeds, FileInv
  <2> QED  BY <2>1, <2>2
<1>13. r.pc \in Choosing
  BY DEF Check, Checked, CheckedSkip, CheckedRemote, CheckedLocal, CheckFails, Moved, MoveFails, Named
<1> QED  BY <1>5, <1>6, <1>7, <1>8, <1>9, <1>10, <1>11, <1>12, <1>13 DEF Check

\* A move that is ahead was ahead before.
Follows(q, r, j) ==
    /\ r.committed /\ ~j.folder => q.committed
    /\ MayMoveTarget(q) => MayMoveTarget(r)
    /\ \A p : MayMove(q, p) => MayMove(r, p)

LEMMA ProceedFields ==
    ASSUME Shape, NEW t \in Transfers, NEW name, proceed(t, name)
    PROVE  LET q == tr'[t]
               r == tr[t]
           IN  /\ DOMAIN q = Fields /\ q.member = r.member /\ q.probe = r.probe /\ q.committed = r.committed
               /\ Now(q, q.pc, r.sftp, r.req, r.staging, r.settled)
               /\ IF r.stage = "target"
                  THEN /\ q.stage = IF job[t].tree THEN "channel" ELSE IF job[t].up THEN "mkdir" ELSE "packing"
                       /\ q.pc = "idle" /\ q.into = name /\ q.target = r.target
                  ELSE q.stage = r.stage /\ q.pc = "opening" /\ q.into = r.into /\ q.target = name
<1>1. CASE tr[t].stage = "target"  BY <1>1, Jobs DEF proceed, Now
<1>2. CASE tr[t].stage # "target"  BY <1>2, Jobs DEF proceed, Now
<1> QED  BY <1>1, <1>2

LEMMA RefuseFields ==
    ASSUME Shape, NEW t \in Transfers, NEW o, refuse(t, o)
    PROVE  LET q == tr'[t]
               r == tr[t]
           IN  /\ DOMAIN q = Fields /\ q.member = r.member /\ q.probe = r.probe /\ q.committed = r.committed
               /\ q.into = r.into /\ q.target = r.target
               /\ IF r.stage = "target"
                  THEN /\ q.stage = IF job[t].tree THEN "returned" ELSE "cleaning"
                       /\ Now(q, "idle", r.sftp, r.req, r.staging, r.settled)
                  ELSE q.stage = r.stage /\ Now(q, "over", endSftp(r), r.req, r.staging, TRUE)
<1>1. CASE tr[t].stage = "target"  BY <1>1, Jobs DEF refuse, Now
<1>2. CASE tr[t].stage # "target"  BY <1>2, Jobs DEF refuse, Now, finishOnce
<1> QED  BY <1>1, <1>2

LEMMA ProceedStep ==
    ASSUME Shape, NEW t \in Transfers, Local(t), tr[t].pc \in Choosing, NEW name,
           NameFor(t, name), proceed(t, name), NEW q, q = tr'[t]
    PROVE  /\ DOMAIN q = Fields /\ StageInv(q, job[t]) /\ FileInv(q, job[t]) /\ NamesInv(t, q, job[t])
           /\ Follows(q, tr[t], job[t])
<1> DEFINE r == tr[t]
<1>a. PICK a : a = Asked(t)  OBVIOUS
<1>b. PICK x \in Plain : name = WithSuffix(a, x) /\ (r.stage = "sending" => x = "")
  BY <1>a DEF NameFor
<1>0. name = <<a[1], a[2], x>> /\ (r.stage = "sending" => x = "")  BY <1>b DEF WithSuffix
<1>1. CASE r.stage = "target"
  <2>1. /\ DOMAIN q = Fields /\ q.member = r.member /\ q.committed = r.committed
        /\ Now(q, "idle", r.sftp, r.req, r.staging, r.settled) /\ q.into = name
        /\ q.stage = IF job[t].tree THEN "channel" ELSE IF job[t].up THEN "mkdir" ELSE "packing"
    BY <1>1, ProceedFields DEF Now
  <2>2. name \in {"folder"} \X {""} \X Plain
    <3>1. a = <<"folder", "", "">>  BY <1>1, <1>a DEF Asked
    <3>2. name = <<"folder", "", x>>  BY <3>1, <1>0
    <3> QED  BY <3>2
  <2>3. StageInv(q, job[t])  BY <1>1, <2>1, Jobs DEF Local, StageInv, Now
  <2>4. FileInv(q, job[t])  BY <1>1, <2>1, Jobs DEF Local, FileInv, Now
  <2>5. NamesInv(t, q, job[t])  BY <2>1, <2>2 DEF NamesInv, InFlight, Now
  <2>6. Follows(q, r, job[t])  BY <1>1, <2>1 DEF Follows, MayMove, MayMoveTarget, Local, StageInv, FileInv, Now
  <2> QED  BY <2>1, <2>3, <2>4, <2>5, <2>6
<1>2. CASE r.stage # "target"
  <2>1. /\ DOMAIN q = Fields /\ q.member = r.member /\ q.committed = r.committed /\ q.stage = r.stage
        /\ Now(q, "opening", r.sftp, r.req, r.staging, r.settled) /\ q.into = r.into /\ q.target = name
    BY <1>2, ProceedFields DEF Now
  <2>3. StageInv(q, job[t])  BY <1>2, <2>1, Jobs DEF Local, StageInv, Now
  <2>4. FileInv(q, job[t])  BY <1>2, <2>1, Jobs DEF Local, FileInv, Now
  <2>5. NamesInv(t, q, job[t])
    <3>1. q.into \in {"folder"} \X {""} \X Plain  BY <2>1 DEF Local, NamesInv
    <3>2. r.stage \in {"file", "member", "sending"}  BY <1>2 DEF Local, FileInv
    <3>3. CASE r.stage = "file"
      <4>1. a = <<"file", "", "">>  BY <3>3, <1>a DEF Asked
      <4>2. name = <<"file", "", x>>  BY <4>1, <1>0
      <4>3. name \in {"file"} \X {""} \X Plain  BY <4>2
      <4> QED  BY <3>1, <3>3, <4>3, <2>1, Jobs DEF Local, StageInv, NamesInv
    <3>4. CASE r.stage = "member"
      <4>1. r.member \in DOMAIN Members  BY <3>4, MembersAreNumbered DEF Local, StageInv
      <4>2. name \in MemberNames \X Plain \X Plain
        <5>1. a = <<Members[r.member], r.into[3], "">>  BY <3>4, <1>a DEF Asked, Member
        <5>2. Members[r.member] \in MemberNames  BY <4>1 DEF MemberNames
        <5>3. r.into[3] \in Plain  BY DEF Local, NamesInv
        <5>4. name = <<Members[r.member], r.into[3], x>>  BY <5>1, <1>0
        <5> QED  BY <5>2, <5>3, <5>4
      <4> QED  BY <3>1, <3>4, <4>2, <2>1, Jobs DEF Local, StageInv, NamesInv
    <3>5. CASE r.stage = "sending"
      <4>1. a = <<t, "", "">>  BY <3>5, <1>a DEF Asked, Archive
      <4>2. a[1] = t /\ a[2] = "" /\ x = ""  BY <3>5, <4>1, <1>0
      <4>3. name = Archive(t)  BY <4>2, <1>0 DEF Archive
      <4> QED  BY <3>1, <3>5, <4>3, <2>1, Jobs, ZenonT(40) DEF Local, StageInv, NamesInv
    <3> QED  BY <3>2, <3>3, <3>4, <3>5
  <2>6. Follows(q, r, job[t])  BY <1>2, <2>1 DEF Follows, MayMove, MayMoveTarget, Now
  <2> QED  BY <2>1, <2>3, <2>4, <2>5, <2>6
<1> QED  BY <1>1, <1>2

LEMMA RefuseStep ==
    ASSUME Shape, NEW t \in Transfers, Local(t), tr[t].pc \in Choosing, NEW o, refuse(t, o),
           NEW q, q = tr'[t]
    PROVE  /\ DOMAIN q = Fields /\ StageInv(q, job[t]) /\ FileInv(q, job[t]) /\ NamesInv(t, q, job[t])
           /\ Follows(q, tr[t], job[t])
<1> DEFINE r == tr[t]
<1>1. CASE r.stage = "target"
  <2>1. /\ DOMAIN q = Fields /\ q.member = r.member /\ q.committed = r.committed
        /\ Now(q, "idle", r.sftp, r.req, r.staging, r.settled) /\ q.into = r.into
        /\ q.stage = IF job[t].tree THEN "returned" ELSE "cleaning"
    BY <1>1, RefuseFields DEF Now
  <2>3. StageInv(q, job[t])  BY <1>1, <2>1, Jobs DEF Local, StageInv, Now
  <2>4. FileInv(q, job[t])  BY <1>1, <2>1, Jobs DEF Local, FileInv, StageInv, Now
  <2>5. NamesInv(t, q, job[t])  BY <2>1 DEF Local, NamesInv, InFlight, Now
  <2>6. Follows(q, r, job[t])  BY <1>1, <2>1 DEF Follows, MayMove, MayMoveTarget, Now
  <2> QED  BY <2>1, <2>3, <2>4, <2>5, <2>6
<1>2. CASE r.stage # "target"
  <2>1. /\ DOMAIN q = Fields /\ q.member = r.member /\ q.committed = r.committed /\ q.stage = r.stage
        /\ Now(q, "over", endSftp(r), r.req, r.staging, TRUE) /\ q.into = r.into
    BY <1>2, RefuseFields DEF Now
  <2>3. StageInv(q, job[t])  BY <1>2, <2>1, Jobs DEF Local, StageInv, FileInv, Now
  <2>4. FileInv(q, job[t])  BY <1>2, <2>1, Jobs DEF Local, FileInv, Now, endSftp
  <2>5. NamesInv(t, q, job[t])  BY <2>1 DEF Local, NamesInv, InFlight, Now
  <2>6. Follows(q, r, job[t])  BY <1>2, <2>1 DEF Follows, MayMove, MayMoveTarget, Now
  <2> QED  BY <2>1, <2>3, <2>4, <2>5, <2>6
<1> QED  BY <1>1, <1>2

LEMMA WaitStep ==
    ASSUME Shape, NEW t \in Transfers, Local(t), Waits(t), NEW q, q = tr'[t]
    PROVE  /\ DOMAIN q = Fields /\ StageInv(q, job[t]) /\ FileInv(q, job[t]) /\ NamesInv(t, q, job[t])
           /\ Follows(q, tr[t], job[t])
<1> DEFINE r == tr[t]
<1>1. /\ DOMAIN q = Fields /\ q.stage = r.stage /\ q.into = r.into /\ q.member = r.member
      /\ q.committed = r.committed
      /\ Now(q, q.pc, r.sftp, r.req, r.staging, r.settled)
      /\ r.pc \in {"checking", "naming"} /\ job[t].up /\ r.stage # "sending"
      /\ \/ q.pc = "moving" /\ Backs(t) /\ r.pc = "checking"
         \/ q.pc = "naming" /\ job[t].strategy = "rename" /\ q.probe \in DOMAIN Numbered
  BY Jobs DEF Waits, Frame
<1>2. StageInv(q, job[t])  BY <1>1 DEF Local, StageInv, Now
<1>3. FileInv(q, job[t])  BY <1>1, Jobs DEF Local, FileInv, Now, Backs
<1>4. NamesInv(t, q, job[t])  BY <1>1 DEF Local, NamesInv, InFlight
<1>5. Follows(q, r, job[t])  BY <1>1 DEF Follows, MayMove, MayMoveTarget
<1> QED  BY <1>1, <1>2, <1>3, <1>4, <1>5

\* All but its stage is as it was, and what is only read elsewhere.
OnlyStage(q, r) ==
    /\ DOMAIN q = Fields /\ q.into = r.into /\ q.member = r.member
    /\ q.target = r.target /\ q.probe = r.probe /\ q.committed = r.committed
    /\ Now(q, r.pc, r.sftp, r.req, r.staging, r.settled)

LEMMA OtherSteps ==
    ASSUME Shape, NEW t \in Transfers, Local(t), Begin(t) \/ LoseChannel(t) \/ KillStray(t),
           NEW q, q = tr'[t]
    PROVE  /\ DOMAIN q = Fields /\ StageInv(q, job[t]) /\ FileInv(q, job[t]) /\ NamesInv(t, q, job[t])
           /\ Follows(q, tr[t], job[t])
<1> DEFINE r == tr[t]
<1>1. CASE Begin(t)
  <2>1. CASE r.stage = "tree"
    <3>1. OnlyStage(q, r) /\ q.stage = "channel"  BY <2>1, <1>1, Jobs DEF Begin, OnlyStage, Now
    <3>2. StageInv(q, job[t])  BY <3>1, <2>1 DEF Local, StageInv, OnlyStage, Now
    <3>3. FileInv(q, job[t])  BY <3>1, <2>1 DEF Local, FileInv, OnlyStage, Now
    <3>4. NamesInv(t, q, job[t])  BY <3>1 DEF Local, NamesInv, InFlight, OnlyStage, Now
    <3>5. Follows(q, r, job[t])  BY <3>1, <2>1 DEF Follows, MayMove, MayMoveTarget, OnlyStage
    <3> QED  BY <3>1, <3>2, <3>3, <3>4, <3>5 DEF OnlyStage
  <2>2. CASE r.stage # "tree"
    <3>1. /\ Frame(q, r) /\ q.committed = r.committed /\ r.pc = "idle" /\ r.stage \in {"file", "target"}
          /\ Now(q, "checking", r.sftp, r.req, r.staging, r.settled) /\ ~r.settled
      BY <2>2, <1>1, Jobs DEF Begin, Frame, Now
    <3>2. StageInv(q, job[t])  BY <3>1 DEF Local, StageInv, Frame, Now
    <3>3. FileInv(q, job[t])  BY <3>1 DEF Local, FileInv, Frame, Now
    <3>4. NamesInv(t, q, job[t])  BY <3>1 DEF Local, NamesInv, InFlight, Frame, Now
    <3>5. Follows(q, r, job[t])  BY <3>1 DEF Follows, MayMove, MayMoveTarget, Frame, Now
    <3> QED  BY <3>1, <3>2, <3>3, <3>4, <3>5 DEF Frame
  <2> QED  BY <2>1, <2>2
<1>2. CASE LoseChannel(t)
  <2>1. /\ Frame(q, r) /\ q.committed = r.committed /\ r.sftp = "open"
        /\ Now(q, r.pc, "ended", r.req, r.staging, r.settled)
    BY <1>2, Jobs DEF LoseChannel, Frame, Now
  <2>2. StageInv(q, job[t])  BY <2>1 DEF Local, StageInv, Frame, Now
  <2>3. FileInv(q, job[t])  BY <2>1 DEF Local, FileInv, Frame, Now
  <2>4. NamesInv(t, q, job[t])  BY <2>1 DEF Local, NamesInv, InFlight, Frame, Now
  <2>5. Follows(q, r, job[t])  BY <2>1 DEF Follows, MayMove, MayMoveTarget, Frame, Now
  <2> QED  BY <2>1, <2>2, <2>3, <2>4, <2>5 DEF Frame
<1>3. CASE KillStray(t)
  <2>1. OnlyStage(q, r) /\ q.stage = r.stage  BY <1>3, Jobs DEF KillStray, OnlyStage, Now
  <2>2. StageInv(q, job[t])  BY <2>1 DEF Local, StageInv, OnlyStage, Now
  <2>3. FileInv(q, job[t])  BY <2>1 DEF Local, FileInv, OnlyStage, Now
  <2>4. NamesInv(t, q, job[t])  BY <2>1 DEF Local, NamesInv, InFlight, OnlyStage, Now
  <2>5. Follows(q, r, job[t])  BY <2>1 DEF Follows, MayMove, MayMoveTarget, OnlyStage, Now
  <2> QED  BY <2>1, <2>2, <2>3, <2>4, <2>5 DEF OnlyStage
<1> QED  BY <1>1, <1>2, <1>3

\* A folder that goes as an archive: each of its stages follows from the one before.
LEMMA FolderSteps ==
    ASSUME Shape, NEW t \in Transfers, Local(t), Folder(t), ~KillStray(t), NEW q, q = tr'[t]
    PROVE  /\ DOMAIN q = Fields /\ StageInv(q, job[t]) /\ FileInv(q, job[t]) /\ NamesInv(t, q, job[t])
           /\ Follows(q, tr[t], job[t])
<1> DEFINE r == tr[t]
<1>a. ASSUME OnlyStage(q, r), r.stage \in ArchiveStages, StageInv(q, job[t]), FileInv(q, job[t]),
             q.stage \in ArchiveStages \cup {"returned"}
      PROVE  /\ DOMAIN q = Fields /\ StageInv(q, job[t]) /\ FileInv(q, job[t]) /\ NamesInv(t, q, job[t])
             /\ Follows(q, r, job[t])
  <2>1. NamesInv(t, q, job[t])  BY <1>a DEF Local, NamesInv, InFlight, OnlyStage, Now
  <2>2. Follows(q, r, job[t])  BY <1>a DEF Follows, MayMove, MayMoveTarget, OnlyStage, Now
  <2> QED  BY <1>a, <2>1, <2>2 DEF OnlyStage
<1>1. CASE MakeDirectory(t)
  <2>1. OnlyStage(q, r) /\ r.stage = "mkdir" /\ q.stage \in {"packing", "cleaning"}
    BY <1>1, Jobs DEF MakeDirectory, clean, OnlyStage, Now
  <2>2. StageInv(q, job[t])  BY <2>1, Jobs DEF Local, StageInv, OnlyStage, Now
  <2>3. FileInv(q, job[t])  BY <2>1, Jobs DEF Local, StageInv, FileInv, OnlyStage, Now
  <2> QED  BY <2>1, <2>2, <2>3, <1>a
<1>2. CASE PackFails(t)
  <2>1. OnlyStage(q, r) /\ r.stage = "packing" /\ q.stage = "packing"
    BY <1>2, Jobs DEF PackFails, OnlyStage, Now
  <2>2. StageInv(q, job[t])  BY <2>1, Jobs DEF Local, StageInv, OnlyStage, Now
  <2>3. FileInv(q, job[t])  BY <2>1, Jobs DEF Local, StageInv, FileInv, OnlyStage, Now
  <2> QED  BY <2>1, <2>2, <2>3, <1>a
<1>3. CASE PackFailsAgain(t)
  <2>1. OnlyStage(q, r) /\ r.stage = "packing" /\ q.stage = "cleaning"
    BY <1>3, Jobs DEF PackFailsAgain, clean, OnlyStage, Now
  <2>2. StageInv(q, job[t])  BY <2>1, Jobs DEF Local, StageInv, OnlyStage, Now
  <2>3. FileInv(q, job[t])  BY <2>1, Jobs DEF Local, StageInv, FileInv, OnlyStage, Now
  <2> QED  BY <2>1, <2>2, <2>3, <1>a
<1>4. CASE ListFails(t)
  <2>1. OnlyStage(q, r) /\ r.stage = "listing" /\ q.stage = "cleaning"
    BY <1>4, Jobs DEF ListFails, clean, OnlyStage, Now
  <2>2. StageInv(q, job[t])  BY <2>1, Jobs DEF Local, StageInv, OnlyStage, Now
  <2>3. FileInv(q, job[t])  BY <2>1, Jobs DEF Local, StageInv, FileInv, OnlyStage, Now
  <2> QED  BY <2>1, <2>2, <2>3, <1>a
<1>5. CASE Sent(t)
  <2>1. /\ OnlyStage(q, r) /\ r.stage = "sending" /\ r.settled
        /\ q.stage \in {"cleaning", "unpacking"} \/ (q.stage = "listing" /\ ~job[t].up)
    <3>1. CASE clean(t, "failed")  BY <3>1, <1>5, Jobs DEF Sent, clean, OnlyStage, Now
    <3>2. CASE startUnpacking(t)  BY <3>2, <1>5, Jobs DEF Sent, startUnpacking, OnlyStage, Now
    <3>3. CASE ~job[t].up /\ tr' = [tr EXCEPT ![t].stage = "listing"]
      BY <3>3, <1>5, Jobs DEF Sent, OnlyStage, Now
    <3> QED  BY <3>1, <3>2, <3>3, <1>5 DEF Sent
  <2>2. StageInv(q, job[t])  BY <2>1, Jobs DEF Local, StageInv, OnlyStage, Now
  <2>3. FileInv(q, job[t])  BY <2>1, Jobs DEF Local, StageInv, FileInv, OnlyStage, Now
  <2> QED  BY <2>1, <2>2, <2>3, <1>a
<1>6. CASE Unpacked(t)
  <2>1. OnlyStage(q, r) /\ r.stage = "unpacking" /\ q.stage = "cleaning"
    BY <1>6, Jobs DEF Unpacked, OnlyStage, Now
  <2>2. StageInv(q, job[t])  BY <2>1, Jobs DEF Local, StageInv, OnlyStage, Now
  <2>3. FileInv(q, job[t])  BY <2>1, Jobs DEF Local, StageInv, FileInv, OnlyStage, Now
  <2> QED  BY <2>1, <2>2, <2>3, <1>a
<1>7. CASE UnpackFails(t)
  <2>1. OnlyStage(q, r) /\ r.stage = "unpacking" /\ q.stage \in {"unpacking", "cleaning"}
    BY <1>7, Jobs DEF UnpackFails, OnlyStage, Now
  <2>2. StageInv(q, job[t])  BY <2>1, Jobs DEF Local, StageInv, OnlyStage, Now
  <2>3. FileInv(q, job[t])  BY <2>1, Jobs DEF Local, StageInv, FileInv, OnlyStage, Now
  <2> QED  BY <2>1, <2>2, <2>3, <1>a
<1>8. CASE Cleaned(t)
  <2>1. OnlyStage(q, r) /\ r.stage = "cleaning" /\ q.stage = "returned"
    BY <1>8, Jobs DEF Cleaned, OnlyStage, Now
  <2>2. StageInv(q, job[t])  BY <2>1, Jobs DEF Local, StageInv, OnlyStage, Now
  <2>3. FileInv(q, job[t])  BY <2>1, Jobs DEF Local, StageInv, FileInv, OnlyStage, Now
  <2> QED  BY <2>1, <2>2, <2>3, <1>a
<1>9. CASE Packed(t)
  <2>1. CASE job[t].up
    <3>1. OnlyStage(q, r) /\ r.stage = "packing" /\ q.stage = "listing"
      BY <2>1, <1>9, Jobs DEF Packed, OnlyStage, Now
    <3>2. StageInv(q, job[t])  BY <3>1, <2>1 DEF Local, StageInv, OnlyStage, Now
    <3>3. FileInv(q, job[t])  BY <3>1 DEF Local, StageInv, FileInv, OnlyStage, Now
    <3> QED  BY <3>1, <3>2, <3>3, <1>a
  <2>2. CASE ~job[t].up
    <3>1. /\ DOMAIN q = Fields /\ q.into = r.into /\ q.member = r.member /\ q.committed = r.committed
          /\ r.stage = "packing" /\ q.stage = "sending" /\ q.target = Archive(t)
          /\ Now(q, "opening", r.sftp, r.req, r.staging, r.settled)
      BY <2>2, <1>9, Jobs DEF Packed, Now
    <3>2. StageInv(q, job[t])  BY <3>1 DEF Local, StageInv, Now
    <3>3. FileInv(q, job[t])  BY <3>1, <2>2 DEF Local, StageInv, FileInv, Now
    <3>4. NamesInv(t, q, job[t])  BY <3>1 DEF Local, StageInv, NamesInv, Now
    <3>5. Follows(q, r, job[t])  BY <3>1 DEF Follows, MayMove, MayMoveTarget
    <3> QED  BY <3>1, <3>2, <3>3, <3>4, <3>5
  <2> QED  BY <2>1, <2>2
<1>10. CASE Listed(t)
  <2>1. CASE ~job[t].up
    <3>1. OnlyStage(q, r) /\ r.stage = "listing" /\ q.stage = "unpacking"
      BY <2>1, <1>10, Jobs DEF Listed, startUnpacking, OnlyStage, Now
    <3>2. StageInv(q, job[t])  BY <3>1, <2>1 DEF Local, StageInv, OnlyStage, Now
    <3>3. FileInv(q, job[t])  BY <3>1, <2>1 DEF Local, StageInv, FileInv, OnlyStage, Now
    <3> QED  BY <3>1, <3>2, <3>3, <1>a
  <2>2. CASE job[t].up
    <3>1. /\ Frame(q, [r EXCEPT !.stage = "sending"]) /\ q.committed = r.committed
          /\ r.stage = "listing" /\ Now(q, "checking", r.sftp, r.req, r.staging, r.settled)
      BY <2>2, <1>10, Jobs DEF Listed, Frame, Now
    <3>2. /\ DOMAIN q = Fields /\ q.stage = "sending" /\ q.into = r.into /\ q.member = r.member
          /\ q.target = r.target /\ q.probe = r.probe
      BY <3>1, Jobs DEF Frame
    <3>3. StageInv(q, job[t])  BY <3>1, <3>2 DEF Local, StageInv, Now
    <3>4. FileInv(q, job[t])  BY <3>1, <3>2, <2>2 DEF Local, StageInv, FileInv, Now
    <3>5. NamesInv(t, q, job[t])  BY <3>1, <3>2 DEF Local, NamesInv, InFlight, Now
    <3>6. Follows(q, r, job[t])  BY <3>1, <3>2 DEF Follows, MayMove, MayMoveTarget
    <3> QED  BY <3>2, <3>3, <3>4, <3>5, <3>6
  <2> QED  BY <2>1, <2>2
<1> QED  BY <1>1, <1>2, <1>3, <1>4, <1>5, <1>6, <1>7, <1>8, <1>9, <1>10 DEF Folder

LEMMA EndFields ==
    ASSUME NEW t, DOMAIN tr[t] = Fields, NEW o, NEW q, q = treeEnds(t, o)
    PROVE  /\ Frame(q, [tr[t] EXCEPT !.stage = "returned"]) /\ q.committed = tr[t].committed
           /\ Now(q, tr[t].pc, endSftp(tr[t]), tr[t].req, tr[t].staging, tr[t].settled)
BY DEF treeEnds, Frame, Now

\* A tree ends where no transfer of a member is under way, or where one has settled.
LEMMA TreeEnds ==
    ASSUME Shape, NEW t \in Transfers, Local(t), tr[t].stage \in {"channel", "making", "member"},
           tr[t].stage = "member" => tr[t].settled, NEW o, NEW q, q = treeEnds(t, o)
    PROVE  /\ DOMAIN q = Fields /\ StageInv(q, job[t]) /\ FileInv(q, job[t]) /\ NamesInv(t, q, job[t])
           /\ Follows(q, tr[t], job[t])
<1> DEFINE r == tr[t]
<1>1. /\ DOMAIN q = Fields /\ q.stage = "returned" /\ q.into = r.into /\ q.member = r.member
      /\ q.target = r.target /\ q.committed = r.committed
      /\ Now(q, r.pc, endSftp(r), r.req, r.staging, r.settled)
  BY Jobs, EndFields DEF Frame
<1>2. StageInv(q, job[t])  BY <1>1 DEF Local, StageInv, Now
<1>3. FileInv(q, job[t])  BY <1>1, Jobs DEF Local, StageInv, FileInv, Now, endSftp
<1>4. NamesInv(t, q, job[t])  BY <1>1 DEF Local, NamesInv, InFlight, Now
<1>5. Follows(q, r, job[t])  BY <1>1 DEF Follows, MayMove, MayMoveTarget
<1> QED  BY <1>1, <1>2, <1>3, <1>4, <1>5

LEMMA NextMemberStep ==
    ASSUME Shape, NEW t \in Transfers, Local(t), NEW q, q = nextMember(t),
           \/ tr[t].stage = "making"
           \/ tr[t].stage = "member" /\ tr[t].member < Len(Members)
    PROVE  /\ DOMAIN q = Fields /\ StageInv(q, job[t]) /\ FileInv(q, job[t]) /\ NamesInv(t, q, job[t])
           /\ Follows(q, tr[t], job[t])
<1> DEFINE r == tr[t]
<1>1. /\ DOMAIN q = Fields /\ q.stage = "member" /\ q.into = r.into /\ q.member = r.member + 1
      /\ q.target = r.target
      /\ Now(q, "checking", "none", "none", "absent", FALSE)
  BY Jobs DEF nextMember, Now
<1>2. q.member \in 1..Len(Members)  BY <1>1, MembersAreNumbered DEF Local, StageInv
<1>3. StageInv(q, job[t])  BY <1>1, <1>2, Jobs DEF Local, StageInv, Now
<1>4. FileInv(q, job[t])  BY <1>1, Jobs DEF FileInv, Now
<1>5. NamesInv(t, q, job[t])  BY <1>1 DEF Local, NamesInv, InFlight, Now
<1>6. Follows(q, r, job[t])
  <2>1. job[t].folder /\ ~MayMoveTarget(q)  BY <1>1, Jobs DEF Local, StageInv, MayMoveTarget
  <2>2. ASSUME NEW p, MayMove(q, p) PROVE MayMove(r, p)
    <3>1. CASE r.stage = "making"  BY <3>1 DEF MayMove
    <3>2. CASE r.stage = "member" /\ r.member \in 1..Len(Members)
      <4>1. PICK k \in DOMAIN Members : Members[k] = p /\ k >= q.member
        BY <2>2, <1>1, <1>2, MembersAreNumbered DEF MayMove, MayMoveTarget
      <4>2. k > r.member  BY <4>1, <3>2, <1>1, MembersAreNumbered
      <4> QED  BY <4>1, <4>2, <3>2 DEF MayMove
    <3> QED  BY <3>1, <3>2 DEF Local, StageInv
  <2> QED  BY <2>1, <2>2 DEF Follows
<1> QED  BY <1>1, <1>3, <1>4, <1>5, <1>6

LEMMA TreeSteps ==
    ASSUME Shape, NEW t \in Transfers, Local(t), Tree(t) \/ TreeOpenTimesOut(t) \/ MemberSent(t),
           NEW q, q = tr'[t]
    PROVE  /\ DOMAIN q = Fields /\ StageInv(q, job[t]) /\ FileInv(q, job[t]) /\ NamesInv(t, q, job[t])
           /\ Follows(q, tr[t], job[t])
<1> DEFINE r == tr[t]
<1>1. CASE TreeOpens(t)
  <2>1. /\ Frame(q, [r EXCEPT !.stage = "making"]) /\ q.committed = r.committed /\ r.stage = "channel"
        /\ Now(q, r.pc, "open", r.req, r.staging, r.settled)
    BY <1>1, Jobs DEF TreeOpens, Frame, Now
  <2>2. /\ DOMAIN q = Fields /\ q.stage = "making" /\ q.into = r.into /\ q.member = r.member
        /\ q.target = r.target
    BY <2>1, Jobs DEF Frame
  <2>3. StageInv(q, job[t])  BY <2>1, <2>2 DEF Local, StageInv, Now
  <2>4. FileInv(q, job[t])  BY <2>1, <2>2 DEF Local, StageInv, FileInv, Now
  <2>5. NamesInv(t, q, job[t])  BY <2>1, <2>2 DEF Local, NamesInv, InFlight, Now
  <2>6. Follows(q, r, job[t])  BY <2>1, <2>2 DEF Follows, MayMove, MayMoveTarget
  <2> QED  BY <2>2, <2>3, <2>4, <2>5, <2>6
<1>2. CASE TreeOpenFails(t) \/ TreeFails(t)
  <2>1. q = treeEnds(t, "failed") /\ r.stage \in {"channel", "making"}
    BY <1>2, Jobs DEF TreeOpenFails, TreeFails
  <2> QED  BY <2>1, TreeEnds
<1>3. CASE TreeOpenTimesOut(t)
  <2> DEFINE e == treeEnds(t, "failed")
  <2>1. q = [e EXCEPT !.pc = "opening", !.settled = TRUE] /\ r.stage = "channel"
    BY <1>3, Jobs DEF TreeOpenTimesOut
  <2>2. /\ DOMAIN e = Fields /\ e.stage = "returned" /\ e.into = r.into /\ e.member = r.member
        /\ e.target = r.target /\ e.committed = r.committed
        /\ Now(e, r.pc, endSftp(r), r.req, r.staging, r.settled)
    BY Jobs, EndFields DEF Frame
  <2> HIDE DEF e
  <2>3. /\ DOMAIN q = Fields /\ q.stage = "returned" /\ q.into = r.into /\ q.member = r.member
        /\ q.target = r.target /\ q.committed = r.committed
        /\ Now(q, "opening", endSftp(r), r.req, r.staging, TRUE)
    BY <2>1, <2>2 DEF Now
  <2>4. StageInv(q, job[t])  BY <2>1, <2>3 DEF Local, StageInv, Now
  <2>5. FileInv(q, job[t])  BY <2>1, <2>3, Jobs DEF Local, StageInv, FileInv, Now, endSftp
  <2>6. NamesInv(t, q, job[t])  BY <2>3 DEF Local, NamesInv, InFlight, Now
  <2>7. Follows(q, r, job[t])  BY <2>3 DEF Follows, MayMove, MayMoveTarget
  <2> QED  BY <2>3, <2>4, <2>5, <2>6, <2>7
<1>4. CASE TreeMade(t)
  <2>1. CASE job[t].up /\ ~r.again
    <3>1. /\ Frame(q, [r EXCEPT !.stage = "channel"]) /\ q.committed = r.committed /\ r.stage = "making"
          /\ Now(q, r.pc, "ended", r.req, r.staging, r.settled)
      BY <2>1, <1>4, Jobs DEF TreeMade, Frame, Now
    <3>2. /\ DOMAIN q = Fields /\ q.stage = "channel" /\ q.into = r.into /\ q.member = r.member
          /\ q.target = r.target
      BY <3>1, Jobs DEF Frame
    <3>3. StageInv(q, job[t])  BY <3>1, <3>2 DEF Local, StageInv, Now
    <3>4. FileInv(q, job[t])  BY <3>1, <3>2 DEF Local, StageInv, FileInv, Now
    <3>5. NamesInv(t, q, job[t])  BY <3>1, <3>2 DEF Local, NamesInv, InFlight, Now
    <3>6. Follows(q, r, job[t])  BY <3>1, <3>2 DEF Follows, MayMove, MayMoveTarget
    <3> QED  BY <3>2, <3>3, <3>4, <3>5, <3>6
  <2>2. CASE ~(job[t].up /\ ~r.again)
    <3>1. q = nextMember(t) /\ r.stage = "making"  BY <2>2, <1>4, Jobs DEF TreeMade
    <3> QED  BY <3>1, NextMemberStep
  <2> QED  BY <2>1, <2>2
<1>5. CASE MemberSent(t)
  <2>1. /\ r.stage = "member" /\ r.settled
        /\ \/ \E o : q = treeEnds(t, o)
           \/ q = nextMember(t) /\ r.member < Len(Members)
    <3>1. CASE r.outcome \notin {"done", "skipped"}  BY <3>1, <1>5, Jobs DEF MemberSent
    <3>2. CASE r.outcome \in {"done", "skipped"} /\ r.member < Len(Members)
      BY <3>2, <1>5, Jobs DEF MemberSent
    <3>3. CASE r.outcome \in {"done", "skipped"} /\ ~(r.member < Len(Members))
      BY <3>3, <1>5, Jobs DEF MemberSent
    <3> QED  BY <3>1, <3>2, <3>3
  <2> QED  BY <2>1, TreeEnds, NextMemberStep
<1> QED  BY <1>1, <1>2, <1>3, <1>4, <1>5 DEF Tree

-----------------------------------------------------------------------------
(* One transfer at a time.                                                   *)
Step(t) ==
    \/ Tree(t) \/ TreeOpenTimesOut(t) \/ MemberSent(t)
    \/ Begin(t) \/ Check(t) \/ SftpOpens(t) \/ SftpFails(t) \/ LoseChannel(t) \/ Timeout(t)
    \/ Upload(t) \/ Download(t) \/ Hashed(t) \/ HashFails(t) \/ Folder(t)

LEMMA OthersWait ==
    ASSUME Shape, NEW t \in Transfers, Step(t)
    PROVE  /\ job' = job /\ there' = there /\ DOMAIN tr' = Transfers
           /\ \A u \in Transfers \ {t} : tr'[u] = tr[u]
<1> DEFINE Rest == /\ job' = job /\ there' = there /\ DOMAIN tr' = Transfers
                  /\ \A u \in Transfers \ {t} : tr'[u] = tr[u]
<1>0. DOMAIN tr = Transfers  BY DEF Shape
<1>1. CASE Tree(t) \/ TreeOpenTimesOut(t) \/ MemberSent(t)
  BY <1>0, <1>1 DEF Tree, TreeMade, TreeFails, TreeOpens, TreeOpenFails, TreeOpenTimesOut, MemberSent
<1>2. CASE Begin(t) \/ LoseChannel(t) \/ Timeout(t) \/ SftpOpens(t) \/ SftpFails(t)
  BY <1>0, <1>2 DEF Begin, LoseChannel, Timeout, SftpOpens, SftpFails
<1>3. CASE Check(t)
  <2>1. ASSUME NEW name, proceed(t, name) PROVE DOMAIN tr' = Transfers /\ \A u \in Transfers \ {t} : tr'[u] = tr[u]
    BY <2>1, <1>0 DEF proceed
  <2>2. ASSUME NEW o, refuse(t, o) PROVE DOMAIN tr' = Transfers /\ \A u \in Transfers \ {t} : tr'[u] = tr[u]
    BY <2>2, <1>0 DEF refuse
  <2>3. CASE Checked(t) \/ CheckedSkip(t) \/ CheckedLocal(t) \/ CheckFails(t) \/ Moved(t) \/ MoveFails(t)
    BY <2>3, <2>1, <2>2 DEF Checked, CheckedSkip, CheckedLocal, CheckFails, Moved, MoveFails
  <2>4. CASE CheckedRemote(t) \/ Named(t)  BY <2>4, <2>1, <1>0 DEF CheckedRemote, Named
  <2> QED  BY <1>3, <2>3, <2>4 DEF Check
<1>4. CASE Upload(t)
  BY <1>0, <1>4 DEF Upload, Write, StreamCloses, StreamFails, ServerRenames, Renamed, RenameFails,
                    ServerUnlinks, Unlinked
<1>5. CASE Download(t) \/ Hashed(t) \/ HashFails(t)
  BY <1>0, <1>5 DEF Download, StatDone, OpenLocal, ReadLast, ReadEnds, Flushed, ReadFails, Hashed, HashFails
<1>6. CASE Folder(t)
  BY <1>0, <1>6 DEF Folder, MakeDirectory, Packed, PackFails, PackFailsAgain, Listed, ListFails, Sent,
                    Unpacked, UnpackFails, Cleaned, KillStray, clean, startUnpacking
<1> QED  BY <1>1, <1>2, <1>3, <1>4, <1>5, <1>6 DEF Step

LEMMA CheckSteps ==
    ASSUME Shape, NEW t \in Transfers, Local(t), Check(t), NEW q, q = tr'[t]
    PROVE  /\ DOMAIN q = Fields /\ StageInv(q, job[t]) /\ FileInv(q, job[t]) /\ NamesInv(t, q, job[t])
           /\ Follows(q, tr[t], job[t])
<1>1. tr[t].pc \in Choosing /\ (Proceeds(t) \/ Refuses(t) \/ Waits(t) \/ Backed(t))  BY Checks
<1>2. NameFor(t, Asked(t))
  <2>1. Asked(t) = WithSuffix(Asked(t), "")  BY DEF Asked, Archive, Member, WithSuffix
  <2> QED  BY <2>1 DEF NameFor
<1>3. CASE Proceeds(t)  BY <1>1, <1>3, ProceedStep DEF Proceeds
<1>4. CASE Refuses(t)  BY <1>1, <1>4, RefuseStep DEF Refuses
<1>5. CASE Waits(t)  BY <1>5, WaitStep
<1>6. CASE Backed(t)  BY <1>1, <1>2, <1>6, ProceedStep, RefuseStep DEF Backed, Local, StageInv
<1> QED  BY <1>1, <1>3, <1>4, <1>5, <1>6

LEMMA GoesOnFollows ==
    ASSUME NEW q, NEW r, NEW j, GoesOn(q, r)
    PROVE  Follows(q, r, j)
BY DEF GoesOn, Frame, Follows, MayMove, MayMoveTarget

LEMMA TransferSteps ==
    ASSUME Shape, NEW t \in Transfers, Local(t), Step(t), NEW q, q = tr'[t]
    PROVE  /\ DOMAIN q = Fields /\ StageInv(q, job[t]) /\ FileInv(q, job[t]) /\ NamesInv(t, q, job[t])
           /\ Follows(q, tr[t], job[t])
<1>1. CASE Tree(t) \/ TreeOpenTimesOut(t) \/ MemberSent(t)  BY <1>1, TreeSteps
<1>2. CASE Begin(t) \/ LoseChannel(t) \/ KillStray(t)  BY <1>2, OtherSteps
<1>3. CASE Check(t)  BY <1>3, CheckSteps
<1>4. CASE SftpOpens(t) \/ SftpFails(t) \/ Timeout(t) \/ Upload(t) \/ Download(t) \/ Hashed(t) \/ HashFails(t)
  <2>1. GoesOn(q, tr[t]) /\ FileInv(q, job[t])  BY <1>4, FileSteps
  <2> QED  BY <2>1, GoesOnLocally, GoesOnFollows DEF GoesOn, Frame
<1>5. CASE Folder(t) /\ ~KillStray(t)  BY <1>5, FolderSteps
<1> QED  BY <1>1, <1>2, <1>3, <1>4, <1>5 DEF Step

-----------------------------------------------------------------------------
(* What a step does to the files.                                            *)
LEMMA OneWrite ==
    ASSUME Shape, NEW a \in Sides, NEW m, NEW c, NEW g, g = [file EXCEPT ![a][m] = c]
    PROVE  /\ DOMAIN g = Sides
           /\ \A s \in Sides :
                /\ DOMAIN g[s] = Names
                /\ \A n \in Names : g[s][n] = IF s = a /\ n = m THEN c ELSE file[s][n]
BY DEF Shape

\* The archive is made when it is packed, and removed; a folder is made or filled; the
\* staging file of a transfer takes the place of the target.
ArchiveWrite(t, s, n) ==
    /\ n = Archive(t)
    /\ \/ file'[s][n] = Nothing
       \/ tr[t].stage = "packing" /\ s = From(t) /\ file'[s][n].of = t
FolderWrite(t, s, n) ==
    /\ s = To(t) /\ n = tr[t].into /\ file'[s][n].of = t
    /\ tr[t].stage \in {"listing", "sending", "unpacking"} \/ ~Exists(t, n)
FileWrite(t, s, n) ==
    /\ s = To(t) /\ n = tr[t].target /\ InFlight(tr[t])
    /\ file'[s][n].of = t /\ file'[s][n].whole /\ tr'[t].committed

Writes(t) ==
    /\ DOMAIN file' = Sides
    /\ \A s \in Sides :
        /\ DOMAIN file'[s] = Names
        /\ \A n \in Names :
            \/ file'[s][n] = file[s][n]
            \/ ArchiveWrite(t, s, n) \/ FolderWrite(t, s, n) \/ FileWrite(t, s, n)

LEMMA Sidewise == ASSUME NEW t PROVE To(t) \in Sides /\ From(t) \in Sides /\ "local" \in Sides /\ "remote" \in Sides
BY DEF To, From, Sides

LEMMA StepWrites ==
    ASSUME Shape, NEW t \in Transfers, Local(t), Step(t)
    PROVE  Writes(t) \/ Backed(t)
<1> DEFINE r == tr[t]
<1>u. ASSUME UNCHANGED file PROVE Writes(t)  BY <1>u DEF Writes, Shape
<1>c. ASSUME file' = [file EXCEPT !["local"][Archive(t)] = Nothing] PROVE Writes(t)
  BY <1>c, OneWrite, Sidewise DEF Writes, ArchiveWrite
<1>i. ASSUME NEW c, file' = [file EXCEPT ![To(t)][r.into] = c], c.of = t,
             r.stage \in {"listing", "sending", "unpacking"} \/ ~Exists(t, r.into)
      PROVE  Writes(t)
  BY <1>i, OneWrite, Sidewise DEF Writes, FolderWrite
<1>p. ASSUME NEW c, file' = [file EXCEPT ![From(t)][Archive(t)] = c], c.of = t, r.stage = "packing"
      PROVE  Writes(t)
  BY <1>p, OneWrite, Sidewise DEF Writes, ArchiveWrite
<1>f. ASSUME NEW c, file' = [file EXCEPT ![To(t)][r.target] = c], c.of = t, c.whole, InFlight(r),
             tr'[t].committed
      PROVE  Writes(t)
  BY <1>f, OneWrite, Sidewise DEF Writes, FileWrite
<1>l. clean(t, "failed") => Writes(t)  BY <1>c DEF clean
<1>s. ASSUME startUnpacking(t), r.stage \in {"listing", "sending"} PROVE Writes(t)
  <2> DEFINE c == [of |-> t, whole |-> FALSE]
  <2>1. file' = [file EXCEPT ![To(t)][r.into] = c] /\ c.of = t  BY <1>s DEF startUnpacking
  <2> HIDE DEF c
  <2> QED  BY <2>1, <1>i, <1>s
<1>1. CASE Check(t)  BY <1>1, <1>u, Checks DEF Proceeds, Refuses, Waits
<1>2. CASE UNCHANGED file  BY <1>2, <1>u
<1>3. CASE ServerRenames(t) /\ file' = commit(t) /\ tr'[t].committed
  <2> DEFINE c == [of |-> t, whole |-> r.staging = "whole"]
  <2>1. file' = [file EXCEPT ![To(t)][r.target] = c] /\ c.of = t  BY <1>3 DEF commit
  <2>2. c.whole /\ InFlight(r)  BY <1>3 DEF ServerRenames, Local, FileInv, InFlight
  <2> HIDE DEF c
  <2> QED  BY <2>1, <2>2, <1>f, <1>3
<1>4. CASE ReadEnds(t) \/ (Flushed(t) /\ r.staging # "absent")
  <2> DEFINE c == [of |-> t, whole |-> TRUE]
  <2>1. file' = [file EXCEPT ![To(t)][r.target] = c] /\ c.of = t /\ c.whole  BY <1>4 DEF ReadEnds, Flushed
  <2>2. InFlight(r)  BY <1>4 DEF ReadEnds, Flushed, InFlight
  <2>3. tr'[t].committed
    <3>1. CASE ReadEnds(t)  BY <3>1, Jobs DEF ReadEnds, finishOnce
    <3>2. CASE Flushed(t) /\ r.staging # "absent"  BY <3>2, Jobs DEF Flushed
    <3> QED  BY <3>1, <3>2, <1>4
  <2> HIDE DEF c
  <2> QED  BY <2>1, <2>2, <2>3, <1>f
<1>5. CASE MakeDirectory(t)
  <2>1. CASE ~Exists(t, r.into) /\ file' = [file EXCEPT !["remote"][r.into] = [of |-> t, whole |-> FALSE]]
    <3> DEFINE c == [of |-> t, whole |-> FALSE]
    <3>1. file' = [file EXCEPT !["remote"][r.into] = c] /\ c.of = t  BY <2>1
    <3> HIDE DEF c
    <3>2. To(t) = "remote"  BY <1>5 DEF MakeDirectory, Local, StageInv, To
    <3> QED  BY <3>1, <3>2, <2>1, <1>i
  <2> QED  BY <2>1, <1>5, <1>l, <1>u DEF MakeDirectory
<1>6. CASE Packed(t) \/ PackFails(t)
  <2>1. r.stage = "packing"  BY <1>6 DEF Packed, PackFails
  <2>2. ASSUME NEW b, file' = [file EXCEPT ![From(t)][Archive(t)] = [of |-> t, whole |-> b]] PROVE Writes(t)
    <3> DEFINE c == [of |-> t, whole |-> b]
    <3>1. file' = [file EXCEPT ![From(t)][Archive(t)] = c] /\ c.of = t  BY <2>2
    <3> HIDE DEF c
    <3> QED  BY <3>1, <2>1, <1>p
  <2> QED  BY <1>6, <2>2, <1>u DEF Packed, PackFails
<1>7. CASE PackFailsAgain(t) \/ ListFails(t)  BY <1>7, <1>l DEF PackFailsAgain, ListFails
<1>8. CASE Listed(t)  BY <1>8, <1>u, <1>s DEF Listed
<1>9. CASE Sent(t)  BY <1>9, <1>u, <1>s, <1>l DEF Sent
<1>10. CASE Unpacked(t)
  <2>a. PICK c : c = [of |-> t, whole |-> /\ file[To(t)][r.into].of = t
                                         /\ file[To(t)][Archive(t)] = [of |-> t, whole |-> TRUE]]
    OBVIOUS
  <2>0. PICK g : g = [file EXCEPT ![To(t)][r.into] = c]  OBVIOUS
  <2>1. file' = [g EXCEPT !["local"][Archive(t)] = Nothing] /\ c.of = t  BY <2>a, <2>0, <1>10 DEF Unpacked
  <2>2. /\ DOMAIN g = Sides
        /\ \A s \in Sides :
             /\ DOMAIN g[s] = Names
             /\ \A n \in Names : g[s][n] = IF s = To(t) /\ n = r.into THEN c ELSE file[s][n]
    <3>1. To(t) \in Sides  BY Sidewise
    <3> QED  BY <2>0, <3>1 DEF Shape
  <2>3. /\ DOMAIN file' = Sides
        /\ \A s \in Sides :
             /\ DOMAIN file'[s] = Names
             /\ \A n \in Names : file'[s][n] = IF s = "local" /\ n = Archive(t) THEN Nothing ELSE g[s][n]
    BY <2>1, <2>2, Sidewise
  <2>4. r.stage = "unpacking"  BY <1>10 DEF Unpacked
  <2> QED  BY <2>1, <2>2, <2>3, <2>4 DEF Writes, ArchiveWrite, FolderWrite
<1>11. CASE UnpackFails(t)  BY <1>11, <1>u, <1>c DEF UnpackFails
<1>12. CASE Cleaned(t)
  BY <1>12, <1>u, OneWrite, Sidewise DEF Cleaned, Writes, ArchiveWrite
<1>13. CASE TreeMade(t)
  <2>1. CASE ~Exists(t, r.into)
    <3> DEFINE c == [of |-> t, whole |-> FALSE]
    <3>1. file' = [file EXCEPT ![To(t)][r.into] = c] /\ c.of = t  BY <2>1, <1>13 DEF TreeMade
    <3> HIDE DEF c
    <3> QED  BY <3>1, <2>1, <1>i
  <2> QED  BY <2>1, <1>13, <1>u DEF TreeMade
<1>14. CASE ServerRenames(t) /\ file' # file
  <2>1. file' = commit(t) /\ tr'[t].committed  BY <1>14, Jobs DEF ServerRenames
  <2> QED  BY <1>3, <1>14, <2>1
<1>15. CASE Upload(t) \/ Download(t) \/ Hashed(t) \/ HashFails(t)
  BY <1>15, <1>2, <1>4, <1>14 DEF Upload, Download, Write, StreamCloses, StreamFails, Renamed, RenameFails,
      ServerUnlinks, Unlinked, StatDone, OpenLocal, ReadLast, Flushed, ReadFails, Hashed, HashFails
<1>16. CASE Tree(t) \/ TreeOpenTimesOut(t) \/ MemberSent(t)
  BY <1>16, <1>2, <1>13 DEF Tree, TreeFails, TreeOpens, TreeOpenFails, TreeOpenTimesOut, MemberSent
<1>17. CASE Begin(t) \/ SftpOpens(t) \/ SftpFails(t) \/ LoseChannel(t) \/ Timeout(t)
  BY <1>17, <1>2 DEF Begin, SftpOpens, SftpFails, LoseChannel, Timeout
<1>18. CASE Folder(t)
  BY <1>18, <1>2, <1>5, <1>6, <1>7, <1>8, <1>9, <1>10, <1>11, <1>12 DEF Folder, KillStray
<1> QED  BY <1>1, <1>15, <1>16, <1>17, <1>18 DEF Step

-----------------------------------------------------------------------------
(* What a backup moves.                                                      *)
LEMMA AllSuffixes == Suffixes = Plain \cup {".bak"}
<1>1. DOMAIN Numbered = {1, 2} /\ Numbered[1] = ".1" /\ Numbered[2] = ".2"  BY DEF Numbered
<1> QED  BY <1>1 DEF Suffixes

LEMMA NamesAre ==
    /\ \A x \in Plain \cup {".bak"} : <<"file", "", x>> \in Names /\ <<"folder", "", x>> \in Names
    /\ \A m \in MemberNames, x, y \in Plain \cup {".bak"} : <<m, x, y>> \in Names
    /\ \A t \in Transfers : Archive(t) \in Names
BY AllSuffixes DEF Names, Archive

LEMMA NamesOnly ==
    ASSUME NEW n \in Names
    PROVE  /\ n[1] \in {"file", "folder"} \cup MemberNames \cup Transfers
           /\ n[1] \in MemberNames => n[3] \in Plain \cup {".bak"}
BY AllSuffixes, MembersAssumption DEF Names

\* The place of one file, and where the backup of it goes.
PlaceOfFile(t, p, x) ==
    \/ tr[t].stage = "file" /\ ~job[t].folder /\ p = "file" /\ x = ""
    \/ /\ tr[t].stage = "member" /\ job[t].folder
       /\ tr[t].member \in DOMAIN Members /\ p = Members[tr[t].member] /\ x = tr[t].into[3]
FileMoved(t, p, x) ==
    /\ DOMAIN file' = Sides
    /\ \A s \in Sides :
        /\ DOMAIN file'[s] = Names
        /\ \A n \in Names :
            file'[s][n] = IF s = To(t) /\ n = <<p, x, "">> THEN Nothing
                          ELSE IF s = To(t) /\ n = <<p, x, ".bak">> THEN file[s][<<p, x, "">>]
                          ELSE file[s][n]

LEMMA FileBacked ==
    ASSUME Shape, NEW t \in Transfers, Local(t), Backed(t), tr[t].stage # "target"
    PROVE  \E p \in {"file"} \cup MemberNames, x \in Plain :
             PlaceOfFile(t, p, x) /\ Asked(t) = <<p, x, "">> /\ FileMoved(t, p, x)
<1> DEFINE r == tr[t]
<1>1. r.stage \in {"file", "member"}  BY DEF Backed, Local, FileInv
<1>2. PICK a : a = Asked(t)  OBVIOUS
<1>3. \E p \in {"file"} \cup MemberNames, x \in Plain :
        /\ PlaceOfFile(t, p, x)
        /\ a = <<p, x, "">>
  <2>1. CASE r.stage = "file"
    <3>1. a = <<"file", "", "">> /\ ~job[t].folder  BY <2>1, <1>2, Jobs DEF Asked, Local, StageInv
    <3> QED  BY <3>1, <2>1 DEF PlaceOfFile
  <2>2. CASE r.stage = "member"
    <3>1. r.member \in DOMAIN Members /\ job[t].folder
      BY <2>2, MembersAreNumbered, Jobs DEF Local, StageInv
    <3>2. a = <<Members[r.member], r.into[3], "">> /\ Members[r.member] \in MemberNames
      BY <2>2, <3>1, <1>2 DEF Asked, Member, MemberNames
    <3>3. r.into[3] \in Plain  BY DEF Local, NamesInv
    <3> QED  BY <3>1, <3>2, <3>3, <2>2 DEF PlaceOfFile
  <2> QED  BY <1>1, <2>1, <2>2
<1>4. PICK p \in {"file"} \cup MemberNames, x \in Plain :
        /\ PlaceOfFile(t, p, x)
        /\ a = <<p, x, "">>
  BY <1>3
<1>5. PICK b : b = <<p, x, ".bak">>  OBVIOUS
<1>6. Backup(t) = b
  <2>1. a[1] = p /\ a[2] = x  BY <1>4
  <2>2. WithSuffix(a, ".bak") = <<a[1], a[2], ".bak">>  BY DEF WithSuffix
  <2> QED  BY <2>1, <2>2, <1>2, <1>5 DEF Backup
<1>7. a \in Names /\ b \in Names
  <2>1. CASE p \in MemberNames  BY <2>1, <1>4, <1>5, NamesAre
  <2>2. CASE r.stage = "file"  BY <2>2, <1>4, <1>5, NamesAre DEF PlaceOfFile
  <2>3. CASE r.stage = "member"
    <3>1. p \in MemberNames  BY <2>3, <1>4 DEF MemberNames, PlaceOfFile
    <3> QED  BY <3>1, <2>1
  <2> QED  BY <1>1, <2>2, <2>3
<1>8. a # b  BY <1>4, <1>5
<1>9. PICK old : old = file[To(t)]  OBVIOUS
<1>10. file' = [file EXCEPT ![To(t)] = [old EXCEPT ![b] = old[a], ![a] = Nothing]]
  BY <1>2, <1>6, <1>9 DEF Backed, MovedAway
<1>11. DOMAIN old = Names /\ To(t) \in Sides  BY <1>9, Sidewise DEF Shape
<1>12. PICK new : new = [old EXCEPT ![b] = old[a], ![a] = Nothing]  OBVIOUS
<1>13. /\ DOMAIN new = Names
       /\ \A n \in Names : new[n] = IF n = a THEN Nothing ELSE IF n = b THEN old[a] ELSE old[n]
  BY <1>12, <1>11, <1>7, <1>8
<1>14. /\ DOMAIN file' = Sides
       /\ \A s \in Sides : file'[s] = IF s = To(t) THEN new ELSE file[s]
  BY <1>10, <1>11, <1>12 DEF Shape
<1>15. \A s \in Sides :
          /\ DOMAIN file'[s] = Names
          /\ \A n \in Names : file'[s][n] =
                IF s = To(t) /\ n = a THEN Nothing ELSE IF s = To(t) /\ n = b THEN file[s][a] ELSE file[s][n]
  BY <1>9, <1>13, <1>14 DEF Shape
<1>16. \A s \in Sides :
          /\ DOMAIN file'[s] = Names
          /\ \A n \in Names : file'[s][n] =
                IF s = To(t) /\ n = <<p, x, "">> THEN Nothing
                ELSE IF s = To(t) /\ n = <<p, x, ".bak">> THEN file[s][<<p, x, "">>]
                ELSE file[s][n]
  BY <1>15, <1>4, <1>5
<1>17. Asked(t) = <<p, x, "">>  BY <1>2, <1>4
<1>18. DOMAIN file' = Sides  BY <1>14
<1>19. FileMoved(t, p, x)  BY <1>16, <1>18 DEF FileMoved
<1> QED  BY <1>4, <1>17, <1>19

\* The places of a folder, and where the backup of it goes if there is none yet.
LEMMA FolderBacked ==
    ASSUME Shape, NEW t \in Transfers, Local(t), Backed(t), tr[t].stage = "target"
    PROVE  LET free == file[To(t)][<<"folder", "", ".bak">>].of = Nobody
           IN  /\ DOMAIN file' = Sides
               /\ \A s \in Sides :
                    /\ DOMAIN file'[s] = Names
                    /\ \A n \in Names :
                         file'[s][n] =
                            IF s # To(t) THEN file[s][n]
                            ELSE IF n = <<"folder", "", "">> \/ (n[1] \in MemberNames /\ n[2] = "") THEN Nothing
                            ELSE IF free /\ n = <<"folder", "", ".bak">> THEN file[s][<<"folder", "", "">>]
                            ELSE IF free /\ n[1] \in MemberNames /\ n[2] = ".bak" THEN file[s][<<n[1], "", n[3]>>]
                            ELSE file[s][n]
<1>1. PICK a : a = Asked(t)  OBVIOUS
<1>2. a = <<"folder", "", "">>  BY <1>1 DEF Asked
<1>3. PICK b : b = <<"folder", "", ".bak">>  OBVIOUS
<1>4. Backup(t) = b
  <2>1. a[1] = "folder" /\ a[2] = ""  BY <1>2
  <2>2. WithSuffix(a, ".bak") = <<a[1], a[2], ".bak">>  BY DEF WithSuffix
  <2> QED  BY <2>1, <2>2, <1>1, <1>3 DEF Backup
<1>5. PICK old : old = file[To(t)]  OBVIOUS
<1>6. PICK new : new = FolderMoved(old, a, b)  OBVIOUS
<1>7. file' = [file EXCEPT ![To(t)] = new]  BY <1>1, <1>4, <1>5, <1>6 DEF Backed, MovedAway
<1>8. DOMAIN new = Names  BY <1>6 DEF FolderMoved
<1>9. ASSUME NEW n \in Names
      PROVE  new[n] = IF n = a \/ (n[1] \in MemberNames /\ n[2] = "") THEN Nothing
                      ELSE IF old[b].of = Nobody /\ n = b THEN old[a]
                      ELSE IF old[b].of = Nobody /\ n[1] \in MemberNames /\ n[2] = ".bak" THEN old[<<n[1], "", n[3]>>]
                      ELSE old[n]
  BY <1>6 DEF FolderMoved
<1>10. /\ DOMAIN file' = Sides
       /\ \A s \in Sides : file'[s] = IF s = To(t) THEN new ELSE file[s]
  BY <1>7, Sidewise DEF Shape
<1>11. ASSUME NEW s \in Sides
       PROVE  /\ DOMAIN file'[s] = Names
              /\ s # To(t) => \A n \in Names : file'[s][n] = file[s][n]
              /\ s = To(t) => \A n \in Names : file'[s][n] = new[n] /\ file[s][n] = old[n]
  BY <1>5, <1>8, <1>10 DEF Shape
<1>12. ASSUME NEW s \in Sides, NEW n \in Names
       PROVE  file'[s][n] =
                IF s # To(t) THEN file[s][n]
                ELSE IF n = a \/ (n[1] \in MemberNames /\ n[2] = "") THEN Nothing
                ELSE IF old[b].of = Nobody /\ n = b THEN file[s][a]
                ELSE IF old[b].of = Nobody /\ n[1] \in MemberNames /\ n[2] = ".bak" THEN file[s][<<n[1], "", n[3]>>]
                ELSE file[s][n]
  <2>1. CASE s # To(t)  BY <2>1, <1>11
  <2>2. CASE s = To(t)
    <3>1. file[s] = old /\ file'[s][n] = new[n]  BY <2>2, <1>5, <1>11
    <3> QED  BY <3>1, <2>2, <1>9
  <2> QED  BY <2>1, <2>2
<1>13. old[b] = file[To(t)][b]  BY <1>5
<1>14. \A s \in Sides : DOMAIN file'[s] = Names  BY <1>11
<1>15. DOMAIN file' = Sides  BY <1>10
<1> QED  BY <1>2, <1>3, <1>12, <1>13, <1>14, <1>15, ZenonT(40)

-----------------------------------------------------------------------------
(* The invariants.                                                           *)
LEMMA BackedContents ==
    ASSUME Shape, NEW t \in Transfers, Local(t), Backed(t), NEW s \in Sides
    PROVE  /\ DOMAIN file' = Sides /\ DOMAIN file'[s] = Names
           /\ \A n \in Names :
                \/ file'[s][n] = file[s][n]
                \/ /\ n[1] \notin Transfers
                   /\ \/ file'[s][n] = Nothing
                      \/ n[1] = "folder"
                      \/ \E m \in Names : m[1] \notin Transfers \cup {"folder"} /\ file'[s][n] = file[s][m]
<1>1. CASE tr[t].stage = "target"
  <2>1. ASSUME NEW n \in Names, file'[s][n] # file[s][n]
        PROVE  /\ n[1] \notin Transfers
               /\ \/ file'[s][n] = Nothing
                  \/ n[1] = "folder"
                  \/ \E m \in Names : m[1] \notin Transfers \cup {"folder"} /\ file'[s][n] = file[s][m]
    <3>1. CASE n = <<"folder", "", "">> \/ n = <<"folder", "", ".bak">>
      <4>1. CASE n = <<"folder", "", "">>
        <5>1. n[1] = "folder"  BY <4>1
        <5> QED  BY <5>1, MembersAssumption
      <4>2. CASE n = <<"folder", "", ".bak">>
        <5>1. n[1] = "folder"  BY <4>2
        <5> QED  BY <5>1, MembersAssumption
      <4> QED  BY <3>1, <4>1, <4>2
    <3>2. CASE ~(n = <<"folder", "", "">> \/ n = <<"folder", "", ".bak">>)
      <4>1. /\ n[1] \in MemberNames
            /\ file'[s][n] = Nothing \/ (n[2] = ".bak" /\ file'[s][n] = file[s][<<n[1], "", n[3]>>])
        BY <2>1, <3>2, <1>1, FolderBacked
      <4>2. n[1] \notin Transfers \cup {"folder"}  BY <4>1, MembersAssumption
      <4>3. <<n[1], "", n[3]>> \in Names  BY <4>1, NamesOnly, NamesAre
      <4>4. PICK m : m = <<n[1], "", n[3]>>  OBVIOUS
      <4>5. m[1] = n[1] /\ m \in Names  BY <4>3, <4>4
      <4> QED  BY <4>1, <4>2, <4>4, <4>5
    <3> QED  BY <3>1, <3>2
  <2>2. DOMAIN file' = Sides /\ DOMAIN file'[s] = Names  BY <1>1, FolderBacked
  <2> QED  BY <2>1, <2>2
<1>2. CASE tr[t].stage # "target"
  <2>1. PICK p \in {"file"} \cup MemberNames, x \in Plain :
          /\ DOMAIN file' = Sides /\ DOMAIN file'[s] = Names
          /\ \A n \in Names : file'[s][n] =
                IF s = To(t) /\ n = <<p, x, "">> THEN Nothing
                ELSE IF s = To(t) /\ n = <<p, x, ".bak">> THEN file[s][<<p, x, "">>]
                ELSE file[s][n]
          /\ p = "file" => x = ""
    <3>1. \A m \in MemberNames : m # "file"  BY MembersAssumption
    <3>2. \A k \in DOMAIN Members : Members[k] \in MemberNames  BY DEF MemberNames
    <3>3. PICK p \in {"file"} \cup MemberNames, x \in Plain : PlaceOfFile(t, p, x) /\ FileMoved(t, p, x)
      BY <1>2, FileBacked
    <3>4. p = "file" => x = ""  BY <3>1, <3>2, <3>3 DEF PlaceOfFile
    <3> QED  BY <3>3, <3>4 DEF FileMoved
  <2>2. p \notin Transfers \cup {"folder"}  BY MembersAssumption
  <2>3. PICK m : m = <<p, x, "">>  OBVIOUS
  <2>4. m[1] = p  BY <2>3
  <2>5. m \in Names  BY <2>1, <2>3, NamesAre
  <2>6. ASSUME NEW n \in Names, file'[s][n] # file[s][n]
        PROVE  n[1] \notin Transfers /\ (file'[s][n] = Nothing \/ file'[s][n] = file[s][m])
    <3>1. n = <<p, x, "">> \/ n = <<p, x, ".bak">>  BY <2>6, <2>1
    <3>2. n[1] = p
      <4>1. CASE n = <<p, x, "">>  BY <4>1
      <4>2. CASE n = <<p, x, ".bak">>  BY <4>2
      <4> QED  BY <3>1, <4>1, <4>2
    <3>3. file'[s][n] = Nothing \/ file'[s][n] = file[s][m]  BY <2>1, <2>3, <2>6, <3>1
    <3> QED  BY <2>2, <3>2, <3>3
  <2> QED  BY <2>1, <2>2, <2>4, <2>5, <2>6
<1> QED  BY <1>1, <1>2

LEMMA StepShape ==
    ASSUME Shape, LocalInv, NEW t \in Transfers, Step(t)
    PROVE  Shape' /\ LocalInv'
<1>1. /\ job' = job /\ DOMAIN tr' = Transfers
      /\ \A u \in Transfers \ {t} : tr'[u] = tr[u]
  BY OthersWait
<1>2. Local(t)  BY DEF LocalInv
<1>3. DOMAIN tr'[t] = Fields /\ Local(t)'
  <2>1. PICK q : q = tr'[t]  OBVIOUS
  <2>2. /\ DOMAIN q = Fields /\ StageInv(q, job[t]) /\ FileInv(q, job[t]) /\ NamesInv(t, q, job[t])
    BY <1>2, <2>1, TransferSteps
  <2> QED  BY <1>1, <2>1, <2>2 DEF Local
<1>4. ASSUME NEW u \in Transfers \ {t} PROVE DOMAIN tr'[u] = Fields /\ Local(u)'
  <2>1. tr'[u] = tr[u] /\ Local(u)  BY <1>1 DEF LocalInv
  <2> QED  BY <1>1, <2>1 DEF Local, Shape
<1>5. DOMAIN file' = Sides /\ \A s \in Sides : DOMAIN file'[s] = Names
  <2>1. CASE Writes(t)  BY <2>1 DEF Writes
  <2>2. CASE Backed(t)  BY <2>2, <1>2, BackedContents, Sidewise
  <2> QED  BY <1>2, <2>1, <2>2, StepWrites
<1>6. Shape'  BY <1>1, <1>3, <1>4, <1>5 DEF Shape
<1>7. LocalInv'  BY <1>3, <1>4 DEF LocalInv
<1> QED  BY <1>6, <1>7

LEMMA StepWholeFiles ==
    ASSUME IInv, NEW t \in Transfers, Step(t)
    PROVE  WholeFilesOnly'
<1> SUFFICES ASSUME NEW s \in Sides, NEW n \in Names, ~file'[s][n].whole, n[1] # "folder"
             PROVE  \E u \in Transfers : n = Archive(u) /\ s = From(u)'
  BY DEF WholeFilesOnly, Archive
<1>1. Shape /\ Local(t) /\ WholeFilesOnly  BY DEF IInv, LocalInv
<1>2. \A u \in Transfers : From(u)' = From(u)  BY <1>1, OthersWait DEF From
<1>3. Nothing.whole  BY DEF Nothing
<1>4. CASE file'[s][n] = file[s][n]  BY <1>1, <1>2, <1>4 DEF WholeFilesOnly
<1>5. CASE Writes(t) /\ file'[s][n] # file[s][n]
  <2>1. ~FolderWrite(t, s, n)
    <3>1. tr[t].into[1] = "folder"  BY <1>1 DEF Local, NamesInv
    <3> QED  BY <3>1 DEF FolderWrite
  <2>2. ArchiveWrite(t, s, n)  BY <1>5, <2>1 DEF Writes, FileWrite
  <2> QED  BY <1>2, <1>3, <2>2 DEF ArchiveWrite
<1>6. CASE Backed(t) /\ file'[s][n] # file[s][n]
  <2>1. PICK m \in Names : m[1] \notin Transfers \cup {"folder"} /\ file'[s][n] = file[s][m]
    BY <1>1, <1>3, <1>6, BackedContents
  <2>2. PICK u \in Transfers : m = Archive(u)  BY <1>1, <2>1 DEF WholeFilesOnly
  <2>3. m[1] = u  BY <2>2 DEF Archive
  <2> QED  BY <2>1, <2>3
<1> QED  BY <1>1, <1>4, <1>5, <1>6, StepWrites

\* The stages in which a folder upload has a local archive.
HasArchive == {"packing", "listing", "sending", "unpacking"}

LEMMA ArchiveRemoved ==
    ASSUME Shape, NEW t \in Transfers, Local(t), Step(t), job[t].up,
           tr[t].stage \in HasArchive, tr'[t].stage \notin HasArchive
    PROVE  file'["local"][Archive(t)] = Nothing
<1> DEFINE r == tr[t]
<1> DEFINE q == tr'[t]
<1> USE DEF HasArchive
<1>a. ASSUME file' = [file EXCEPT !["local"][Archive(t)] = Nothing]
      PROVE  file'["local"][Archive(t)] = Nothing
  <2>1. PICK n : n = Archive(t)  OBVIOUS
  <2>2. n \in Names /\ file' = [file EXCEPT !["local"][n] = Nothing]  BY <2>1, <1>a, NamesAre
  <2>3. \A x \in Names : file'["local"][x] = IF "local" = "local" /\ x = n THEN Nothing ELSE file["local"][x]
    BY <2>2, OneWrite, Sidewise
  <2> QED  BY <2>1, <2>2, <2>3
<1>1. CASE SftpOpens(t) \/ SftpFails(t) \/ Timeout(t) \/ Upload(t) \/ Download(t) \/ Hashed(t) \/ HashFails(t)
  <2>1. PICK c : c = tr'[t]  OBVIOUS
  <2>2. c.stage = r.stage  BY <1>1, <2>1, FileSteps DEF GoesOn, Frame
  <2> QED  BY <2>1, <2>2
<1>2. CASE Check(t)
  <2>1. ASSUME NEW name, proceed(t, name) PROVE q.stage = r.stage  BY <2>1, ProceedFields
  <2>2. ASSUME NEW o, refuse(t, o) PROVE q.stage = r.stage  BY <2>2, RefuseFields
  <2>3. ASSUME Waits(t) PROVE q.stage = r.stage  BY <2>3, Jobs DEF Waits, Frame
  <2>4. Proceeds(t) \/ Refuses(t) \/ Waits(t) \/ Backed(t)  BY <1>2, Checks
  <2> QED  BY <2>1, <2>2, <2>3, <2>4 DEF Proceeds, Refuses, Backed
<1>3. CASE Tree(t) \/ TreeOpenTimesOut(t) \/ MemberSent(t)
  BY <1>3 DEF Tree, TreeMade, TreeFails, TreeOpens, TreeOpenFails, TreeOpenTimesOut, MemberSent
<1>4. CASE Begin(t) \/ LoseChannel(t) \/ KillStray(t)  BY <1>4, Jobs DEF Begin, LoseChannel, KillStray
<1>5. CASE MakeDirectory(t) \/ Cleaned(t)  BY <1>5 DEF MakeDirectory, Cleaned
<1>6. CASE Packed(t) \/ PackFails(t)  BY <1>6, Jobs DEF Packed, PackFails
<1>7. CASE PackFailsAgain(t) \/ ListFails(t)  BY <1>7, <1>a DEF PackFailsAgain, ListFails, clean
<1>8. CASE Listed(t)  BY <1>8, Jobs DEF Listed
<1>9. CASE Sent(t)
  <2>1. CASE clean(t, "failed")  BY <2>1, <1>a DEF clean
  <2>2. CASE startUnpacking(t)  BY <2>2, Jobs DEF startUnpacking
  <2> QED  BY <1>9, <2>1, <2>2 DEF Sent
<1>10. CASE Unpacked(t)
  <2>1. PICK c : c = [of |-> t, whole |-> /\ file[To(t)][r.into].of = t
                                         /\ file[To(t)][Archive(t)] = [of |-> t, whole |-> TRUE]]
    OBVIOUS
  <2>2. PICK g : g = [file EXCEPT ![To(t)][r.into] = c]  OBVIOUS
  <2>3. file' = [g EXCEPT !["local"][Archive(t)] = Nothing]  BY <2>1, <2>2, <1>10 DEF Unpacked
  <2>4. DOMAIN g = Sides /\ \A s \in Sides : DOMAIN g[s] = Names
    <3>1. PICK a, n : a = To(t) /\ n = r.into  OBVIOUS
    <3>2. a \in Sides /\ g = [file EXCEPT ![a][n] = c]  BY <2>2, <3>1, Sidewise
    <3> QED  BY <3>2, OneWrite
  <2> QED  BY <2>3, <2>4, Sidewise, NamesAre
<1>11. CASE UnpackFails(t)
  <2>1. CASE tr' = [tr EXCEPT ![t].again = TRUE]  BY <2>1, Jobs
  <2>2. CASE file' = [file EXCEPT !["local"][Archive(t)] = Nothing]  BY <2>2, <1>a
  <2> QED  BY <1>11, <2>1, <2>2 DEF UnpackFails
<1> QED  BY <1>1, <1>2, <1>3, <1>4, <1>5, <1>6, <1>7, <1>8, <1>9, <1>10, <1>11 DEF Step, Folder

LEMMA StepArchives ==
    ASSUME Shape, LocalInv, ArchiveInv, NEW t \in Transfers, Step(t)
    PROVE  ArchiveInv'
<1> SUFFICES ASSUME NEW u \in Transfers, job'[u].up, tr'[u].stage \notin HasArchive
             PROVE  file'["local"][Archive(u)] = Nothing
  BY DEF ArchiveInv, HasArchive, Archive
<1>1. job'[u] = job[u] /\ Local(t)  BY OthersWait DEF LocalInv
<1>2. Archive(u) \in Names /\ Archive(u)[1] = u  BY NamesAre DEF Archive
<1>3. PICK n : n = Archive(u)  OBVIOUS
<1>4. n \in Names /\ n[1] = u  BY <1>2, <1>3
<1>5. ~FolderWrite(t, "local", n)
  <2>1. tr[t].into[1] = "folder"  BY <1>1 DEF Local, NamesInv
  <2> QED  BY <1>4, <2>1, MembersAssumption DEF FolderWrite
<1>6. FileWrite(t, "local", n) => u = t /\ ~job[t].up
  <2>1. SUFFICES ASSUME FileWrite(t, "local", n) PROVE u = t /\ ~job[t].up  OBVIOUS
  <2>2. ~job[t].up  BY <2>1 DEF FileWrite, To
  <2>3. \/ tr[t].target \in {"file"} \X {""} \X Plain
        \/ tr[t].target \in MemberNames \X Plain \X Plain
        \/ tr[t].target = Archive(t)
    BY <2>1, <1>1 DEF FileWrite, Local, NamesInv
  <2>4. n = tr[t].target  BY <2>1 DEF FileWrite
  <2>5. CASE n \in {"file"} \X {""} \X Plain  BY <2>5, <1>4, MembersAssumption
  <2>6. CASE n \in MemberNames \X Plain \X Plain  BY <2>6, <1>4, MembersAssumption
  <2>7. CASE n = Archive(t)
    <3>1. n[1] = t  BY <2>7 DEF Archive
    <3> QED  BY <3>1, <1>4, <2>2
  <2> QED  BY <2>3, <2>4, <2>5, <2>6, <2>7
<1>7. ArchiveWrite(t, "local", n) => u = t
  <2>1. ASSUME n = Archive(t) PROVE u = t
    <3>1. n[1] = t  BY <2>1 DEF Archive
    <3> QED  BY <3>1, <1>4
  <2> QED  BY <2>1 DEF ArchiveWrite
<1>8. \/ file'["local"][n] = file["local"][n]
      \/ u = t /\ (ArchiveWrite(t, "local", n) \/ ~job[t].up)
  <2>1. CASE Writes(t)  BY <2>1, <1>4, <1>5, <1>6, <1>7, Sidewise DEF Writes
  <2>2. CASE Backed(t)  BY <2>2, <1>1, <1>4, BackedContents, Sidewise
  <2> QED  BY <1>1, <2>1, <2>2, StepWrites
<1>9. CASE u # t
  <2>1. tr'[u] = tr[u]  BY <1>9, OthersWait
  <2> QED  BY <2>1, <1>1, <1>3, <1>8, <1>9 DEF ArchiveInv, HasArchive
<1>10. CASE u = t /\ tr[t].stage \in HasArchive  BY <1>1, <1>10, ArchiveRemoved
<1>11. CASE u = t /\ tr[t].stage \notin HasArchive
  <2>1. ArchiveWrite(t, "local", n) => file'["local"][n] = Nothing  BY <1>11 DEF ArchiveWrite, HasArchive
  <2> QED  BY <2>1, <1>1, <1>3, <1>8, <1>11 DEF ArchiveInv, HasArchive
<1> QED  BY <1>9, <1>10, <1>11

-----------------------------------------------------------------------------
LEMMA InitIInv == Init => IInv
<1> SUFFICES ASSUME Init PROVE IInv  OBVIOUS
<1>1. Shape  BY DEF Init, Shape
<1>2. ASSUME NEW t \in Transfers PROVE Local(t)
  <2>1. job[t].up \in BOOLEAN /\ job[t].folder \in BOOLEAN /\ job[t].tree \in BOOLEAN
        /\ (job[t].tree => job[t].folder)
    BY <1>1, Jobs
  <2>2. PICK r : r = tr[t]  OBVIOUS
  <2>3. /\ r.stage = IF job[t].tree /\ job[t].up THEN "tree" ELSE IF job[t].folder THEN "target" ELSE "file"
        /\ r.into = <<"folder", "", "">> /\ r.member = 0
        /\ Now(r, "idle", "none", "none", "absent", FALSE)
    BY <2>2 DEF Init, Now
  <2>4. StageInv(r, job[t])  BY <2>1, <2>3 DEF StageInv, Now
  <2>5. FileInv(r, job[t])
    <3>1. r.stage \in {"tree", "target", "file"} /\ r.pc = "idle" /\ r.sftp = "none" /\ r.staging = "absent"
      BY <2>3 DEF Now
    <3>2. r.settled = FALSE  BY <2>3 DEF Now
    <3> QED  BY <3>1, <3>2, SMT DEF FileInv
  <2>6. NamesInv(t, r, job[t])
    <3>1. <<"folder", "", "">> \in {"folder"} \X {""} \X Plain  OBVIOUS
    <3>2. ~InFlight(r)  BY <2>3 DEF InFlight, Now
    <3> QED  BY <3>1, <3>2, <2>3 DEF NamesInv
  <2> QED  BY <2>2, <2>4, <2>5, <2>6 DEF Local
<1>3. \A s \in Sides, n \in Names : file[s][n].whole  BY DEF Init, Nothing
<1>4. \A s \in Sides, t \in Transfers : file[s][Archive(t)] = Nothing
  <2> SUFFICES ASSUME NEW s \in Sides, NEW t \in Transfers PROVE file[s][Archive(t)] = Nothing  OBVIOUS
  <2>1. PICK n : n = Archive(t)  OBVIOUS
  <2>2. n[1] = t /\ n \in Names  BY <2>1, NamesAre DEF Archive
  <2> QED  BY <2>1, <2>2 DEF Init
<1> QED  BY <1>1, <1>2, <1>3, <1>4, Sidewise DEF IInv, LocalInv, WholeFilesOnly, ArchiveInv

LEMMA StepIInv == IInv /\ [Next]_vars => IInv'
<1> SUFFICES ASSUME IInv, [Next]_vars PROVE IInv'  OBVIOUS
<1>1. CASE Next
  <2>1. PICK t \in Transfers : Step(t)  BY <1>1 DEF Next, Step
  <2>2. Shape' /\ LocalInv' /\ ArchiveInv'  BY <2>1, StepShape, StepArchives DEF IInv
  <2>3. WholeFilesOnly'  BY <2>1, StepWholeFiles
  <2> QED  BY <2>2, <2>3 DEF IInv
<1>2. CASE UNCHANGED vars
  BY <1>2 DEF IInv, vars, Shape, LocalInv, Local, ArchiveInv, Archive, WholeFilesOnly, From
<1> QED  BY <1>1, <1>2

LEMMA SpecIInv == Spec => []IInv
<1> QED  BY InitIInv, StepIInv, PTL DEF Spec

\* A name that is not an archive's, nor a directory's, never has a part of a file: the
\* rename to it is sent only when the staging file is whole.
THEOREM WholeFiles == Spec => []WholeFilesOnly
<1>1. IInv => WholeFilesOnly  BY DEF IInv
<1> QED  BY <1>1, SpecIInv, PTL

\* Whatever settles a transfer, or ends that of a folder, has ended the channel.
THEOREM ChannelsAreReleased == Spec => []SettledReleasesChannel
<1>1. IInv => SettledReleasesChannel  BY DEF IInv, LocalInv, Local, FileInv, SettledReleasesChannel
<1> QED  BY <1>1, SpecIInv, PTL

\* Staging files of downloads and archives of folder uploads do not stay behind here.
THEOREM NothingStaysLocally == Spec => []NothingLeftLocally
<1>1. IInv => NothingLeftLocally
  BY DEF IInv, LocalInv, Local, FileInv, ArchiveInv, NothingLeftLocally
<1> QED  BY <1>1, SpecIInv, PTL

-----------------------------------------------------------------------------
(* The old content survives: what is written at which names.                 *)
LEMMA TargetNames ==
    ASSUME NEW t \in Transfers, Local(t), InFlight(tr[t]), NEW a, a = tr[t].target
    PROVE  /\ a \in Names /\ a[2] \in Plain /\ a[3] \in Plain
           /\ IF ~job[t].folder THEN a[1] = "file"
              ELSE IF job[t].tree THEN a[1] \in MemberNames ELSE a = Archive(t)
<1>1. CASE ~job[t].folder
  <2>1. a \in {"file"} \X {""} \X Plain  BY <1>1 DEF Local, NamesInv
  <2>2. a[1] = "file" /\ a[2] = "" /\ a[3] \in Plain  BY <2>1
  <2>3. a \in {"file", "folder"} \X {""} \X Suffixes  BY <2>1, AllSuffixes
  <2> QED  BY <2>2, <2>3, <1>1 DEF Names
<1>2. CASE job[t].folder /\ job[t].tree
  <2>1. a \in MemberNames \X Plain \X Plain  BY <1>2 DEF Local, NamesInv
  <2>2. a[1] \in MemberNames /\ a[2] \in Plain /\ a[3] \in Plain  BY <2>1
  <2>3. a \in MemberNames \X Suffixes \X Suffixes  BY <2>1, AllSuffixes
  <2> QED  BY <2>2, <2>3, <1>2 DEF Names
<1>3. CASE job[t].folder /\ ~job[t].tree
  <2>1. a = Archive(t)  BY <1>3 DEF Local, NamesInv
  <2>2. PICK n : n = Archive(t)  OBVIOUS
  <2>3. n[2] = "" /\ n[3] = "" /\ n \in Names  BY <2>2, NamesAre DEF Archive
  <2> QED  BY <2>1, <2>2, <2>3, <1>3
<1> QED  BY <1>1, <1>2, <1>3

LEMMA IntoNames ==
    ASSUME NEW t \in Transfers, Local(t), NEW a, a = tr[t].into
    PROVE  a \in Names /\ a[1] = "folder" /\ a[2] = "" /\ a[3] \in Plain
<1>1. a \in {"folder"} \X {""} \X Plain  BY DEF Local, NamesInv
<1>2. a[1] = "folder" /\ a[2] = "" /\ a[3] \in Plain  BY <1>1
<1>3. a \in {"file", "folder"} \X {""} \X Suffixes  BY <1>1, AllSuffixes
<1> QED  BY <1>2, <1>3 DEF Names

\* Where a transfer goes when its target has been moved, or not.
LEMMA BackedFields ==
    ASSUME Shape, NEW t \in Transfers, Backed(t), NEW q, q = tr'[t], NEW r, r = tr[t]
    PROVE  /\ q.member = r.member
           /\ IF r.stage = "target"
              THEN /\ q.stage # "target" /\ q.pc = "idle"
                   /\ q.stage \in ArchiveStages \ {"cleaning"} => q.into = Asked(t)
              ELSE /\ q.stage = r.stage /\ q.into = r.into
                   /\ q.pc = "over" \/ (q.pc = "opening" /\ q.target = Asked(t))
<1>1. CASE proceed(t, Asked(t))  BY <1>1, ProceedFields
<1>2. CASE refuse(t, "failed")  BY <1>2, RefuseFields DEF Now
<1> QED  BY <1>1, <1>2 DEF Backed

\* Old content comes to no name but that of a backup.
LEMMA OldStays ==
    ASSUME Shape, NEW t \in Transfers, Local(t), Step(t), NEW s \in Sides, NEW n \in Names,
           OldAt(s, n)', n[2] # ".bak", n[3] # ".bak"
    PROVE  OldAt(s, n)
<1> SUFFICES ASSUME file'[s][n] # file[s][n] PROVE FALSE  BY DEF OldAt
<1>1. file'[s][n].of = Before  BY DEF OldAt
<1>2. t # Before /\ Nothing.of # Before  BY OwnersAssumption DEF Nothing
<1>3. CASE Writes(t)  BY <1>1, <1>2, <1>3 DEF Writes, ArchiveWrite, FolderWrite, FileWrite
<1>4. CASE Backed(t) /\ tr[t].stage = "target"
  <2>1. n = <<"folder", "", ".bak">> \/ (n[1] \in MemberNames /\ n[2] = ".bak")
    BY <1>1, <1>2, <1>4, FolderBacked
  <2>2. ASSUME n = <<"folder", "", ".bak">> PROVE FALSE
    <3>1. n[3] = ".bak"  BY <2>2
    <3> QED  BY <3>1
  <2> QED  BY <2>1, <2>2
<1>5. CASE Backed(t) /\ tr[t].stage # "target"
  <2>1. PICK p \in {"file"} \cup MemberNames, x \in Plain : FileMoved(t, p, x)  BY <1>5, FileBacked
  <2>2. n = <<p, x, ".bak">>  BY <1>1, <1>2, <2>1 DEF FileMoved
  <2> QED  BY <2>2
<1> QED  BY <1>3, <1>4, <1>5, StepWrites

LEMMA StepArchivesAreNew ==
    ASSUME Shape, ArchivesAreNew, NEW t \in Transfers, Local(t), Step(t)
    PROVE  ArchivesAreNew'
<1> SUFFICES ASSUME NEW s \in Sides, NEW u \in Transfers, OldAt(s, Archive(u))' PROVE FALSE
  BY DEF ArchivesAreNew
<1>1. PICK n : n = Archive(u)  OBVIOUS
<1>2. n \in Names /\ n[2] = "" /\ n[3] = ""  BY <1>1, NamesAre DEF Archive
<1>3. OldAt(s, n)'  BY <1>1 DEF OldAt, Archive
<1> QED  BY <1>1, <1>2, <1>3, OldStays DEF ArchivesAreNew

\* A transfer comes to a target, or a folder to its place, through the check; its archive
\* needs none.
LEMMA NewTargets ==
    ASSUME Shape, NEW t \in Transfers, Local(t), Step(t), ~Check(t), NEW q, q = tr'[t], NEW r, r = tr[t]
    PROVE  /\ InFlight(q) => (InFlight(r) /\ q.target = r.target) \/ q.target = Archive(t)
           /\ q.stage \in ArchiveStages \ {"cleaning"} =>
                r.stage \in ArchiveStages \ {"cleaning"} /\ q.into = r.into
<1> DEFINE Same == q.target = r.target /\ q.pc = r.pc /\ q.settled = r.settled
<1>0. DOMAIN r = Fields /\ DOMAIN tr = Transfers  BY Jobs
<1>1. CASE SftpOpens(t) \/ SftpFails(t) \/ Timeout(t) \/ Upload(t) \/ Download(t) \/ Hashed(t) \/ HashFails(t)
  BY <1>1, FileSteps DEF GoesOn, Frame
<1>2. CASE Begin(t)
  BY <1>0, <1>2 DEF Begin, InFlight
<1>3. CASE LoseChannel(t) \/ KillStray(t)
  <2>1. Same /\ q.stage = r.stage /\ q.into = r.into  BY <1>0, <1>3 DEF LoseChannel, KillStray
  <2> QED  BY <2>1 DEF InFlight
<1>4. CASE Tree(t) \/ TreeOpenTimesOut(t) \/ MemberSent(t)
  <2>1. q.stage \notin ArchiveStages
    <3>1. PICK b \in BOOLEAN : b = TRUE  OBVIOUS
    <3>2. DOMAIN q = Fields /\ StageInv(q, job[t]) /\ StageInv(r, job[t])  BY <1>4, TreeSteps DEF Local
    <3>3. job[t].tree  BY <1>4, <3>2 DEF StageInv, Tree, TreeMade, TreeFails, TreeOpens, TreeOpenFails,
                                         TreeOpenTimesOut, MemberSent
    <3> QED  BY <3>2, <3>3 DEF StageInv
  <2>2. InFlight(q) => InFlight(r) /\ q.target = r.target
    <3>1. ASSUME NEW o, q = treeEnds(t, o) PROVE Same
      BY <3>1, <1>0, EndFields DEF Frame, Now
    <3>2. ASSUME q = nextMember(t) PROVE q.pc = "checking"  BY <3>2, <1>0 DEF nextMember
    <3>3. ASSUME NEW o, q = [treeEnds(t, o) EXCEPT !.pc = "opening", !.settled = TRUE]
          PROVE  q.pc = "opening" /\ q.settled
      BY <3>3, <1>0 DEF treeEnds
    <3>4. CASE TreeOpens(t)
      <4>1. Same  BY <3>4, <1>0 DEF TreeOpens
      <4> QED  BY <4>1 DEF InFlight
    <3>5. CASE TreeOpenFails(t) \/ TreeFails(t)
      <4>1. q = treeEnds(t, "failed")  BY <3>5, <1>0 DEF TreeOpenFails, TreeFails
      <4> QED  BY <4>1, <3>1 DEF InFlight
    <3>6. CASE TreeOpenTimesOut(t)
      <4>1. q.pc = "opening" /\ q.settled  BY <3>6, <3>3, <1>0 DEF TreeOpenTimesOut
      <4> QED  BY <4>1 DEF InFlight
    <3>7. CASE TreeMade(t)
      <4>1. CASE job[t].up /\ ~r.again
        <5>1. Same  BY <4>1, <3>7, <1>0 DEF TreeMade
        <5> QED  BY <5>1 DEF InFlight
      <4>2. CASE ~(job[t].up /\ ~r.again)
        <5>1. q = nextMember(t)  BY <4>2, <3>7, <1>0 DEF TreeMade
        <5> QED  BY <5>1, <3>2 DEF InFlight
      <4> QED  BY <4>1, <4>2
    <3>8. CASE MemberSent(t)
      <4>1. (\E o : q = treeEnds(t, o)) \/ q = nextMember(t)
        <5>1. CASE r.outcome \notin {"done", "skipped"}  BY <5>1, <3>8, <1>0 DEF MemberSent
        <5>2. CASE r.outcome \in {"done", "skipped"} /\ r.member < Len(Members)
          BY <5>2, <3>8, <1>0 DEF MemberSent
        <5>3. CASE r.outcome \in {"done", "skipped"} /\ ~(r.member < Len(Members))
          BY <5>3, <3>8, <1>0 DEF MemberSent
        <5> QED  BY <5>1, <5>2, <5>3
      <4> QED  BY <4>1, <3>1, <3>2 DEF InFlight
    <3> QED  BY <1>4, <3>4, <3>5, <3>6, <3>7, <3>8 DEF Tree
  <2> QED  BY <2>1, <2>2
<1>5. CASE Folder(t) /\ ~KillStray(t) /\ ~Packed(t) /\ ~Listed(t)
  <2>1. ASSUME clean(t, "failed") PROVE Same /\ q.stage = "cleaning"  BY <2>1, <1>0 DEF clean
  <2>2. ASSUME startUnpacking(t) PROVE Same /\ q.into = r.into  BY <2>2, <1>0 DEF startUnpacking
  <2>3. ASSUME NEW x, tr' = [tr EXCEPT ![t].stage = x] PROVE Same /\ q.into = r.into /\ q.stage = x
    BY <2>3, <1>0
  <2>4. CASE MakeDirectory(t)  BY <2>4, <2>1, <2>3 DEF MakeDirectory, InFlight
  <2>5. CASE PackFails(t)
    <3>1. Same /\ q.into = r.into /\ q.stage = r.stage  BY <2>5, <1>0 DEF PackFails
    <3> QED  BY <3>1 DEF InFlight
  <2>6. CASE PackFailsAgain(t) \/ ListFails(t)  BY <2>6, <2>1 DEF PackFailsAgain, ListFails, InFlight
  <2>7. CASE Sent(t)  BY <2>7, <2>1, <2>2, <2>3 DEF Sent, InFlight
  <2>8. CASE Unpacked(t) \/ Cleaned(t)
    <3>1. Same /\ q.stage \notin ArchiveStages \ {"cleaning"}  BY <2>8, <1>0 DEF Unpacked, Cleaned
    <3> QED  BY <3>1 DEF InFlight
  <2>9. CASE UnpackFails(t)
    <3>1. Same /\ q.into = r.into /\ r.stage = "unpacking"  BY <2>9, <1>0 DEF UnpackFails
    <3> QED  BY <3>1 DEF InFlight
  <2> QED  BY <1>5, <2>4, <2>5, <2>6, <2>7, <2>8, <2>9 DEF Folder
<1>6. CASE Packed(t)
  <2>1. r.stage = "packing" /\ q.into = r.into /\ (Same \/ q.target = Archive(t))
    BY <1>6, <1>0 DEF Packed
  <2> QED  BY <2>1 DEF InFlight
<1>7. CASE Listed(t)
  <2>1. r.stage = "listing" /\ q.into = r.into /\ (Same \/ q.pc = "checking")
    BY <1>7, <1>0 DEF Listed, startUnpacking
  <2> QED  BY <2>1 DEF InFlight
<1> QED  BY <1>1, <1>2, <1>3, <1>4, <1>5, <1>6, <1>7 DEF Step

\* What the check lets a transfer write is free, or it overwrites.
LEMMA CheckIsClear ==
    ASSUME Shape, ArchivesAreNew, NEW t \in Transfers, Local(t), Check(t), ~Overwrites(t),
           NEW q, q = tr'[t]
    PROVE  /\ InFlight(q) => ~OldAt(To(t), q.target)'
           /\ q.stage \in ArchiveStages \ {"cleaning"} =>
                \/ ~OldAt(To(t), q.into)'
                \/ tr[t].stage \in ArchiveStages \ {"cleaning"} /\ q.into = tr[t].into
<1> DEFINE r == tr[t]
<1>0. To(t)' = To(t) /\ Step(t)  BY OthersWait DEF To, Step
<1>1. r.pc \in Choosing /\ r.stage \in {"file", "target", "member", "sending"} /\ ~r.settled
  <2>1. r.pc \in Choosing  BY Checks
  <2> QED  BY <2>1 DEF Local, FileInv
<1>2. CASE Proceeds(t)
  <2>1. PICK name : /\ NameFor(t, name) /\ proceed(t, name) /\ UNCHANGED file
                    /\ ~Exists(t, name) \/ Strategy(t) = "overwrite"
    BY <1>2 DEF Proceeds
  <2>2. ~OldAt(To(t), name)
    <3>1. CASE ~Exists(t, name)  BY <3>1, OwnersAssumption DEF Exists, OldAt
    <3>2. CASE Strategy(t) = "overwrite"
      <4>1. r.stage = "sending"  BY <3>2 DEF Strategy, Overwrites
      <4>2. PICK a : a = Archive(t)  OBVIOUS
      <4>3. name = WithSuffix(a, "")  BY <4>1, <4>2, <2>1 DEF NameFor, Asked
      <4>4. name = a  BY <4>2, <4>3 DEF WithSuffix, Archive
      <4> QED  BY <4>2, <4>4, Sidewise DEF ArchivesAreNew
    <3> QED  BY <2>1, <3>1, <3>2
  <2>3. /\ q.stage = "target" => FALSE
        /\ IF r.stage = "target" THEN q.pc = "idle" /\ q.into = name
           ELSE q.stage = r.stage /\ q.into = r.into /\ q.target = name
    BY <2>1, ProceedFields
  <2>4. ~OldAt(To(t), name)'  BY <2>1, <2>2, <1>0 DEF OldAt
  <2> QED  BY <2>3, <2>4, <1>0, <1>1 DEF InFlight, OldAt
<1>3. CASE Refuses(t)
  <2>1. PICK o : refuse(t, o)  BY <1>3 DEF Refuses
  <2>2. IF r.stage = "target" THEN q.pc = "idle" /\ q.stage \in {"returned", "cleaning"}
        ELSE q.pc = "over" /\ q.stage = r.stage /\ q.into = r.into
    BY <2>1, RefuseFields DEF Now
  <2> QED  BY <2>2, <1>1 DEF InFlight
<1>4. CASE Waits(t)
  <2>1. q.pc \in {"moving", "naming"} /\ q.stage = r.stage /\ r.stage # "sending"
    BY <1>4, Jobs DEF Waits, Frame
  <2> QED  BY <2>1, <1>1 DEF InFlight
<1>5. CASE Backed(t)
  <2>1. r.stage # "sending" /\ r.stage \in {"file", "target", "member"}  BY <1>5, <1>1 DEF Backed
  <2>2. PICK a : a = Asked(t)  OBVIOUS
  <2>3. file'[To(t)][a] = Nothing
    <3>1. CASE r.stage = "target"
      <4>1. a = <<"folder", "", "">>  BY <3>1, <2>2 DEF Asked
      <4>2. a \in Names  BY <4>1, NamesAre
      <4> QED  BY <4>1, <4>2, <3>1, <1>5, FolderBacked, Sidewise
    <3>2. CASE r.stage # "target"
      <4>1. PICK p \in {"file"} \cup MemberNames, x \in Plain :
              PlaceOfFile(t, p, x) /\ Asked(t) = <<p, x, "">> /\ FileMoved(t, p, x)
        BY <3>2, <1>5, FileBacked
      <4>2. PlaceOfFile(t, p, x) => p \in MemberNames \/ (p = "file" /\ x = "")
        BY DEF PlaceOfFile, MemberNames
      <4>3. a = <<p, x, "">> /\ a \in Names  BY <4>1, <4>2, <2>2, NamesAre
      <4> QED  BY <4>1, <4>3, Sidewise DEF FileMoved
    <3> QED  BY <3>1, <3>2
  <2>4. ~OldAt(To(t), a)'  BY <2>3, <1>0, OwnersAssumption DEF OldAt, Nothing
  <2>5. IF r.stage = "target"
        THEN q.pc = "idle" /\ (q.stage \in ArchiveStages \ {"cleaning"} => q.into = a)
        ELSE q.stage = r.stage /\ (q.pc = "over" \/ q.target = a)
    BY <1>5, <2>2, BackedFields
  <2> QED  BY <2>1, <2>4, <2>5, <1>0 DEF InFlight, OldAt
<1> QED  BY <1>2, <1>3, <1>4, <1>5, Checks

LEMMA StepClear ==
    ASSUME Shape, LocalInv, ArchivesAreNew, ClearInv, NEW t \in Transfers, Step(t)
    PROVE  ClearInv'
<1> SUFFICES ASSUME NEW u \in Transfers, ~Overwrites(u)', NEW q, q = tr'[u]
             PROVE  /\ InFlight(q) => ~OldAt(To(u), q.target)'
                    /\ q.stage \in ArchiveStages \ {"cleaning"} => ~OldAt(To(u), q.into)'
  <2>1. ASSUME NEW u \in Transfers, ~Overwrites(u)'
        PROVE  /\ InFlight(tr[u])' => ~OldAt(To(u), tr[u].target)'
               /\ tr'[u].stage \in ArchiveStages \ {"cleaning"} => ~OldAt(To(u), tr[u].into)'
    <3>1. PICK q : q = tr'[u]  OBVIOUS
    <3>2. /\ InFlight(q) => ~OldAt(To(u), q.target)'
          /\ q.stage \in ArchiveStages \ {"cleaning"} => ~OldAt(To(u), q.into)'
      BY <2>1, <3>1
    <3> QED  BY <3>1, <3>2 DEF InFlight, OldAt
  <2> QED  BY <2>1 DEF ClearInv
<1>0. /\ To(u)' = To(u) /\ To(u) \in Sides /\ Local(u) /\ Local(t) /\ ~Overwrites(u)
      /\ \A v \in Transfers \ {t} : tr'[v] = tr[v]
  BY OthersWait, Sidewise DEF To, LocalInv, Overwrites
<1> DEFINE r == tr[u]
<1>1. ASSUME InFlight(r), q.target = r.target PROVE ~OldAt(To(u), q.target)'
  <2>1. ~OldAt(To(u), q.target)  BY <1>0, <1>1 DEF ClearInv
  <2>2. q.target \in Names /\ q.target[2] \in Plain /\ q.target[3] \in Plain  BY <1>0, <1>1, TargetNames
  <2> QED  BY <2>1, <2>2, <1>0, OldStays DEF OldAt
<1>2. ASSUME r.stage \in ArchiveStages \ {"cleaning"}, q.into = r.into PROVE ~OldAt(To(u), q.into)'
  <2>1. ~OldAt(To(u), q.into)  BY <1>0, <1>2 DEF ClearInv
  <2>2. q.into \in Names /\ q.into[2] = "" /\ q.into[3] \in Plain  BY <1>0, <1>2, IntoNames
  <2> QED  BY <2>1, <2>2, <1>0, OldStays DEF OldAt
<1>3. CASE u # t  BY <1>3, <1>0, <1>1, <1>2
<1>4. CASE u = t /\ ~Check(t)
  <2>1. ~OldAt(To(u), Archive(u))'
    <3>1. ArchivesAreNew'  BY <1>0, StepArchivesAreNew
    <3> QED  BY <3>1, <1>0 DEF ArchivesAreNew, OldAt, Archive
  <2>2. /\ InFlight(q) => (InFlight(r) /\ q.target = r.target) \/ q.target = Archive(u)
        /\ q.stage \in ArchiveStages \ {"cleaning"} =>
             r.stage \in ArchiveStages \ {"cleaning"} /\ q.into = r.into
    BY <1>0, <1>4, NewTargets
  <2>3. q.target = Archive(u) => ~OldAt(To(u), q.target)'  BY <2>1 DEF OldAt, Archive
  <2> QED  BY <2>2, <2>3, <1>1, <1>2
<1>5. CASE u = t /\ Check(t)  BY <1>5, <1>0, <1>2, CheckIsClear
<1> QED  BY <1>3, <1>4, <1>5

\* Names that are no transfer's target, and no folder's place, change by a backup only.
LEMMA BackupNames ==
    ASSUME Shape, NEW t \in Transfers, Local(t), Step(t), NEW s \in Sides, NEW n \in Names,
           n[1] \notin Transfers, n[2] = ".bak" \/ n[3] = ".bak",
           file'[s][n] # file[s][n]
    PROVE  Backed(t)
<1>1. SUFFICES ASSUME Writes(t) PROVE FALSE  BY StepWrites
<1>2. n # Archive(t)
  <2>1. PICK a : a = Archive(t)  OBVIOUS
  <2>2. a[1] = t  BY <2>1 DEF Archive
  <2> QED  BY <2>1, <2>2
<1>3. n # tr[t].into  BY IntoNames
<1>4. ~(n = tr[t].target /\ InFlight(tr[t]))  BY TargetNames
<1> QED  BY <1>1, <1>2, <1>3, <1>4 DEF Writes, ArchiveWrite, FolderWrite, FileWrite

\* What is ahead of a transfer after a step was ahead of it before.
LEMMA NothingComesBack ==
    ASSUME Shape, LocalInv, NEW t \in Transfers, Step(t), NEW u \in Transfers
    PROVE  /\ job'[u] = job[u] /\ To(u)' = To(u) /\ Backs(u)' = Backs(u)
           /\ Follows(tr'[u], tr[u], job[u])
<1>1. /\ job'[u] = job[u] /\ To(u)' = To(u) /\ Backs(u)' = Backs(u)
      /\ \A v \in Transfers \ {t} : tr'[v] = tr[v]
  BY OthersWait DEF To, Backs
<1>2. CASE u = t
  <2>1. PICK q : q = tr'[t]  OBVIOUS
  <2>2. Follows(q, tr[t], job[t])  BY <2>1, TransferSteps DEF LocalInv
  <2> QED  BY <1>1, <1>2, <2>1, <2>2
<1>3. CASE u # t
  <2>1. tr'[u] = tr[u]  BY <1>1, <1>3
  <2>2. Follows(tr[u], tr[u], job[u])  BY DEF Follows
  <2> QED  BY <1>1, <2>1, <2>2
<1> QED  BY <1>2, <1>3

\* A folder that was backed up had a move ahead of it, and has none now.
LEMMA BackedFolder ==
    ASSUME Shape, NEW t \in Transfers, Local(t), Backed(t), tr[t].stage = "target"
    PROVE  /\ job[t].folder /\ Backs(t)
           /\ MayMoveTarget(tr[t]) /\ ~MayMoveTarget(tr'[t])
<1>1. PICK q, r : q = tr'[t] /\ r = tr[t]  OBVIOUS
<1>2. q.stage # "target"  BY <1>1, BackedFields
<1>3. job[t].folder  BY Jobs DEF Local, StageInv
<1> QED  BY <1>1, <1>2, <1>3 DEF Backed, MayMoveTarget

\* The same for a file, or a member of a tree.
LEMMA BackedFile ==
    ASSUME Shape, NEW t \in Transfers, Local(t), Backed(t), NEW p, NEW x, PlaceOfFile(t, p, x)
    PROVE  /\ job[t].folder = (p # "file") /\ Backs(t)
           /\ MayMove(tr[t], p) /\ ~MayMove(tr'[t], p)
<1>1. PICK q, r : q = tr'[t] /\ r = tr[t]  OBVIOUS
<1>2. r.stage # "target"  BY <1>1 DEF PlaceOfFile
<1>3. q.stage = r.stage /\ q.member = r.member /\ q.pc \in {"over", "opening"}
  BY <1>1, <1>2, BackedFields
<1>4. r.pc \in {"checking", "moving"} /\ Backs(t)  BY <1>1 DEF Backed
<1>5. CASE r.stage = "file"
  <2>1. ~job[t].folder /\ p = "file"  BY <1>1, <1>5 DEF PlaceOfFile
  <2>2. MayMove(r, p)  BY <1>4, <1>5 DEF MayMove
  <2>3. ~MayMove(q, p)  BY <1>3, <1>5 DEF MayMove, MayMoveTarget
  <2> QED  BY <1>1, <1>4, <2>1, <2>2, <2>3, Jobs
<1>6. CASE r.stage = "member"
  <2>1. job[t].folder /\ r.member \in DOMAIN Members /\ p = Members[r.member]
    BY <1>1, <1>6 DEF PlaceOfFile
  <2>2. p # "file"  BY <2>1, MembersAssumption DEF MemberNames
  <2>3. MayMove(r, p)  BY <1>4, <1>6, <2>1 DEF MayMove
  <2>4. ASSUME MayMove(q, p) PROVE FALSE
    <3>1. PICK k \in DOMAIN Members :
            Members[k] = p /\ (k > r.member \/ (k = r.member /\ q.pc \in {"checking", "moving"}))
      BY <2>4, <1>3, <1>6 DEF MayMove, MayMoveTarget
    <3>2. k = r.member  BY <3>1, <2>1, MembersAssumption
    <3> QED  BY <3>1, <3>2, <2>1, <1>3, MembersAreNumbered
  <2> QED  BY <1>1, <1>4, <2>1, <2>2, <2>3, <2>4, Jobs
<1> QED  BY <1>1, <1>5, <1>6 DEF PlaceOfFile

LEMMA StepFree ==
    ASSUME Shape, LocalInv, FreeInv, NEW t \in Transfers, Step(t)
    PROVE  FreeInv'
<1> DEFINE b == <<"folder", "", ".bak">>
<1> DEFINE Alone(u) == \A v \in Users(To(u), "folder") : Backs(v) => v = u
<1> SUFFICES ASSUME NEW u \in Transfers, Backs(u)', MayMoveTarget(tr[u])', Alone(u)'
             PROVE  file'[To(u)'][b].of = Nobody
  BY DEF FreeInv
<1>1. /\ Backs(u) /\ MayMoveTarget(tr[u]) /\ To(u)' = To(u) /\ To(u) \in Sides
      /\ Local(t)
  BY NothingComesBack, Sidewise DEF Follows, LocalInv, MayMoveTarget
<1>2. Users(To(u), "folder")' = Users(To(u), "folder")
  BY <1>1, NothingComesBack DEF Users
<1>3. Alone(u)
  <2>1. \A v \in Users(To(u), "folder") : v \in Transfers  BY DEF Users
  <2> QED  BY <1>2, <2>1, NothingComesBack
<1>4. file[To(u)][b].of = Nobody  BY <1>1, <1>3 DEF FreeInv
<1>5. SUFFICES ASSUME file'[To(u)][b] # file[To(u)][b] PROVE FALSE  BY <1>1, <1>4
<1>6. PICK n : n = b  OBVIOUS
<1>7. n \in Names /\ n[1] = "folder" /\ n[3] = ".bak"  BY <1>6, NamesAre
<1>8. Backed(t)  BY <1>1, <1>5, <1>6, <1>7, BackupNames, MembersAssumption
<1>9. CASE tr[t].stage = "target"
  <2>1. To(u) = To(t)  BY <1>1, <1>5, <1>6, <1>7, <1>8, <1>9, FolderBacked
  <2>2. Backs(t) /\ job[t].folder /\ ~MayMoveTarget(tr'[t])  BY <1>1, <1>8, <1>9, BackedFolder
  <2>3. t \in Users(To(u), "folder")  BY <2>1, <2>2 DEF Users
  <2>4. t = u  BY <1>3, <2>2, <2>3
  <2> QED  BY <2>2, <2>4 DEF MayMoveTarget
<1>10. CASE tr[t].stage # "target"
  <2>1. PICK p \in {"file"} \cup MemberNames, x \in Plain : FileMoved(t, p, x)
    BY <1>1, <1>8, <1>10, FileBacked
  <2>2. n = <<p, x, "">> \/ n = <<p, x, ".bak">>  BY <2>1, <1>1, <1>5, <1>6, <1>7 DEF FileMoved
  <2>3. n[1] = p
    <3>1. CASE n = <<p, x, "">>  BY <3>1
    <3>2. CASE n = <<p, x, ".bak">>  BY <3>2
    <3> QED  BY <2>2, <3>1, <3>2
  <2> QED  BY <2>3, <1>7, MembersAssumption
<1> QED  BY <1>9, <1>10

LEMMA Parts == ASSUME NEW x, NEW y, NEW z, NEW c, c = <<x, y, z>> PROVE c[1] = x /\ c[2] = y /\ c[3] = z
OBVIOUS

LEMMA BackupPlaces ==
    ASSUME NEW p \in MemberNames, NEW d, d = InBackup(p)
    PROVE  d \in Names /\ d[1] = p /\ d[2] = ".bak" /\ d[3] = ""
<1>1. PICK c : c = <<p, ".bak", "">>  OBVIOUS
<1>2. c[1] = p /\ c[2] = ".bak" /\ c[3] = "" /\ c \in Names  BY <1>1, NamesAre
<1>3. d = c  BY <1>1, MembersAssumption DEF InBackup
<1> QED  BY <1>2, <1>3

\* The place of a target, and of the backup of a file there.
LEMMA Places ==
    ASSUME NEW p \in Targets, NEW a, a = <<p, "", "">>
    PROVE  a \in Names /\ a[1] = p /\ a[2] = "" /\ a[3] = "" /\ p \notin Transfers
<1>1. a[1] = p /\ a[2] = "" /\ a[3] = ""  OBVIOUS
<1>2. a \in Names  BY NamesAre DEF Targets
<1>3. p \notin Transfers  BY MembersAssumption DEF Targets
<1> QED  BY <1>1, <1>2, <1>3

LEMMA BesidePlaces ==
    ASSUME NEW p \in Targets, NEW b, b = <<p, "", ".bak">>
    PROVE  b \in Names /\ b[1] = p /\ b[2] = "" /\ b[3] = ".bak" /\ p \notin Transfers
<1>1. b[1] = p /\ b[2] = "" /\ b[3] = ".bak"  OBVIOUS
<1>2. b \in Names  BY NamesAre DEF Targets
<1>3. p \notin Transfers  BY MembersAssumption DEF Targets
<1> QED  BY <1>1, <1>2, <1>3

\* Who may not lose the old content may not have before.
LEMMA StaysQuiet ==
    ASSUME Shape, LocalInv, NEW t \in Transfers, Step(t), NEW s \in Sides, NEW p \in Targets, Quiet(s, p)'
    PROVE  /\ Quiet(s, p) /\ Users(s, p)' = Users(s, p)
           /\ \A u \in Users(s, p) :
                /\ u \in Transfers /\ Backs(u)' = Backs(u)
                /\ MayMoveTarget(tr'[u]) => MayMoveTarget(tr[u])
                /\ MayMove(tr'[u], p) => MayMove(tr[u], p)
                /\ ~(Overwrites(u) /\ (p # "file" \/ tr'[u].committed))
<1>1. Users(s, p)' = Users(s, p)  BY NothingComesBack DEF Users
<1>2. ASSUME NEW u \in Users(s, p)
      PROVE  /\ u \in Transfers /\ Backs(u)' = Backs(u) /\ Overwrites(u)' = Overwrites(u)
             /\ MayMoveTarget(tr'[u]) => MayMoveTarget(tr[u])
             /\ MayMove(tr'[u], p) => MayMove(tr[u], p)
             /\ p = "file" /\ tr[u].committed => tr'[u].committed
  <2>1. u \in Transfers /\ job[u].folder = (p # "file")  BY DEF Users
  <2>2. job'[u] = job[u] /\ Backs(u)' = Backs(u) /\ Follows(tr'[u], tr[u], job[u])
    BY <2>1, NothingComesBack
  <2> QED  BY <2>1, <2>2 DEF Follows, Overwrites
<1>3. there' = there  BY OthersWait
<1>4. \A u \in Users(s, p) : ~(Overwrites(u) /\ (p # "file" \/ tr'[u].committed))
  BY <1>1, <1>2 DEF Quiet
<1>5. \A u, v \in Users(s, p) : Backs(u) /\ Backs(v) => u = v  BY <1>1, <1>2 DEF Quiet
<1>6. Quiet(s, p)  BY <1>2, <1>3, <1>4, <1>5 DEF Quiet
<1> QED  BY <1>1, <1>2, <1>4, <1>6

\* The old content in its place is not written over; a backup takes it away.
LEMMA NotWrittenOver ==
    ASSUME Shape, LocalInv, ClearInv, NEW t \in Transfers, Step(t), NEW s \in Sides, NEW p \in Targets,
           Quiet(s, p)', NEW a, a = <<p, "", "">>, OldAt(s, a), ~OldAt(s, a)'
    PROVE  Backed(t)
<1>1. SUFFICES ASSUME Writes(t) PROVE FALSE  BY StepWrites DEF LocalInv
<1>2. a \in Names /\ a[1] = p /\ p \notin Transfers  BY Places
<1>3. Local(t) /\ job[t].folder \in BOOLEAN /\ file'[s][a] # file[s][a]  BY Jobs DEF LocalInv, OldAt
<1>4. \A u \in Users(s, p) : ~(Overwrites(u) /\ (p # "file" \/ tr'[u].committed))
  BY StaysQuiet
<1>5. a # Archive(t)
  <2>1. PICK n : n = Archive(t)  OBVIOUS
  <2>2. n[1] = t  BY <2>1 DEF Archive
  <2> QED  BY <2>1, <2>2, <1>2
<1>6. CASE FolderWrite(t, s, a)
  <2>1. s = To(t) /\ a = tr[t].into /\ p = "folder"  BY <1>2, <1>3, <1>6, IntoNames DEF FolderWrite
  <2>2. Exists(t, a)  BY <2>1, OwnersAssumption DEF OldAt, Exists
  <2>3. tr[t].stage \in ArchiveStages \ {"cleaning"}  BY <2>2, <1>6 DEF FolderWrite
  <2>4. job[t].folder  BY <2>3, <1>3 DEF Local, StageInv
  <2>5. ~Overwrites(t)  BY <1>4, <2>1, <2>4, <1>3 DEF Users
  <2> QED  BY <2>1, <2>3, <2>5 DEF ClearInv
<1>7. CASE FileWrite(t, s, a)
  <2>1. s = To(t) /\ a = tr[t].target /\ InFlight(tr[t]) /\ tr'[t].committed  BY <1>7 DEF FileWrite
  <2>2. Overwrites(t)  BY <2>1 DEF ClearInv
  <2>3. IF ~job[t].folder THEN p = "file" ELSE p \in MemberNames
    BY <1>2, <1>3, <1>5, <2>1, TargetNames
  <2>4. job[t].folder = (p # "file")  BY <1>3, <2>3, MembersAssumption
  <2>5. t \in Users(s, p)  BY <2>1, <2>4 DEF Users
  <2> QED  BY <1>4, <2>1, <2>2, <2>5
<1> QED  BY <1>1, <1>2, <1>3, <1>5, <1>6, <1>7 DEF Writes, ArchiveWrite

LEMMA KeptInPlace ==
    ASSUME Shape, LocalInv, ClearInv, FreeInv, NEW t \in Transfers, Step(t), NEW s \in Sides,
           NEW p \in Targets, Quiet(s, p)', OldAt(s, <<p, "", "">>)
    PROVE  Kept(s, p)'
<1>0. PICK a, b, d : a = <<p, "", "">> /\ b = <<p, "", ".bak">> /\ d = InBackup(p)  OBVIOUS
<1>1. /\ Quiet(s, p) /\ Users(s, p)' = Users(s, p) /\ Local(t)
      /\ \A u \in Users(s, p) : u \in Transfers /\ Backs(u)' = Backs(u)
  BY StaysQuiet DEF LocalInv
<1>2. /\ a \in Names /\ a[1] = p /\ a[2] = "" /\ a[3] = ""
      /\ b \in Names /\ b[1] = p /\ b[2] = "" /\ b[3] = ".bak"
      /\ p # "file" => d \in Names /\ d[1] = p
      /\ p = "folder" => d = b
      /\ p \in MemberNames => d[2] = ".bak" /\ d[3] = ""
  <2>1. a \in Names /\ a[1] = p /\ a[2] = "" /\ a[3] = ""  BY <1>0, Places
  <2>2. b \in Names /\ b[1] = p /\ b[2] = "" /\ b[3] = ".bak"  BY <1>0, BesidePlaces
  <2>3. p = "folder" => d = b  BY <1>0 DEF InBackup
  <2>4. p \in MemberNames => d \in Names /\ d[1] = p /\ d[2] = ".bak" /\ d[3] = ""
    <3>1. d = InBackup(p)  BY <1>0
    <3> QED  BY <3>1, BackupPlaces
  <2> QED  BY <2>1, <2>2, <2>3, <2>4 DEF Targets
<1>3. SUFFICES ASSUME ~OldAt(s, a)' PROVE Kept(s, p)'  BY <1>0 DEF Kept, OldAt
<1>4. OldAt(s, a) /\ Backed(t) /\ file'[s][a] # file[s][a]  BY <1>0, <1>3, NotWrittenOver DEF OldAt
<1>5. CASE tr[t].stage = "target"
  <2>1. /\ s = To(t)
        /\ p = "folder" \/ p \in MemberNames
    <3>1. s = To(t) /\ (a = <<"folder", "", "">> \/ a = <<"folder", "", ".bak">> \/ a[1] \in MemberNames)
      BY <1>1, <1>2, <1>4, <1>5, FolderBacked
    <3>2. CASE a = <<"folder", "", "">>
      <4>1. a[1] = "folder"  BY <3>2, Parts
      <4> QED  BY <3>1, <4>1, <1>2
    <3>3. CASE a = <<"folder", "", ".bak">>
      <4>1. a[1] = "folder"  BY <3>3, Parts
      <4> QED  BY <3>1, <4>1, <1>2
    <3> QED  BY <3>1, <3>2, <3>3, <1>2
  <2>2. p # "file"  BY <2>1, MembersAssumption
  <2>3. job[t].folder /\ Backs(t) /\ MayMoveTarget(tr[t]) /\ ~MayMoveTarget(tr'[t])
    BY <1>1, <1>4, <1>5, BackedFolder
  <2>4. t \in Users(s, p) /\ Users(To(t), "folder") = Users(s, p)  BY <2>1, <2>2, <2>3 DEF Users
  <2>5. \A u \in Users(s, p) : Backs(u) => u = t  BY <1>1, <2>3, <2>4 DEF Quiet
  <2>6. file[s][<<"folder", "", ".bak">>].of = Nobody  BY <2>1, <2>3, <2>4, <2>5 DEF FreeInv
  <2>7. OldAt(s, d)'
    <3>1. CASE p = "folder"
      <4>1. d = <<"folder", "", ".bak">> /\ a = <<"folder", "", "">> /\ d \in Names  BY <3>1, <1>0, <1>2
      <4>2. /\ d # a
            /\ ~(d[1] \in MemberNames)
        BY <1>2, <3>1, MembersAssumption
      <4>3. file'[s][d] = file[s][a]
        BY <1>1, <1>4, <1>5, <2>1, <2>6, <4>1, <4>2, FolderBacked
      <4> QED  BY <1>4, <4>3 DEF OldAt
    <3>2. CASE p \in MemberNames
      <4>1. d \in Names /\ d[1] = p /\ d[2] = ".bak" /\ d[3] = ""  BY <3>2, <2>2, <1>2
      <4>2. d # <<"folder", "", "">> /\ d # <<"folder", "", ".bak">>
        <5>1. ASSUME NEW c, c = <<"folder", "", "">> \/ c = <<"folder", "", ".bak">>
              PROVE  c[1] = "folder"
          <6>1. CASE c = <<"folder", "", "">>  BY <6>1
          <6>2. CASE c = <<"folder", "", ".bak">>  BY <6>2
          <6> QED  BY <5>1, <6>1, <6>2
        <5> QED  BY <5>1, <4>1, <3>2, MembersAssumption
      <4>3. file'[s][d] = file[s][<<d[1], "", d[3]>>]
        BY <1>1, <1>4, <1>5, <2>1, <2>6, <3>2, <4>1, <4>2, FolderBacked
      <4>4. <<d[1], "", d[3]>> = a  BY <4>1, <1>0
      <4> QED  BY <1>4, <4>3, <4>4 DEF OldAt
    <3> QED  BY <2>1, <3>1, <3>2
  <2>8. \A u \in Users(s, p)' : Backs(u)' => ~MayMoveTarget(tr'[u])  BY <1>1, <2>3, <2>5
  <2> QED  BY <1>0, <2>2, <2>7, <2>8 DEF Kept, OldAt, InBackup
<1>6. CASE tr[t].stage # "target"
  <2>1. PICK e \in {"file"} \cup MemberNames, x \in Plain : PlaceOfFile(t, e, x) /\ FileMoved(t, e, x)
    BY <1>1, <1>4, <1>6, FileBacked
  <2>2. s = To(t) /\ (a = <<e, x, "">> \/ a = <<e, x, ".bak">>)  BY <2>1, <1>2, <1>4 DEF FileMoved
  <2>3. a = <<e, x, "">>
    <3>1. ASSUME a = <<e, x, ".bak">> PROVE FALSE
      <4>1. a[3] = ".bak"  BY <3>1, Parts
      <4> QED  BY <4>1, <1>2
    <3> QED  BY <2>2, <3>1
  <2>4. e = p /\ x = ""
    <3>1. a[1] = e /\ a[2] = x  BY <2>3, Parts
    <3> QED  BY <3>1, <1>2
  <2>5. b # a  BY <1>2
  <2>6. file'[s][b] = file[s][a]  BY <1>0, <2>1, <2>2, <2>4, <2>5, <1>2 DEF FileMoved
  <2>7. OldAt(s, b)'  BY <1>4, <2>6 DEF OldAt
  <2>8. job[t].folder = (p # "file") /\ Backs(t) /\ ~MayMove(tr'[t], p)
    BY <1>1, <1>4, <2>1, <2>4, BackedFile
  <2>9. t \in Users(s, p)  BY <2>2, <2>8 DEF Users
  <2>10. \A u \in Users(s, p) : Backs(u) => u = t  BY <1>1, <2>8, <2>9 DEF Quiet
  <2>11. \A u \in Users(s, p)' : Backs(u)' => ~MayMove(tr'[u], p)  BY <1>1, <2>8, <2>10
  <2>12. p # "folder"  BY <2>1, <2>4, MembersAssumption
  <2> QED  BY <1>0, <2>7, <2>11, <2>12 DEF Kept, OldAt
<1> QED  BY <1>5, <1>6

\* A backup of the folder is written over by no transfer, and moved by none that has made it.
LEMMA KeptInFolder ==
    ASSUME Shape, LocalInv, NEW t \in Transfers, Step(t), NEW s \in Sides, NEW p \in Targets, Quiet(s, p)',
           p # "file", OldAt(s, InBackup(p)), \A u \in Users(s, p) : Backs(u) => ~MayMoveTarget(tr[u])
    PROVE  Kept(s, p)'
<1>0. PICK b, d : b = <<p, "", ".bak">> /\ d = InBackup(p)  OBVIOUS
<1>1. /\ Users(s, p)' = Users(s, p) /\ Local(t)
      /\ \A u \in Users(s, p) : /\ u \in Transfers /\ Backs(u)' = Backs(u)
                                /\ MayMoveTarget(tr'[u]) => MayMoveTarget(tr[u])
  BY StaysQuiet DEF LocalInv
<1>2. /\ p \notin Transfers /\ d \in Names /\ d[1] = p
      /\ (p \in MemberNames /\ d[2] = ".bak" /\ d[3] = "") \/ (p = "folder" /\ d[3] = ".bak")
  <2>1. CASE p = "folder"
    <3>1. d = b  BY <2>1, <1>0 DEF InBackup
    <3>2. b \in Names /\ b[1] = p /\ b[3] = ".bak"  BY <1>0, <2>1, NamesAre
    <3> QED  BY <2>1, <3>1, <3>2, MembersAssumption
  <2>2. CASE p \in MemberNames  BY <1>0, <2>2, BackupPlaces, MembersAssumption
  <2> QED  BY <2>1, <2>2 DEF Targets
<1>3. OldAt(s, d)'
  <2> SUFFICES ASSUME file'[s][d] # file[s][d] PROVE FALSE  BY <1>0 DEF OldAt
  <2>1. Backed(t)  BY <1>1, <1>2, BackupNames
  <2>2. CASE tr[t].stage = "target"
    <3>1. s = To(t)  BY <1>1, <1>2, <2>1, <2>2, FolderBacked
    <3>2. job[t].folder /\ Backs(t) /\ MayMoveTarget(tr[t])  BY <1>1, <2>1, <2>2, BackedFolder
    <3>3. t \in Users(s, p)  BY <3>1, <3>2 DEF Users
    <3> QED  BY <3>2, <3>3
  <2>3. CASE tr[t].stage # "target"
    <3>1. PICK e \in {"file"} \cup MemberNames, x \in Plain : FileMoved(t, e, x)
      BY <1>1, <2>1, <2>3, FileBacked
    <3>2. d = <<e, x, "">> \/ d = <<e, x, ".bak">>  BY <1>2, <3>1 DEF FileMoved
    <3>3. d[1] = e /\ d[2] = x
      <4>1. CASE d = <<e, x, "">>  BY <4>1, Parts
      <4>2. CASE d = <<e, x, ".bak">>  BY <4>2, Parts
      <4> QED  BY <3>2, <4>1, <4>2
    <3> QED  BY <1>2, <3>3, MembersAssumption
  <2> QED  BY <2>2, <2>3
<1>4. \A u \in Users(s, p)' : Backs(u)' => ~MayMoveTarget(tr'[u])  BY <1>1
<1> QED  BY <1>0, <1>3, <1>4 DEF Kept, OldAt, InBackup

\* The same for the backup of a file.
LEMMA KeptBeside ==
    ASSUME Shape, LocalInv, NEW t \in Transfers, Step(t), NEW s \in Sides, NEW p \in Targets, Quiet(s, p)',
           p # "folder", OldAt(s, <<p, "", ".bak">>), \A u \in Users(s, p) : Backs(u) => ~MayMove(tr[u], p)
    PROVE  Kept(s, p)'
<1>0. PICK b : b = <<p, "", ".bak">>  OBVIOUS
<1>1. /\ Users(s, p)' = Users(s, p) /\ Local(t)
      /\ \A u \in Users(s, p) : /\ u \in Transfers /\ Backs(u)' = Backs(u)
                                /\ MayMove(tr'[u], p) => MayMove(tr[u], p)
  BY StaysQuiet DEF LocalInv
<1>2. b \in Names /\ b[1] = p /\ b[2] = "" /\ b[3] = ".bak" /\ p \notin Transfers  BY <1>0, BesidePlaces
<1>3. OldAt(s, b)'
  <2> SUFFICES ASSUME file'[s][b] # file[s][b] PROVE FALSE  BY <1>0 DEF OldAt
  <2>1. Backed(t)  BY <1>1, <1>2, BackupNames
  <2>2. CASE tr[t].stage = "target"
    <3>1. job[t].folder /\ Backs(t) /\ MayMoveTarget(tr[t])  BY <1>1, <2>1, <2>2, BackedFolder
    <3>2. s = To(t) /\ (b[1] = "folder" \/ b[1] \in MemberNames)
      <4>1. s = To(t) /\ (b = <<"folder", "", "">> \/ b = <<"folder", "", ".bak">> \/ b[1] \in MemberNames)
        BY <1>1, <1>2, <2>1, <2>2, FolderBacked, ZenonT(40)
      <4>2. CASE b = <<"folder", "", "">>  BY <4>1, <4>2, Parts
      <4>3. CASE b = <<"folder", "", ".bak">>  BY <4>1, <4>3, Parts
      <4> QED  BY <4>1, <4>2, <4>3
    <3>3. t \in Users(s, p)  BY <1>2, <3>1, <3>2, MembersAssumption DEF Users
    <3> QED  BY <3>1, <3>3 DEF MayMove
  <2>3. CASE tr[t].stage # "target"
    <3>1. PICK e \in {"file"} \cup MemberNames, x \in Plain : PlaceOfFile(t, e, x) /\ FileMoved(t, e, x)
      BY <1>1, <2>1, <2>3, FileBacked
    <3>2. s = To(t) /\ (b = <<e, x, "">> \/ b = <<e, x, ".bak">>)  BY <1>2, <3>1 DEF FileMoved
    <3>3. b[1] = e
      <4>1. CASE b = <<e, x, "">>  BY <4>1, Parts
      <4>2. CASE b = <<e, x, ".bak">>  BY <4>2, Parts
      <4> QED  BY <3>2, <4>1, <4>2
    <3>4. job[t].folder = (p # "file") /\ Backs(t) /\ MayMove(tr[t], p)
      BY <1>1, <1>2, <2>1, <3>1, <3>3, BackedFile
    <3>5. t \in Users(s, p)  BY <3>2, <3>4 DEF Users
    <3> QED  BY <3>4, <3>5
  <2> QED  BY <2>2, <2>3
<1>4. \A u \in Users(s, p)' : Backs(u)' => ~MayMove(tr'[u], p)  BY <1>1
<1> QED  BY <1>0, <1>3, <1>4 DEF Kept, OldAt

LEMMA StepKept ==
    ASSUME Shape, LocalInv, ClearInv, FreeInv, KeptInv, NEW t \in Transfers, Step(t)
    PROVE  KeptInv'
<1> SUFFICES ASSUME NEW s \in Sides, NEW p \in Targets, Quiet(s, p)' PROVE Kept(s, p)'
  BY DEF KeptInv
<1>1. Kept(s, p)  BY StaysQuiet DEF KeptInv
<1> QED  BY <1>1, KeptInPlace, KeptInFolder, KeptBeside DEF Kept

-----------------------------------------------------------------------------
OldInv == KeptInv /\ ClearInv /\ ArchivesAreNew /\ FreeInv

LEMMA InitOldInv == Init => OldInv
<1> SUFFICES ASSUME Init PROVE OldInv  OBVIOUS
<1>0. Shape  BY InitIInv DEF IInv
<1>1. \A n \in Names : (n[1] \in Transfers \/ n[2] # "" \/ n[3] # "") =>
        \A s \in Sides : file[s][n] = Nothing
  BY DEF Init
<1>2. Nothing.of = Nobody /\ Nobody # Before  BY OwnersAssumption DEF Nothing
<1>3. KeptInv
  <2> SUFFICES ASSUME NEW s \in Sides, NEW p \in Targets, there PROVE OldAt(s, <<p, "", "">>)
    BY DEF KeptInv, Quiet, Kept
  <2>1. PICK a : a = <<p, "", "">>  OBVIOUS
  <2>2. a \in Names /\ a[1] = p /\ a[2] = "" /\ a[3] = "" /\ p \notin Transfers  BY <2>1, Places
  <2>3. there /\ a[1] \notin Transfers /\ a[2] = "" /\ a[3] = ""  BY <2>2
  <2>4. file[s][a] = [of |-> Before, whole |-> TRUE]  BY <2>2, <2>3 DEF Init
  <2>5. OldAt(s, a)
    <3>1. PICK c : c = [of |-> Before, whole |-> TRUE]  OBVIOUS
    <3>2. c.of = Before  BY <3>1
    <3> QED  BY <2>4, <3>1, <3>2 DEF OldAt
  <2> QED  BY <2>1, <2>5
<1>4. ClearInv
  <2>1. \A t \in Transfers : tr[t].stage \in {"tree", "target", "file"} /\ tr[t].pc = "idle"  BY DEF Init
  <2> QED  BY <2>1 DEF ClearInv, InFlight
<1>5. ArchivesAreNew
  <2> SUFFICES ASSUME NEW s \in Sides, NEW t \in Transfers PROVE ~OldAt(s, Archive(t))  BY DEF ArchivesAreNew
  <2>1. PICK a : a = Archive(t)  OBVIOUS
  <2>2. a \in Names /\ a[1] = t  BY <2>1, NamesAre DEF Archive
  <2> QED  BY <2>1, <2>2, <1>1, <1>2 DEF OldAt
<1>6. FreeInv
  <2>1. PICK b : b = <<"folder", "", ".bak">>  OBVIOUS
  <2>2. b \in Names /\ b[3] = ".bak"  BY <2>1, NamesAre
  <2>3. \A s \in Sides : file[s][b].of = Nobody  BY <2>2, <1>1, <1>2
  <2> QED  BY <2>1, <2>3, Sidewise DEF FreeInv
<1> QED  BY <1>3, <1>4, <1>5, <1>6 DEF OldInv

LEMMA StepOldInv == IInv /\ OldInv /\ [Next]_vars => OldInv'
<1> SUFFICES ASSUME IInv, OldInv, [Next]_vars PROVE OldInv'  OBVIOUS
<1>1. CASE Next
  <2>1. PICK t \in Transfers : Step(t)  BY <1>1 DEF Next, Step
  <2>2. Shape /\ LocalInv /\ Local(t)  BY DEF IInv, LocalInv
  <2>3. KeptInv'  BY <2>1, <2>2, StepKept DEF OldInv
  <2>4. ClearInv'  BY <2>1, <2>2, StepClear DEF OldInv
  <2>5. ArchivesAreNew'  BY <2>1, <2>2, StepArchivesAreNew DEF OldInv
  <2>6. FreeInv'  BY <2>1, <2>2, StepFree DEF OldInv
  <2> QED  BY <2>3, <2>4, <2>5, <2>6 DEF OldInv
<1>2. CASE UNCHANGED vars
  <2>1. KeptInv'
    <3> SUFFICES ASSUME NEW s \in Sides, NEW p \in Targets, Quiet(s, p)' PROVE Kept(s, p)'
      BY DEF KeptInv
    <3>1. Users(s, p)' = Users(s, p)  BY <1>2 DEF vars, Users, To
    <3>2. Quiet(s, p)  BY <1>2, <3>1 DEF vars, Quiet, Overwrites, Backs
    <3>3. Kept(s, p)  BY <3>2 DEF OldInv, KeptInv
    <3> QED  BY <1>2, <3>1, <3>3 DEF vars, Kept, OldAt, Backs
  <2>2. ClearInv'  BY <1>2 DEF OldInv, vars, ClearInv, Overwrites, To, OldAt
  <2>3. ArchivesAreNew'  BY <1>2 DEF OldInv, vars, ArchivesAreNew, OldAt, Archive
  <2>4. FreeInv'  BY <1>2 DEF OldInv, vars, FreeInv, Users, To, Backs
  <2> QED  BY <2>1, <2>2, <2>3, <2>4 DEF OldInv
<1> QED  BY <1>1, <1>2

LEMMA OldInvSuffices == OldInv => OldContentSurvives
<1> SUFFICES ASSUME OldInv, NEW s \in Sides, NEW p \in {n[1] : n \in Names} \ Transfers, there,
                    ~\E t \in Users(s, p) : Overwrites(t) /\ (p # "file" \/ tr[t].committed),
                    ~(Cardinality({t \in Users(s, p) : Backs(t)}) > 1)
             PROVE  \E n \in Names : n[1] = p /\ file[s][n].of = Before
  BY DEF OldContentSurvives, Users, Overwrites, Backs
<1> DEFINE users == Users(s, p)
<1>1. p \in Targets  BY NamesOnly DEF Targets
<1>2. users \subseteq Transfers  BY DEF Users
<1>3. ASSUME NEW t \in users, NEW u \in users, Backs(t), Backs(u), t # u PROVE FALSE
  <2> DEFINE B == {v \in users : Backs(v)}
  <2>1. B \subseteq Transfers /\ {t, u} \subseteq B  BY <1>2, <1>3
  <2>2. IsFiniteSet(B)  BY <2>1, TransfersAssumption, FS_Subset
  <2>3. Cardinality({t, u}) <= Cardinality(B) /\ IsFiniteSet({t, u})  BY <2>1, <2>2, FS_Subset
  <2>4. Cardinality({t, u}) = 2
    <3>1. Cardinality({t}) = 1 /\ IsFiniteSet({t})  BY FS_Singleton
    <3>2. u \notin {t}  BY <1>3
    <3>3. PICK S : S = {t}  OBVIOUS
    <3>4. Cardinality(S \cup {u}) = Cardinality(S) + 1  BY <3>1, <3>2, <3>3, FS_AddElement
    <3>5. {t, u} = S \cup {u}  BY <3>3
    <3> QED  BY <3>1, <3>3, <3>4, <3>5
  <2>5. Cardinality(B) \in Nat  BY <2>2, FS_CardinalityType
  <2> QED  BY <2>3, <2>4, <2>5
<1>4. Quiet(s, p)  BY <1>3 DEF Quiet
<1>5. Kept(s, p)  BY <1>1, <1>4 DEF OldInv, KeptInv
<1>6. PICK a, b, d : a = <<p, "", "">> /\ b = <<p, "", ".bak">> /\ d = InBackup(p)  OBVIOUS
<1>7. /\ a \in Names /\ a[1] = p
      /\ b \in Names /\ b[1] = p
  BY <1>1, <1>6, Places, BesidePlaces
<1>8. p # "file" => d \in Names /\ d[1] = p
  <2>1. CASE p = "folder"
    <3>1. d = b  BY <2>1, <1>6 DEF InBackup
    <3> QED  BY <3>1, <1>7
  <2>2. CASE p \in MemberNames
    <3>1. d = InBackup(p)  BY <1>6
    <3> QED  BY <2>2, <3>1, BackupPlaces
  <2> QED  BY <1>1, <2>1, <2>2 DEF Targets
<1> QED  BY <1>5, <1>6, <1>7, <1>8 DEF Kept, OldAt

\* Whatever fails: who does not overwrite writes only where the old content is not, and
\* a backup is made once, at a place that was free, and not moved again.
THEOREM OldContent == Spec => []OldContentSurvives
<1>1. Spec => []OldInv
  BY InitOldInv, StepOldInv, SpecIInv, PTL DEF Spec
<1> QED  BY <1>1, OldInvSuffices, PTL
=============================================================================
