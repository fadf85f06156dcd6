---------------------------- MODULE FileTransfer ----------------------------
(* Uploads and downloads of files and folders over SFTP (file-transfer.ts).  *)
(* A file is written beside its target under a name of its own and renamed   *)
(* when it is whole. Streams, answers of the server, the deadline and lost   *)
(* channels come in any order, and other transfers work on the same paths.   *)
(* A folder is packed, its archive is transferred as a file, unpacked at the *)
(* other end, and the temporary files are removed; where the remote host has *)
(* no tar, its members are transferred one after the other.                  *)
EXTENDS Naturals, FiniteSets, Sequences

CONSTANTS
    Transfers,  \* transfers of the instance
    Workloads,  \* what the transfers may be asked, a set of functions
    Members,    \* the files of a folder, a sequence of names
    Before,     \* who wrote what was at the target before
    Nobody      \* the owner of a path at which nothing is

\* A tree is a folder that goes member by member.
AllJobs == [up : BOOLEAN, folder : BOOLEAN, tree : BOOLEAN, stream : BOOLEAN,
            strategy : {"overwrite", "skip", "backup", "rename"}]

MemberNames == {Members[k] : k \in DOMAIN Members}

ASSUME TransfersAssumption == IsFiniteSet(Transfers)
ASSUME WorkloadsAssumption ==
    /\ Workloads \subseteq [Transfers -> AllJobs]
    /\ \A w \in Workloads, t \in Transfers : w[t].tree => w[t].folder
ASSUME OwnersAssumption == Before \notin Transfers /\ Nobody \notin Transfers /\ Before # Nobody
\* A folder has files, each under a name of its own, which is no other name here.
ASSUME MembersAssumption ==
    /\ Members \in Seq(MemberNames) /\ Members # <<>>
    /\ \A k, m \in DOMAIN Members : Members[k] = Members[m] => k = m
    /\ MemberNames \cap {"file", "folder"} = {} /\ MemberNames \cap Transfers = {}
    /\ {"file", "folder"} \cap Transfers = {}

VARIABLES
    job,        \* what each transfer was asked
    tr,         \* where each transfer is
    file,       \* what is at each path of each side
    replaces,   \* a rename of this SFTP server replaces what is at the new path
    there       \* the targets existed before

vars == <<job, tr, file, replaces, there>>

Sides == {"local", "remote"}
Numbered == <<".1", ".2">>
Suffixes == {"", ".bak"} \cup {Numbered[n] : n \in DOMAIN Numbered}
\* A path: what it is for, the suffix of the folder it is in, its own suffix. The
\* archive of a folder transfer has a name of its own: the transfer.
Names == ({"file", "folder"} \X {""} \X Suffixes) \cup (Transfers \X {""} \X {""})
            \cup (MemberNames \X Suffixes \X Suffixes)
Nothing == [of |-> Nobody, whole |-> TRUE]
Content == [of : Transfers \cup {Before, Nobody}, whole : BOOLEAN]

Transfer == [
    stage : {"file", "tree", "channel", "making", "member", "target", "mkdir", "packing", "listing", "sending",
             "unpacking", "cleaning", "returned"},
    result : {"none", "done", "skipped", "failed"},     \* of a folder
    into : Names,                                       \* folder: finalRemotePath
    again : BOOLEAN,                                    \* the second way to pack or unpack, the
                                                        \* second channel of a tree
    member : 0..Len(Members),                           \* the member a tree is at
    stray : BOOLEAN,                                    \* a local tar was given up on
    pc : {"idle", "checking", "moving", "naming", "opening", "writing", "closing",
          "renaming", "unlinking", "stat", "reading", "streaming", "hashing", "over"},
    target : Names,                                     \* finalRemotePath, targetLocalPath
    probe : 0..Len(Numbered),                           \* counter
    sftp : {"none", "open", "ended"},
    req : {"none", "sent", "dropped", "ok", "refused"}, \* the request under way
    staging : {"absent", "partial", "whole"},           \* what is at the staging path
    committed : BOOLEAN,                                \* for the properties: it was renamed
    settled : BOOLEAN,
    outcome : {"none", "done", "skipped", "failed", "timeout"}]

TypeOK ==
    /\ job \in Workloads
    /\ tr \in [Transfers -> Transfer]
    /\ file \in [Sides -> [Names -> Content]]
    /\ {replaces, there} \subseteq BOOLEAN

Init ==
    /\ job \in Workloads
    /\ tr = [t \in Transfers |->
                [stage |-> IF job[t].tree /\ job[t].up THEN "tree"
                           ELSE IF job[t].folder THEN "target" ELSE "file", result |-> "none",
                 into |-> <<"folder", "", "">>, again |-> FALSE, member |-> 0, stray |-> FALSE,
                 pc |-> "idle", target |-> <<"file", "", "">>, probe |-> 0, sftp |-> "none",
                 req |-> "none", staging |-> "absent", committed |-> FALSE,
                 settled |-> FALSE, outcome |-> "none"]]
    /\ replaces \in BOOLEAN
    /\ there \in BOOLEAN
    /\ file = [s \in Sides |-> [n \in Names |->
                    IF there /\ n[1] \notin Transfers /\ n[2] = "" /\ n[3] = ""
                    THEN [of |-> Before, whole |-> TRUE] ELSE Nothing]]

-----------------------------------------------------------------------------
To(t) == IF job[t].up THEN "remote" ELSE "local"
From(t) == IF job[t].up THEN "local" ELSE "remote"
Archive(t) == <<t, "", "">>
Member(t, k) == <<Members[k], tr[t].into[3], "">>
Asked(t) ==
    CASE tr[t].stage = "sending" -> Archive(t)
      [] tr[t].stage = "member" -> Member(t, tr[t].member)
      [] tr[t].stage = "target" -> <<"folder", "", "">>
      [] OTHER -> <<"file", "", "">>
Strategy(t) == IF tr[t].stage = "sending" THEN "overwrite" ELSE job[t].strategy
WithSuffix(name, x) == <<name[1], name[2], x>>
Backup(t) == WithSuffix(Asked(t), ".bak")
Copy(t, n) == WithSuffix(Asked(t), Numbered[n])
Exists(t, name) == file[To(t)][name].of # Nobody

\* The deadline closes what it knows of; a channel that opens later is closed then.
endSftp(r) == IF r.sftp = "open" THEN "ended" ELSE r.sftp

\* Every path that ends a transfer ends its channel in the same step.
finishOnce(r, o) ==
    [r EXCEPT !.settled = TRUE, !.outcome = IF r.settled THEN @ ELSE o, !.sftp = endSftp(r)]

\* A request on an ended channel is dropped; it fails when the channel closes.
request(r) == IF r.sftp = "open" THEN "sent" ELSE "dropped"

proceed(t, name) ==
    tr' = [tr EXCEPT ![t] =
        IF @.stage = "target"
        THEN [@ EXCEPT !.pc = "idle", !.into = name, 
                     !.stage = IF job[t].tree THEN "channel" ELSE IF job[t].up THEN "mkdir" ELSE "packing"]
        ELSE [@ EXCEPT !.pc = "opening", !.target = name]]

refuse(t, o) ==
    tr' = [tr EXCEPT ![t] =
        IF @.stage = "target"
        THEN [@ EXCEPT !.pc = "idle", !.stage = IF job[t].tree THEN "returned" ELSE "cleaning",
                       !.result = o]
        ELSE [finishOnce(@, o) EXCEPT !.pc = "over"]]

-----------------------------------------------------------------------------
(* Before the channel: what is at the target, and what to do about it.       *)
Begin(t) ==
    /\ tr[t].pc = "idle" /\ tr[t].stage \in {"file", "target", "tree"} /\ ~tr[t].settled
    /\ tr' = [tr EXCEPT ![t] = IF @.stage = "tree" THEN [@ EXCEPT !.stage = "channel"]
                               ELSE [@ EXCEPT !.pc = "checking"]]
    /\ UNCHANGED <<job, file, replaces, there>>

Checked(t) ==
    /\ tr[t].pc = "checking"
    /\ ~Exists(t, Asked(t)) \/ Strategy(t) = "overwrite"
    /\ proceed(t, Asked(t))
    /\ UNCHANGED <<job, file, replaces, there>>

CheckedSkip(t) ==
    /\ tr[t].pc = "checking" /\ Exists(t, Asked(t)) /\ Strategy(t) = "skip"
    /\ refuse(t, "skipped")
    /\ UNCHANGED <<job, file, replaces, there>>

\* On the remote side each further step is a command to wait for.
CheckedRemote(t) ==
    /\ tr[t].pc = "checking" /\ job[t].up /\ Exists(t, Asked(t))
    /\ \/ Strategy(t) = "backup" /\ tr' = [tr EXCEPT ![t].pc = "moving"]
       \/ Strategy(t) = "rename" /\ tr' = [tr EXCEPT ![t].pc = "naming", ![t].probe = 1]
    /\ UNCHANGED <<job, file, replaces, there>>

\* A folder moves with its members. When there is a backup of it, mv puts it inside.
FolderMoved(old, from, to) ==
    LET inFolder(n) == n = from \/ (n[1] \in MemberNames /\ n[2] = "")
        inBackup(n) == n = to \/ (n[1] \in MemberNames /\ n[2] = ".bak")
    IN  [n \in Names |->
            IF inFolder(n) THEN Nothing
            ELSE IF inBackup(n) /\ old[to].of = Nobody
            THEN IF n = to THEN old[from] ELSE old[<<n[1], "", n[3]>>]
            ELSE old[n]]

MovedAway(t) ==
    [file EXCEPT ![To(t)] =
        IF tr[t].stage = "target" THEN FolderMoved(file[To(t)], Asked(t), Backup(t))
        ELSE [file[To(t)] EXCEPT ![Backup(t)] = file[To(t)][Asked(t)], ![Asked(t)] = Nothing]]

\* unlink does not remove the directory that is an older backup.
BackupIsInTheWay(t) == tr[t].stage = "target" /\ Exists(t, Backup(t))

CheckedLocal(t) ==
    /\ tr[t].pc = "checking" /\ ~job[t].up /\ Exists(t, Asked(t))
    /\ \/ /\ Strategy(t) = "backup" /\ ~BackupIsInTheWay(t)
          /\ file' = MovedAway(t) /\ proceed(t, Asked(t))
       \/ /\ Strategy(t) = "rename"
          /\ \E n \in DOMAIN Numbered :
                /\ ~Exists(t, Copy(t, n)) /\ \A m \in 1..(n - 1) : Exists(t, Copy(t, m))
                /\ proceed(t, Copy(t, n))
          /\ UNCHANGED file
    /\ UNCHANGED <<job, replaces, there>>

CheckFails(t) ==
    /\ tr[t].pc \in {"checking", "naming"}
    /\ refuse(t, "failed")
    /\ UNCHANGED <<job, file, replaces, there>>

Moved(t) ==
    /\ tr[t].pc = "moving" /\ Exists(t, Asked(t))
    /\ file' = MovedAway(t)
    /\ proceed(t, Asked(t))
    /\ UNCHANGED <<job, replaces, there>>

\* Fault: the exit code of the move is not looked at.
MoveFailsUnseen(t) ==
    /\ tr[t].pc = "moving"
    /\ UNCHANGED file
    /\ proceed(t, Asked(t))
    /\ UNCHANGED <<job, replaces, there>>

\* The move fails, or its answer does not come.
MoveFails(t) ==
    /\ tr[t].pc = "moving"
    /\ \/ UNCHANGED file
       \/ Exists(t, Asked(t)) /\ file' = MovedAway(t)
    /\ refuse(t, "failed")
    /\ UNCHANGED <<job, replaces, there>>

Named(t) ==
    /\ tr[t].pc = "naming"
    /\ LET n == tr[t].probe
       IN  IF Exists(t, Copy(t, n))
           THEN n < Len(Numbered) /\ tr' = [tr EXCEPT ![t].probe = n + 1]
           ELSE proceed(t, Copy(t, n))
    /\ UNCHANGED <<job, file, replaces, there>>

-----------------------------------------------------------------------------
(* The channel.                                                              *)
\* Fault: a channel that opens after the deadline is used.
SftpOpensAnyway(t) ==
    /\ tr[t].pc = "opening"
    /\ tr' = [tr EXCEPT ![t].sftp = "open", ![t].pc = IF job[t].up THEN "writing" ELSE "stat"]
    /\ UNCHANGED <<job, file, replaces, there>>

SftpOpens(t) ==
    /\ tr[t].pc = "opening"
    /\ tr' = [tr EXCEPT ![t] =
            IF @.settled THEN [@ EXCEPT !.sftp = "ended", !.pc = "over"]
            ELSE [@ EXCEPT !.sftp = "open", !.pc = IF job[t].up THEN "writing" ELSE "stat"]]
    /\ UNCHANGED <<job, file, replaces, there>>

SftpFails(t) ==
    /\ tr[t].pc = "opening"
    /\ tr' = [tr EXCEPT ![t] = [finishOnce(@, "failed") EXCEPT !.pc = "over"]]
    /\ UNCHANGED <<job, file, replaces, there>>

LoseChannel(t) ==
    /\ tr[t].sftp = "open"
    /\ tr' = [tr EXCEPT ![t].sftp = "ended"]
    /\ UNCHANGED <<job, file, replaces, there>>

\* Fault: the deadline begins when the channel is open.
ArmedByChannel(t) ==
    tr[t].pc \notin {"idle", "checking", "moving", "naming", "opening"} /\ ~tr[t].settled

\* The deadline is set before the channel is asked for.
Armed(t) == tr[t].pc \notin {"idle", "checking", "moving", "naming"} /\ ~tr[t].settled

Timeout(t) ==
    /\ Armed(t)
    /\ tr' = [tr EXCEPT ![t] =
            [finishOnce(@, "timeout") EXCEPT !.staging = IF job[t].up THEN tr[t].staging ELSE "absent"]]
    /\ UNCHANGED <<job, file, replaces, there>>

-----------------------------------------------------------------------------
(* An upload: the staging file is on the server, and so is its rename.       *)
Write(t) ==
    /\ tr[t].pc = "writing" /\ tr[t].sftp = "open" /\ tr[t].staging # "whole"
    /\ tr' = [tr EXCEPT ![t].staging = IF @ = "absent" THEN "partial" ELSE "whole"]
    /\ UNCHANGED <<job, file, replaces, there>>

\* The stream of a direct upload closes after an error too.
StreamCloses(t) ==
    /\ \/ tr[t].pc = "writing" /\ tr[t].staging = "whole"
       \/ tr[t].pc = "closing"
    /\ tr' = [tr EXCEPT ![t].pc = "renaming", ![t].req = request(tr[t])]
    /\ UNCHANGED <<job, file, replaces, there>>

\* Fault: the close of a stream after its error is taken for the end of the file.
StreamFailsCloses(t) ==
    /\ tr[t].pc = "writing"
    /\ tr' = [tr EXCEPT ![t].pc = "closing"]
    /\ UNCHANGED <<job, file, replaces, there>>

StreamFails(t) ==
    /\ tr[t].pc = "writing"
    /\ tr' = [tr EXCEPT ![t] =
            IF job[t].stream THEN [@ EXCEPT !.pc = "unlinking", !.req = request(tr[t])]
            ELSE [finishOnce(@, "failed") EXCEPT !.pc = "closing"]]
    /\ UNCHANGED <<job, file, replaces, there>>

commit(t) == [file EXCEPT ![To(t)][tr[t].target] = [of |-> t, whole |-> tr[t].staging = "whole"]]

ServerRenames(t) ==
    /\ tr[t].pc = "renaming" /\ tr[t].req = "sent"
    /\ IF replaces \/ ~Exists(t, tr[t].target)
       THEN /\ file' = commit(t)
            /\ tr' = [tr EXCEPT ![t].req = "ok", ![t].staging = "absent", ![t].committed = TRUE]
       ELSE /\ tr' = [tr EXCEPT ![t].req = "refused"]
            /\ UNCHANGED file
    /\ UNCHANGED <<job, replaces, there>>

Renamed(t) ==
    /\ tr[t].pc = "renaming" /\ tr[t].req = "ok"
    /\ tr' = [tr EXCEPT ![t] =
            IF job[t].stream THEN [@ EXCEPT !.pc = "hashing"]
            ELSE [finishOnce(@, "done") EXCEPT !.pc = "over"]]
    /\ UNCHANGED <<job, file, replaces, there>>

RenameFails(t) ==
    /\ tr[t].pc = "renaming"
    /\ tr[t].req = "refused" \/ tr[t].sftp = "ended"
    /\ tr' = [tr EXCEPT ![t].pc = "unlinking", ![t].req = request(tr[t])]
    /\ UNCHANGED <<job, file, replaces, there>>

ServerUnlinks(t) ==
    /\ tr[t].pc = "unlinking" /\ tr[t].req = "sent"
    /\ tr' = [tr EXCEPT ![t].staging = "absent", ![t].req = "ok"]
    /\ UNCHANGED <<job, file, replaces, there>>

Unlinked(t) ==
    /\ tr[t].pc = "unlinking"
    /\ tr[t].req = "ok" \/ tr[t].sftp = "ended"
    /\ tr' = [tr EXCEPT ![t] = [finishOnce(@, "failed") EXCEPT !.pc = "over"]]
    /\ UNCHANGED <<job, file, replaces, there>>

-----------------------------------------------------------------------------
(* A download: the staging file is local, writing and renaming are calls.    *)
StatDone(t) ==
    /\ tr[t].pc = "stat"
    /\ tr' = [tr EXCEPT ![t].pc = "reading"]
    /\ UNCHANGED <<job, file, replaces, there>>

OpenLocal(t) ==
    /\ tr[t].pc = "reading" /\ job[t].stream
    /\ tr' = [tr EXCEPT ![t].pc = "streaming", ![t].staging = "partial"]
    /\ UNCHANGED <<job, file, replaces, there>>

\* All data have come, and the handle's close is answered.
ReadLast(t) ==
    /\ tr[t].pc = IF job[t].stream THEN "streaming" ELSE "reading"
    /\ tr[t].sftp = "open" /\ tr[t].req = "none"
    /\ tr' = [tr EXCEPT ![t].req = "ok"]
    /\ UNCHANGED <<job, file, replaces, there>>

\* Direct: the data are written to the staging file and renamed at once.
ReadEnds(t) ==
    /\ tr[t].pc = "reading" /\ ~job[t].stream /\ tr[t].req = "ok"
    /\ tr' = [tr EXCEPT ![t] = [finishOnce(@, "done") EXCEPT !.pc = "over", !.committed = TRUE]]
    /\ file' = [file EXCEPT ![To(t)][tr[t].target] = [of |-> t, whole |-> TRUE]]
    /\ UNCHANGED <<job, replaces, there>>

\* Streaming: the deadline may have removed the staging file.
Flushed(t) ==
    /\ tr[t].pc = "streaming" /\ tr[t].req = "ok"
    /\ IF tr[t].staging = "absent"
       THEN /\ tr' = [tr EXCEPT ![t] = [finishOnce(@, "failed") EXCEPT !.pc = "over"]]
            /\ UNCHANGED file
       ELSE /\ tr' = [tr EXCEPT ![t].pc = "hashing", ![t].staging = "absent", ![t].committed = TRUE]
            /\ file' = [file EXCEPT ![To(t)][tr[t].target] = [of |-> t, whole |-> TRUE]]
    /\ UNCHANGED <<job, replaces, there>>

\* Fault: the staging file of a download that fails stays.
ReadFailsLeaves(t) ==
    /\ tr[t].pc \in {"stat", "reading", "streaming"}
    /\ tr' = [tr EXCEPT ![t] = [finishOnce(@, "failed") EXCEPT !.pc = "over"]]
    /\ UNCHANGED <<job, file, replaces, there>>

\* The stat, the read or the local write fails.
ReadFails(t) ==
    /\ tr[t].pc \in {"stat", "reading", "streaming"}
    /\ tr' = [tr EXCEPT ![t] = [finishOnce(@, "failed") EXCEPT !.pc = "over", !.staging = "absent"]]
    /\ UNCHANGED <<job, file, replaces, there>>

\* sha256File reads the source of an upload, the target of a download.
Hashed(t) ==
    /\ tr[t].pc = "hashing"
    /\ tr' = [tr EXCEPT ![t] = [finishOnce(@, "done") EXCEPT !.pc = "over"]]
    /\ UNCHANGED <<job, file, replaces, there>>

HashFails(t) ==
    /\ tr[t].pc = "hashing"
    /\ tr' = [tr EXCEPT ![t] =
            IF job[t].up THEN [@ EXCEPT !.pc = "unlinking", !.req = request(tr[t])]
            ELSE [finishOnce(@, "failed") EXCEPT !.pc = "over"]]
    /\ UNCHANGED <<job, file, replaces, there>>

-----------------------------------------------------------------------------
(* A folder: its control is beside that of the archive it sends.             *)
clean(t, r) ==
    /\ tr' = [tr EXCEPT ![t].stage = "cleaning", ![t].result = r]
    /\ file' = [file EXCEPT !["local"][Archive(t)] = Nothing]

MakeDirectory(t) ==
    /\ tr[t].stage = "mkdir"
    /\ \/ /\ tr' = [tr EXCEPT ![t].stage = "packing"]
          /\ file' = IF Exists(t, tr[t].into) THEN file
                     ELSE [file EXCEPT !["remote"][tr[t].into] = [of |-> t, whole |-> FALSE]]
       \/ clean(t, "failed")
    /\ UNCHANGED <<job, replaces, there>>

Packed(t) ==
    /\ tr[t].stage = "packing"
    /\ file' = [file EXCEPT ![From(t)][Archive(t)] = [of |-> t, whole |-> TRUE]]
    /\ tr' = [tr EXCEPT ![t] =
            IF job[t].up THEN [@ EXCEPT !.stage = "listing"]
            ELSE [@ EXCEPT !.stage = "sending", !.pc = "opening", !.target = Archive(t)]]
    /\ UNCHANGED <<job, replaces, there>>

\* A tar that fails or is given up on is tried again in another way, once.
PackFails(t) ==
    /\ tr[t].stage = "packing" /\ ~tr[t].again
    /\ \E torn \in BOOLEAN, timedOut \in BOOLEAN :
        /\ file' = IF torn THEN [file EXCEPT ![From(t)][Archive(t)] = [of |-> t, whole |-> FALSE]] ELSE file
        /\ tr' = [tr EXCEPT ![t].again = TRUE, ![t].stray = job[t].up /\ timedOut]
    /\ UNCHANGED <<job, replaces, there>>

PackFailsAgain(t) ==
    /\ tr[t].stage = "packing" /\ tr[t].again
    /\ clean(t, "failed")
    /\ UNCHANGED <<job, replaces, there>>

startUnpacking(t) ==
    /\ tr' = [tr EXCEPT ![t].stage = "unpacking", ![t].again = FALSE]
    /\ file' = [file EXCEPT ![To(t)][tr[t].into] = [of |-> t, whole |-> FALSE]]

\* The members are listed and checked where the archive is local.
Listed(t) ==
    /\ tr[t].stage = "listing"
    /\ IF job[t].up
       THEN tr' = [tr EXCEPT ![t].stage = "sending", ![t].pc = "checking"] /\ UNCHANGED file
       ELSE startUnpacking(t)
    /\ UNCHANGED <<job, replaces, there>>

ListFails(t) ==
    /\ tr[t].stage = "listing"
    /\ clean(t, "failed")
    /\ UNCHANGED <<job, replaces, there>>

\* The promise of the archive's transfer is settled.
Sent(t) ==
    /\ tr[t].stage = "sending" /\ tr[t].settled
    /\ \/ tr[t].outcome # "done" /\ clean(t, "failed")
       \/ tr[t].outcome = "done" /\ job[t].up /\ startUnpacking(t)
       \/ tr[t].outcome = "done" /\ ~job[t].up /\ tr' = [tr EXCEPT ![t].stage = "listing"] /\ UNCHANGED file
    /\ UNCHANGED <<job, replaces, there>>

Unpacked(t) ==
    /\ tr[t].stage = "unpacking"
    /\ tr' = [tr EXCEPT ![t].stage = "cleaning", ![t].result = "done"]
    /\ file' = [file EXCEPT ![To(t)][tr[t].into] =
                    [of |-> t, whole |-> @.of = t /\ file[To(t)][Archive(t)] = [of |-> t, whole |-> TRUE]],
                            !["local"][Archive(t)] = Nothing]
    /\ UNCHANGED <<job, replaces, there>>

\* The other way to unpack is tried when the folder may be overwritten.
UnpackFails(t) ==
    /\ tr[t].stage = "unpacking"
    /\ IF job[t].up /\ ~tr[t].again
       THEN tr' = [tr EXCEPT ![t].again = TRUE] /\ UNCHANGED file
       ELSE \E timedOut \in BOOLEAN :
               /\ tr' = [tr EXCEPT ![t].stage = "cleaning", ![t].result = "failed",
                                   ![t].stray = @ \/ (~job[t].up /\ timedOut)]
               /\ file' = [file EXCEPT !["local"][Archive(t)] = Nothing]
    /\ UNCHANGED <<job, replaces, there>>

\* rm -f on the remote side, whose failure is ignored.
Cleaned(t) ==
    /\ tr[t].stage = "cleaning"
    /\ tr' = [tr EXCEPT ![t].stage = "returned"]
    /\ \E removed \in BOOLEAN :
        file' = IF removed THEN [file EXCEPT !["remote"][Archive(t)] = Nothing] ELSE file
    /\ UNCHANGED <<job, replaces, there>>

\* SIGKILL, half a second after the SIGTERM.
KillStray(t) ==
    /\ tr[t].stray
    /\ tr' = [tr EXCEPT ![t].stray = FALSE]
    /\ UNCHANGED <<job, file, replaces, there>>

-----------------------------------------------------------------------------
(* A folder member by member, through the transfer of a file.                *)
treeEnds(t, r) == [tr[t] EXCEPT !.stage = "returned", !.result = r, !.sftp = endSftp(tr[t])]

\* uploadFile or downloadFile of the next member.
nextMember(t) ==
    [tr[t] EXCEPT !.stage = "member", !.member = @ + 1, !.pc = "checking", !.sftp = "none",
                  !.req = "none", !.staging = "absent", !.committed = FALSE,
                  !.settled = FALSE, !.outcome = "none"]

\* openSftp: a channel for the directories of an upload, or to list the folder.
TreeOpens(t) ==
    /\ tr[t].stage = "channel"
    /\ tr' = [tr EXCEPT ![t].stage = "making", ![t].sftp = "open"]
    /\ UNCHANGED <<job, file, replaces, there>>

TreeOpenFails(t) ==
    /\ tr[t].stage = "channel"
    /\ tr' = [tr EXCEPT ![t] = treeEnds(t, "failed")]
    /\ UNCHANGED <<job, file, replaces, there>>

\* The channel may still open, and is ended then.
TreeOpenTimesOut(t) ==
    /\ tr[t].stage = "channel"
    /\ tr' = [tr EXCEPT ![t] = [treeEnds(t, "failed") EXCEPT !.pc = "opening", !.settled = TRUE]]
    /\ UNCHANGED <<job, file, replaces, there>>

\* sftpMkdirP of the folder, on the next channel of the parents of its members; a
\* download lists the folder and makes the directories as it needs them.
TreeMade(t) ==
    /\ tr[t].stage = "making" /\ tr[t].sftp = "open"
    /\ file' = IF Exists(t, tr[t].into) THEN file
               ELSE [file EXCEPT ![To(t)][tr[t].into] = [of |-> t, whole |-> FALSE]]
    /\ tr' = [tr EXCEPT ![t] =
            IF job[t].up /\ ~tr[t].again
            THEN [@ EXCEPT !.stage = "channel", !.sftp = "ended", !.again = TRUE]
            ELSE nextMember(t)]
    /\ UNCHANGED <<job, replaces, there>>

TreeFails(t) ==
    /\ tr[t].stage = "making"
    /\ tr' = [tr EXCEPT ![t] = treeEnds(t, "failed")]
    /\ UNCHANGED <<job, file, replaces, there>>

\* A member that was skipped counts; the first that fails ends the transfer, and what
\* was sent stays.
MemberSent(t) ==
    /\ tr[t].stage = "member" /\ tr[t].settled
    /\ tr' = [tr EXCEPT ![t] =
            CASE tr[t].outcome \notin {"done", "skipped"} -> treeEnds(t, "failed")
              [] tr[t].outcome \in {"done", "skipped"} /\ tr[t].member < Len(Members) -> nextMember(t)
              [] OTHER -> treeEnds(t, "done")]
    /\ UNCHANGED <<job, file, replaces, there>>

-----------------------------------------------------------------------------
Check(t) ==
    \/ Checked(t) \/ CheckedSkip(t) \/ CheckedRemote(t) \/ CheckedLocal(t) \/ CheckFails(t)
    \/ Moved(t) \/ MoveFails(t) \/ Named(t)

Upload(t) ==
    \/ Write(t) \/ StreamCloses(t) \/ StreamFails(t) \/ ServerRenames(t) \/ Renamed(t)
    \/ RenameFails(t) \/ ServerUnlinks(t) \/ Unlinked(t)

Download(t) ==
    \/ StatDone(t) \/ OpenLocal(t) \/ ReadLast(t) \/ ReadEnds(t) \/ Flushed(t) \/ ReadFails(t)

Folder(t) ==
    \/ MakeDirectory(t) \/ Packed(t) \/ PackFails(t) \/ PackFailsAgain(t) \/ Listed(t)
    \/ ListFails(t) \/ Sent(t) \/ Unpacked(t) \/ UnpackFails(t) \/ Cleaned(t) \/ KillStray(t)

Tree(t) == TreeMade(t) \/ TreeFails(t) \/ TreeOpens(t) \/ TreeOpenFails(t)

Next == \E t \in Transfers :
    \/ Tree(t) \/ TreeOpenTimesOut(t) \/ MemberSent(t)
    \/ Begin(t) \/ Check(t) \/ SftpOpens(t) \/ SftpFails(t) \/ LoseChannel(t) \/ Timeout(t)
    \/ Upload(t) \/ Download(t) \/ Hashed(t) \/ HashFails(t) \/ Folder(t)

\* Commands and local tars have a time limit, the deadline is a timer; the
\* server owes no answer.
Fairness == \A t \in Transfers :
    WF_vars(Check(t)) /\ WF_vars(Timeout(t)) /\ WF_vars(Folder(t))

Spec == Init /\ [][Next]_vars
FairSpec == Spec /\ Fairness

-----------------------------------------------------------------------------
(* Properties.                                                               *)

\* In a file at its final name every byte is there: what a stream wrote before it
\* failed, or before the deadline, is never renamed to the target.
WholeFilesOnly ==
    \A s \in Sides, n \in Names :
        ~file[s][n].whole => n[1] = "folder" \/ \E t \in Transfers : n = Archive(t) /\ s = From(t)

\* Whatever fails, the old content is still somewhere unless a transfer was told
\* to overwrite it, or two backups used the same .bak.
OldContentSurvives ==
    \A s \in Sides, p \in {n[1] : n \in Names} \ Transfers :
        LET users == {t \in Transfers : To(t) = s /\ job[t].folder = (p # "file")}
        IN  \/ ~there
            \/ \E t \in users : job[t].strategy = "overwrite" /\ (p # "file" \/ tr[t].committed)
            \/ Cardinality({t \in users : job[t].strategy = "backup"}) > 1
            \/ \E n \in Names : n[1] = p /\ file[s][n].of = Before

\* A transfer that has settled holds no channel, neither one that opened late nor one
\* whose server stopped answering; nor does one of a folder that has returned.
SettledReleasesChannel ==
    \A t \in Transfers : tr[t].settled \/ tr[t].stage = "returned" => tr[t].sftp # "open"

\* A download that is over leaves no staging file, also when the deadline removed it
\* before or while it was written; a folder upload leaves no local archive.
NothingLeftLocally ==
    \A t \in Transfers :
        /\ tr[t].pc = "over" /\ ~job[t].up => tr[t].staging = "absent"
        /\ tr[t].stage = "returned" /\ job[t].up => file["local"][Archive(t)] = Nothing

\* The same for the archive of a folder that is downloaded: does not hold, an answer that
\* was on its way at the deadline may still put it in place after the cleanup.
NothingLeftBehind ==
    \A t \in Transfers : tr[t].stage = "returned" => file["local"][Archive(t)] = Nothing

\* Two transfers told to take a free name do not take the same: does not hold, the name
\* is taken long after it was found free.
RenamedFilesStay ==
    \A t \in Transfers :
        tr[t].outcome = "done" /\ job[t].strategy = "rename" /\ tr[t].stage = "file"
            => \E u \in Transfers, n \in Names :
                    \/ file[To(t)][n].of = t
                    \/ u # t /\ job[u].strategy \in {"overwrite", "backup"}

\* A transfer that was asked for settles, although the server never answers. (A folder
\* that goes member by member waits for its directories and its list without a
\* deadline; each of its members settles.)
TransferSettles ==
    \A t \in Transfers :
        tr[t].pc = "checking" /\ (job[t].tree => tr[t].stage = "member")
            ~> IF job[t].folder /\ ~job[t].tree THEN tr[t].stage = "returned" ELSE tr[t].settled
=============================================================================
