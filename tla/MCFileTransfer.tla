--------------------------- MODULE MCFileTransfer ---------------------------
EXTENDS FileTransfer

CONSTANTS t1, t2

Job(u, f, s, x) == [up |-> u, folder |-> f, tree |-> FALSE, stream |-> s, strategy |-> x]

\* Each branch of the checks on each side, and both ways to send.
Uploads == <<Job(TRUE, FALSE, TRUE, "overwrite"), Job(TRUE, FALSE, FALSE, "rename"),
            Job(TRUE, FALSE, FALSE, "backup"), Job(TRUE, FALSE, TRUE, "skip")>>
Downloads == <<Job(FALSE, FALSE, FALSE, "overwrite"), Job(FALSE, FALSE, TRUE, "backup"),
              Job(FALSE, FALSE, FALSE, "rename")>>
FolderUpload == Job(TRUE, TRUE, FALSE, "overwrite")
FolderDownload == Job(FALSE, TRUE, FALSE, "skip")
TreeUpload(x) == [Job(TRUE, TRUE, FALSE, x) EXCEPT !.tree = TRUE]
TreeDownload(x) == [Job(FALSE, TRUE, FALSE, x) EXCEPT !.tree = TRUE]
MCMembers == <<"m1", "m2">>

Both(a, b) == [t \in {t1, t2} |-> IF t = t1 THEN a ELSE b]
Pairs(jobs) == UNION {{Both(jobs[i], jobs[j]) : j \in i..Len(jobs)} : i \in DOMAIN jobs}

\* Transfers in one direction meet on a path, and so do folders and folders; which
\* of the two is which makes no difference.
MCWorkloads ==
    Pairs(Uploads) \cup Pairs(Downloads)
    \cup {Both(FolderUpload, FolderDownload),
          Both(TreeUpload("backup"), Job(FALSE, FALSE, FALSE, "overwrite")),
          Both(TreeDownload("backup"), TreeDownload("rename"))}
=============================================================================
