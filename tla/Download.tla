------------------------------ MODULE Download ------------------------------
(***************************************************************************)
(* query_result --download_dir: processes that query the same task and     *)
(* download its images and videos into the same directory.                 *)
(*                                                                         *)
(* A query reads the row, asks the history service and stores the row it   *)
(* built.  A download takes the media in order.  It opens the URL, then    *)
(* creates the file under its final name, then copies into it; it stops at *)
(* the first error, and nothing keeps two processes from writing the same  *)
(* file.  A process may be killed between any two steps.                   *)
(***************************************************************************)
EXTENDS HistoryMedia

CONSTANTS
  Procs,    \* dreamina processes
  Answers,  \* history items the service may answer with
  SizeOf,   \* URL -> pieces in which its file is copied
  MaxReruns \* bound: how often a command is run again, in all

ASSUME AnswersAssumption == Answers \subseteq [Places -> Seq(Urls \cup {NoUrl})]
ASSUME SizesAssumption == SizeOf \in [Urls -> Nat \ {0}]
ASSUME RerunsAssumption == MaxReruns \in Nat

VARIABLES
  row,     \* the media of the task's result_json
  disk,    \* file name -> its pieces, for the files that exist
  pc,      \* process -> where it is
  media,   \* process -> the media of its localTask
  at,      \* process -> the media it is downloading
  offset,  \* process -> how many pieces it has copied
  paths,   \* process -> the paths of what it has downloaded
  report,  \* process -> what it printed
  reruns,  \* how often a command was run again
  last,    \* file name -> the process that created or truncated it last
  dirty    \* files cut off or written by two downloads of different URLs

shared == <<row, disk>>
history == <<last, dirty, reruns>>
vars == <<shared, pc, media, at, offset, paths, report, history>>

Hole == "hole"
Content(url) == [b \in 1..SizeOf[url] |-> url]
NoPaths == [images |-> <<>>, videos |-> <<>>]
Nothing == [kind |-> "nothing", images |-> <<>>, videos |-> <<>>]
Failed == [Nothing EXCEPT !.kind = "error"]

(* The order of downloadQueryResultMedia: images, then videos.             *)
Queue(p) ==
  [i \in DOMAIN media[p].images |-> <<"images", i>>]
    \o [i \in DOMAIN media[p].videos |-> <<"videos", i>>]
Kind(p) == Queue(p)[at[p]][1]
Index(p) == Queue(p)[at[p]][2]
Url(p) == media[p][Kind(p)][Index(p)].url
File(p) == Name(Kind(p), Index(p), Url(p))

Writers(n) == {p \in Procs : pc[p] = "copy" /\ File(p) = n}

Init ==
  /\ row = NoMedia
  /\ disk = <<>>
  /\ pc = [p \in Procs |-> "idle"]
  /\ media = [p \in Procs |-> NoMedia]
  /\ at = [p \in Procs |-> 1]
  /\ offset = [p \in Procs |-> 0]
  /\ paths = [p \in Procs |-> NoPaths]
  /\ report = [p \in Procs |-> Nothing]
  /\ last = <<>>
  /\ dirty = {}
  /\ reruns = 0

Goto(p, l) == pc' = [pc EXCEPT ![p] = l]
Show(p, r) == report' = [report EXCEPT ![p] = r]
Fail(p) == Goto(p, "done") /\ Show(p, Failed)

-----------------------------------------------------------------------------
(* The query.                                                              *)

Read(p) ==
  /\ pc[p] = "idle"
  /\ media' = [media EXCEPT ![p] = row]
  /\ Goto(p, "asking")
  /\ UNCHANGED <<shared, at, offset, paths, report, history>>

(* The service answers for the task, and the row is stored.                *)
Answered(p) ==
  /\ pc[p] = "asking"
  /\ \E item \in Answers : row' = MergeMedia(media[p], item)
  /\ media' = [media EXCEPT ![p] = row']
  /\ Goto(p, "queried")
  /\ UNCHANGED <<disk, at, offset, paths, report, history>>

(* The lookup fails, or the answer has no media: the stored ones are kept. *)
Unanswered(p) ==
  /\ pc[p] = "asking"
  /\ row' = media[p]
  /\ Goto(p, "queried")
  /\ UNCHANGED <<disk, media, at, offset, paths, report, history>>

(* The login, the row or the store fails.                                  *)
QueryFails(p) ==
  /\ pc[p] = "asking"
  /\ Fail(p)
  /\ UNCHANGED <<shared, media, at, offset, paths, history>>

(* Without --download_dir the media are shown as they are stored.          *)
ShowMedia(p) ==
  /\ pc[p] = "queried"
  /\ Show(p, [kind |-> "shown",
               images |-> [i \in DOMAIN media[p].images |-> media[p].images[i].view],
               videos |-> [i \in DOMAIN media[p].videos |-> media[p].videos[i].view]])
  /\ Goto(p, "done")
  /\ UNCHANGED <<shared, media, at, offset, paths, history>>

(* "result_json is not a media result payload", or no directory.           *)
NothingToDownload(p) ==
  /\ pc[p] = "queried"
  /\ Fail(p)
  /\ UNCHANGED <<shared, media, at, offset, paths, history>>

StartDownload(p) ==
  /\ pc[p] = "queried"
  /\ HasMedia(media[p])
  /\ Goto(p, "open")
  /\ UNCHANGED <<shared, media, at, offset, paths, report, history>>

-----------------------------------------------------------------------------
(* downloadFile, one media at a time.                                      *)

(* The server answers 200, or the local file can be read.                  *)
Open(p) ==
  /\ pc[p] = "open"
  /\ at[p] <= Len(Queue(p))
  /\ Goto(p, "create")
  /\ UNCHANGED <<shared, media, at, offset, paths, report, history>>

(* It does not, or the file cannot be created: the command fails.          *)
Refused(p) ==
  /\ \/ pc[p] = "create"
     \/ pc[p] = "open" /\ at[p] <= Len(Queue(p))
  /\ Fail(p)
  /\ UNCHANGED <<shared, media, at, offset, paths, history>>

With(f, n, x) == [m \in DOMAIN f \cup {n} |-> IF m = n THEN x ELSE f[m]]

(* os.Create empties the file, if there is one.                            *)
Create(p) ==
  /\ pc[p] = "create"
  /\ LET n == File(p)
         rivals == {q \in Writers(n) : Url(q) # Url(p)}
     IN  /\ disk' = With(disk, n, <<>>)
         /\ last' = With(last, n, p)
         /\ dirty' = IF rivals = {} THEN dirty \ {n} ELSE dirty \cup {n}
  /\ offset' = [offset EXCEPT ![p] = 0]
  /\ Goto(p, "copy")
  /\ UNCHANGED <<row, media, at, paths, report, reruns>>

(* A write beyond the end of a file that another process has truncated     *)
(* leaves a hole.                                                          *)
WrittenAt(file, i, x) ==
  [b \in 1..(IF i > Len(file) THEN i ELSE Len(file)) |->
     IF b = i THEN x ELSE IF b <= Len(file) THEN file[b] ELSE Hole]

(* io.Copy reads a piece and writes it where this process is in the file.  *)
Copy(p) ==
  /\ pc[p] = "copy"
  /\ offset[p] < SizeOf[Url(p)]
  /\ disk' = [disk EXCEPT ![File(p)] = WrittenAt(@, offset[p] + 1, Url(p))]
  /\ offset' = [offset EXCEPT ![p] = @ + 1]
  /\ UNCHANGED <<row, pc, media, at, paths, report, history>>

(* The connection or the disk fails: the partial file stays.               *)
CopyFails(p) ==
  /\ pc[p] = "copy"
  /\ offset[p] < SizeOf[Url(p)]
  /\ dirty' = dirty \cup {File(p)}
  /\ Fail(p)
  /\ UNCHANGED <<shared, media, at, offset, paths, last, reruns>>

Longer(lists, kind, n) == [lists EXCEPT ![kind] = Append(@, n)]

(* The end of the body counts as the end of the file, whatever came.       *)
Finish_Short(p) ==
  /\ pc[p] = "copy"
  /\ paths' = [paths EXCEPT ![p] = Longer(@, Kind(p), File(p))]
  /\ at' = [at EXCEPT ![p] = @ + 1]
  /\ Goto(p, "open")
  /\ UNCHANGED <<shared, media, offset, report, history>>

Finish(p) ==
  /\ pc[p] = "copy"
  /\ offset[p] = SizeOf[Url(p)]
  /\ paths' = [paths EXCEPT ![p] = Longer(@, Kind(p), File(p))]
  /\ at' = [at EXCEPT ![p] = @ + 1]
  /\ Goto(p, "open")
  /\ UNCHANGED <<shared, media, offset, report, history>>

(* downloadedTaskResultJSONView: the i-th path replaces the i-th URL.      *)
DownloadedView(p) ==
  LET Shown(kind) ==
        [i \in DOMAIN media[p][kind] |->
           IF i \in DOMAIN paths[p][kind] THEN paths[p][kind][i]
           ELSE media[p][kind][i].view]
  IN  [kind |-> "downloaded", images |-> Shown("images"), videos |-> Shown("videos")]

ShowDownloaded(p) ==
  /\ pc[p] = "open"
  /\ at[p] > Len(Queue(p))
  /\ Show(p, DownloadedView(p))
  /\ Goto(p, "done")
  /\ UNCHANGED <<shared, media, at, offset, paths, history>>

Kill(p) ==
  /\ pc[p] \notin {"idle", "done"}
  /\ dirty' = IF pc[p] = "copy" THEN dirty \cup {File(p)} ELSE dirty
  /\ Goto(p, "done")
  /\ UNCHANGED <<shared, media, at, offset, paths, report, last, reruns>>

(* The user runs the command again.                                        *)
Rerun(p) ==
  /\ pc[p] = "done"
  /\ reruns < MaxReruns
  /\ reruns' = reruns + 1
  /\ Goto(p, "idle")
  /\ media' = [media EXCEPT ![p] = NoMedia]
  /\ at' = [at EXCEPT ![p] = 1]
  /\ offset' = [offset EXCEPT ![p] = 0]
  /\ paths' = [paths EXCEPT ![p] = NoPaths]
  /\ Show(p, Nothing)
  /\ UNCHANGED <<shared, last, dirty>>

Next ==
  \E p \in Procs :
    \/ Read(p) \/ Answered(p) \/ Unanswered(p) \/ QueryFails(p)
    \/ ShowMedia(p) \/ NothingToDownload(p) \/ StartDownload(p)
    \/ Open(p) \/ Refused(p) \/ Create(p) \/ Copy(p) \/ CopyFails(p)
    \/ Finish(p) \/ ShowDownloaded(p) \/ Kill(p)
    \/ Rerun(p)

Spec == Init /\ [][Next]_vars

-----------------------------------------------------------------------------
Stored == UNION {{m.images[i] : i \in DOMAIN m.images}
                   \cup {m.videos[i] : i \in DOMAIN m.videos} :
                 m \in {row} \cup {media[p] : p \in Procs}}

(* A file that nobody writes and that was neither cut off nor written by   *)
(* downloads of different URLs since it was last created holds one media   *)
(* from its first byte to its last, however the processes that downloaded  *)
(* it overlapped.                                                          *)
FilesEndWhole ==
  \A n \in DOMAIN disk \ dirty :
    Writers(n) = {} => \E u \in Urls : disk[n] = Content(u)

(* A download that is reported names a file for each media of the result,  *)
(* in the result's order, and each holds that media, unless another        *)
(* process has created the file anew or it is one of the dirty ones.       *)
ReportIsComplete ==
  \A p \in Procs : report[p].kind = "downloaded" =>
    \A kind \in Lists :
      /\ DOMAIN report[p][kind] = DOMAIN media[p][kind]
      /\ \A i \in DOMAIN media[p][kind] :
           LET n == report[p][kind][i]
           IN  /\ n \in DOMAIN disk
               /\ last[n] = p /\ n \notin dirty =>
                    disk[n] = Content(media[p][kind][i].url)

(* What query_result shows is what it would download: however often the    *)
(* answers changed, an entry's shown URL and its own URL are of the same   *)
(* answer.                                                                 *)
ShownIsDownloaded == \A e \in Stored : e.view = e.url
=============================================================================
