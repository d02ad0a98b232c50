------------------------------ MODULE FileSync ------------------------------
(***************************************************************************)
(* The way of a file from one host to another: the command client walks    *)
(* the tree of an announced peer over one connection and queues a download *)
(* for each file that is missing; the file client fetches the files and    *)
(* writes them.  The servers answer from the disk as it is at that moment. *)
(*                                                                         *)
(* A path is a sequence of names, <<>> is "/".  A file is a sequence of    *)
(* blocks, the pieces in which a write becomes visible.  That announced    *)
(* peers and jobs are in queues is MessageQueue, that a server answers is  *)
(* SelectServer, that a message arrives whole is TcpMessage.               *)
(***************************************************************************)
EXTENDS Naturals, Sequences

CONSTANTS Hosts,
          Stable,     \* those with a hardware address, which keep their id
          Paths,      \* the paths at which users write files
          Contents,   \* what they may write there
          Blocks,     \* what files consist of
          Text,       \* the block "requested invalid directory"
          Garbage,    \* a block of memory that was freed
          Cut,        \* for each name with a space in it what is before the space:
                      \* <<>> or <<name>>
          MaxDepth,   \* the calls of download_remote_directory that the stack has room for
          MaxFaults   \* bound on the faults and the changes by users

ASSUME FileSyncAssumption ==
  /\ Paths \subseteq Seq(STRING) \ {<<>>}
  /\ Contents \in [Paths -> SUBSET Seq(Blocks)] /\ {Text, Garbage} \subseteq Blocks
  /\ \A n \in DOMAIN Cut : Cut[n] \in Seq(STRING)
  /\ MaxDepth \in Nat \ {0} /\ MaxFaults \in Nat

VARIABLES
  up,       \* the hosts on which the program runs
  disk,     \* sync_files of a host: what its files contain
  known,    \* the peers that the broadcast thread has announced in this run
  seen,     \* the command client's queue
  walk,     \* the command client: the peer it asks, whether the connection is
            \* up, and the calls of download_remote_directory
  jobs,     \* the file client's queue
  dl,       \* the file client's download
  strtok,   \* the server that was the last one of its process to call strtok,
            \* which has one pointer for all threads; "none" if no request is
            \* being parsed
  made,     \* auxiliary: what the user wrote at a path first
  changed,  \* auxiliary: the paths that users deleted or wrote again
  astray,   \* auxiliary: the paths for which something else was sent than the file
  confused, \* auxiliary: a server looked at another path than it was asked for,
            \* or a client read entries in what was no reply
  trouble,  \* auxiliary: a host went down, could not be reached, or had no room
  faults    \* bounded by MaxFaults

clientVars == <<known, seen, walk>>
mixVars == <<strtok, astray, confused>>
auxVars == <<made, changed, trouble, faults>>
vars == <<up, disk, clientVars, jobs, dl, mixVars, auxVars>>

NoWalk(h) == [peer |-> h, open |-> FALSE, stack |-> <<>>]
NoDownload(h) ==
  [phase |-> "idle", from |-> h, path |-> <<>>, size |-> 0, data |-> <<>>, pos |-> 0]
Request(job) == [phase |-> "asked", from |-> job.from, path |-> job.path,
                 size |-> 0, data |-> <<>>, pos |-> 0]

NoFiles == [p \in {} |-> <<>>]

\* The programs have just been started.
AtRest ==
  /\ up = Hosts
  /\ known = [h \in Hosts |-> {}] /\ seen = [h \in Hosts |-> <<>>]
  /\ walk = [h \in Hosts |-> NoWalk(h)]
  /\ jobs = [h \in Hosts |-> <<>>] /\ dl = [h \in Hosts |-> NoDownload(h)]
  /\ strtok = [h \in Hosts |-> "none"] /\ astray = {} /\ confused = FALSE
  /\ changed = {} /\ trouble = FALSE

Init ==
  /\ AtRest
  /\ disk = [h \in Hosts |-> NoFiles] /\ made = NoFiles /\ faults = 0

\* The file of path p is there on host h.
Has(h, p) == p \in DOMAIN disk[h]

\* Function f with value v at p.
With(f, p, v) == [q \in DOMAIN f \cup {p} |-> IF q = p THEN v ELSE f[q]]

\* Path p leads through directory d.
Below(d, p) == Len(d) < Len(p) /\ SubSeq(p, 1, Len(d)) = d

\* A file is where p needs a directory, or the other way round.
Blocked(h, p) == \E q \in DOMAIN disk[h] : Below(q, p) \/ Below(p, q)

Fault == faults < MaxFaults /\ faults' = faults + 1

-----------------------------------------------------------------------------
(* The command client, with the command server's answer.                   *)

\* Mutant: also when it is seen again, which broadcast.c:149 has in mind.
Announce_again(h, g) ==
  /\ h \in up /\ g # h /\ Len(seen[h]) < 2
  /\ known' = [known EXCEPT ![h] = @ \cup {g}]
  /\ seen' = [seen EXCEPT ![h] = Append(@, g)]
  /\ UNCHANGED <<up, disk, walk, jobs, dl, mixVars, auxVars>>

\* peer_seen of the broadcast thread: once in a run (Discovery).
Announce(h, g) ==
  /\ h \in up /\ g # h /\ g \notin known[h]
  /\ known' = [known EXCEPT ![h] = @ \cup {g}]
  /\ seen' = [seen EXCEPT ![h] = Append(@, g)]
  /\ UNCHANGED <<up, disk, walk, jobs, dl, mixVars, auxVars>>

\* A call of download_remote_directory that has sent its request.
Asked(d) == [dir |-> d, state |-> "asked", entries |-> {}]

\* connect_with_timeout, then the request for "/".
Connect(h) ==
  /\ h \in up /\ walk[h].stack = <<>> /\ seen[h] # <<>> /\ Head(seen[h]) \in up
  /\ walk' = [walk EXCEPT ![h] =
                [peer |-> Head(seen[h]), open |-> TRUE, stack |-> <<Asked(<<>>)>>]]
  /\ seen' = [seen EXCEPT ![h] = Tail(@)]
  /\ UNCHANGED <<up, disk, known, jobs, dl, mixVars, auxVars>>

\* The connection fails: on to the next message, this one is not tried again.
ConnectFails(h) ==
  /\ h \in up /\ walk[h].stack = <<>> /\ seen[h] # <<>>
  /\ \/ Head(seen[h]) \notin up /\ UNCHANGED <<faults, trouble>>
     \/ Fault /\ trouble' = TRUE
  /\ seen' = [seen EXCEPT ![h] = Tail(@)]
  /\ UNCHANGED <<up, disk, known, walk, jobs, dl, mixVars, made, changed>>

Top(h) == walk[h].stack[Len(walk[h].stack)]
Calls(h) == SubSeq(walk[h].stack, 1, Len(walk[h].stack) - 1)

\* The innermost call of h has come to this state.
Waits(h, state) == h \in up /\ walk[h].stack # <<>> /\ Top(h).state = state

\* A server of g has split the request of h in two, but not taken its path.
InParse(g, h) ==
  walk[h].peer = g /\ walk[h].open /\ walk[h].stack # <<>> /\ Top(h).state = "parsing"
InFileParse(g, h) == dl[h].from = g /\ dl[h].phase = "parsing"

\* Its first strtok, in the one thread that serves all.
SplitRequest(h) ==
  /\ Waits(h, "asked") /\ walk[h].open
  /\ \A k \in Hosts : ~InParse(walk[h].peer, k)
  /\ walk' = [walk EXCEPT ![h].stack = Append(Calls(h), [Top(h) EXCEPT !.state = "parsing"])]
  /\ strtok' = [strtok EXCEPT ![walk[h].peer] = "command"]
  /\ UNCHANGED <<up, disk, known, seen, jobs, dl, astray, confused, auxVars>>

\* No name of path d has a space.
Clean(d) == \A i \in DOMAIN d : d[i] \notin DOMAIN Cut

\* The set of what the second strtok makes of path d, which ends at its first space.
Parsed(d) ==
  IF Clean(d) THEN {d}
  ELSE {SubSeq(d, 1, i - 1) \o Cut[d[i]] :
          i \in {j \in DOMAIN d : d[j] \in DOMAIN Cut /\ Clean(SubSeq(d, 1, j - 1))}}

\* Where a path that comes from other memory may lead: to a directory, or to a
\* file, which has no entries, as what does not exist.
Places(g) ==
  {<<>>} \cup UNION {{SubSeq(p, 1, i) : i \in 0 .. Len(p)} : p \in DOMAIN disk[g]}

\* The entries of directory d of host g as the client reads them in the reply to
\* its request for dir.  For an empty or missing directory nothing is an entry.
Listing(g, d, dir) ==
  LET names == {p[Len(d) + 1] : p \in {q \in DOMAIN disk[g] : Below(d, q)}}
  IN  {[path |-> Append(dir, n), file |-> Has(g, Append(d, n))] : n \in names}

\* The innermost call with the entries it has received.
Listed(h, es) ==
  walk' = [walk EXCEPT ![h].stack =
             Append(Calls(h), [Top(h) EXCEPT !.state = "listed", !.entries = es])]

\* The second strtok, on the other server's buffer if that one has called it in
\* between, and the reply.
Answer(h) ==
  /\ Waits(h, "parsing") /\ walk[h].open
  /\ LET g == walk[h].peer  dir == Top(h).dir
     IN  /\ \E d \in IF strtok[g] = "command" THEN Parsed(dir) ELSE Places(g) :
              Listed(h, Listing(g, d, dir))
         /\ confused' = (confused \/ strtok[g] # "command" \/ ~Clean(dir))
         /\ strtok' = [strtok EXCEPT ![g] = IF \E k \in Hosts : InFileParse(g, k)
                                            THEN "command" ELSE "none"]
  /\ UNCHANGED <<up, disk, known, seen, jobs, dl, astray, auxVars>>

\* Any names that users have given, read as entries of dir.
Leftovers(dir) ==
  UNION {{[path |-> Append(dir, p[i]), file |-> i = Len(p)] : i \in DOMAIN p} :
           p \in DOMAIN made}

\* The receive returns 0, or -1: then the part of the reply that has come and
\* what former replies have left in the buffer count as entries.
NoAnswer(h) ==
  /\ Waits(h, "asked") \/ Waits(h, "parsing")
  /\ ~walk[h].open
  /\ \E es \in SUBSET Leftovers(Top(h).dir) :
       Listed(h, es) /\ confused' = (confused \/ es # {})
  /\ UNCHANGED <<up, disk, known, seen, jobs, dl, strtok, astray, auxVars>>

\* The caller's frame with entry e done.
Done(h, e) == Append(Calls(h), [Top(h) EXCEPT !.entries = @ \ {e}])

\* The next entry is a directory: the recursive call, whose request cannot always
\* be sent without the peer.  Without room on the stack only Crash is left.
Descend(h, e) ==
  /\ Waits(h, "listed") /\ e \in Top(h).entries /\ ~e.file
  /\ Len(walk[h].stack) < MaxDepth
  /\ \E called \in IF walk[h].open THEN {TRUE} ELSE BOOLEAN :
       walk' = [walk EXCEPT ![h].stack =
                  IF called THEN Append(Done(h, e), Asked(e.path)) ELSE Done(h, e)]
  /\ UNCHANGED <<up, disk, known, seen, jobs, dl, mixVars, auxVars>>

\* The next entry is a file.
CheckFile(h, e) ==
  /\ Waits(h, "listed") /\ e \in Top(h).entries /\ e.file
  /\ walk' = [walk EXCEPT ![h].stack = Done(h, e)]
  /\ jobs' = IF ~Has(h, e.path)
             THEN [jobs EXCEPT ![h] = Append(@, [from |-> walk[h].peer, path |-> e.path])]
             ELSE jobs
  /\ UNCHANGED <<up, disk, known, seen, dl, mixVars, auxVars>>

\* The call returns; after the first one the connection is closed.
Return(h) ==
  /\ Waits(h, "listed") /\ Top(h).entries = {}
  /\ walk' = [walk EXCEPT ![h] =
                IF Calls(h) = <<>> THEN NoWalk(h) ELSE [@ EXCEPT !.stack = Calls(h)]]
  /\ UNCHANGED <<up, disk, known, seen, jobs, dl, mixVars, auxVars>>

CommandClient(h) ==
  \/ Connect(h) \/ ConnectFails(h) \/ SplitRequest(h) \/ Answer(h) \/ NoAnswer(h)
  \/ Return(h)
  \/ \E e \in (IF walk[h].stack = <<>> THEN {} ELSE Top(h).entries) :
       Descend(h, e) \/ CheckFile(h, e)

-----------------------------------------------------------------------------
(* The file client, with the file server's answer.                         *)

\* connect_with_timeout, then the request.
Fetch(h) ==
  /\ h \in up /\ dl[h].phase = "idle" /\ jobs[h] # <<>> /\ Head(jobs[h]).from \in up
  /\ dl' = [dl EXCEPT ![h] = Request(Head(jobs[h]))]
  /\ jobs' = [jobs EXCEPT ![h] = Tail(@)]
  /\ UNCHANGED <<up, disk, clientVars, mixVars, auxVars>>

FetchFails(h) ==
  /\ h \in up /\ dl[h].phase = "idle" /\ jobs[h] # <<>>
  /\ \/ Head(jobs[h]).from \notin up /\ UNCHANGED <<faults, trouble>>
     \/ Fault /\ trouble' = TRUE
  /\ jobs' = [jobs EXCEPT ![h] = Tail(@)]
  /\ UNCHANGED <<up, disk, clientVars, dl, mixVars, made, changed>>

Writing(h, p) == dl[h].phase = "write" /\ dl[h].path = p

\* The file server's first strtok, in the one thread that serves all.
SplitFileRequest(h) ==
  /\ dl[h].phase = "asked"
  /\ \A k \in Hosts : dl[k].from = dl[h].from => dl[k].phase \notin {"parsing", "reading"}
  /\ dl' = [dl EXCEPT ![h].phase = "parsing"]
  /\ strtok' = [strtok EXCEPT ![dl[h].from] = "file"]
  /\ UNCHANGED <<up, disk, clientVars, jobs, astray, confused, auxVars>>

\* Mutant: the size is one too small.
Stat_short(h) ==
  /\ dl[h].phase = "parsing"
  /\ LET g == dl[h].from  p == dl[h].path
         found == strtok[g] = "file" /\ Has(g, p)
     IN  /\ dl' = IF found
                  THEN [dl EXCEPT ![h] = [@ EXCEPT !.phase = "reading",
                                                        !.size = Len(disk[g][p]) - 1]]
                  ELSE [dl EXCEPT ![h] = [@ EXCEPT !.phase = "received", !.data = <<Text>>]]
         /\ astray' = IF found THEN astray ELSE astray \cup {p}
         /\ confused' = (confused \/ strtok[g] # "file")
         /\ strtok' = [strtok EXCEPT ![g] = IF \E k \in Hosts : InParse(g, k)
                                            THEN "file" ELSE "none"]
  /\ UNCHANGED <<up, disk, clientVars, jobs, auxVars>>

\* The second strtok, up to ">", and lstat.  On the other server's buffer it finds
\* a directory with something behind it, or nothing that starts with "/": in any
\* case no file, and then the text of the error is the reply.  A file that the
\* server's host is just writing is there as well.
Stat(h) ==
  /\ dl[h].phase = "parsing"
  /\ LET g == dl[h].from  p == dl[h].path
         found == strtok[g] = "file" /\ Has(g, p)
     IN  /\ dl' = IF found
                  THEN [dl EXCEPT ![h] = [@ EXCEPT !.phase = "reading",
                                                        !.size = Len(disk[g][p])]]
                  ELSE [dl EXCEPT ![h] = [@ EXCEPT !.phase = "received", !.data = <<Text>>]]
         /\ astray' = IF found THEN astray ELSE astray \cup {p}
         /\ confused' = (confused \/ strtok[g] # "file")
         /\ strtok' = [strtok EXCEPT ![g] = IF \E k \in Hosts : InParse(g, k)
                                            THEN "file" ELSE "none"]
  /\ UNCHANGED <<up, disk, clientVars, jobs, auxVars>>

\* open and read of the server.  When they do not give what lstat said the buffer
\* is freed, and sent all the same: the file has changed, or there is no descriptor.
Read(h) ==
  /\ dl[h].phase = "reading"
  /\ LET g == dl[h].from  p == dl[h].path  n == dl[h].size
         there == Has(g, p) /\ Len(disk[g][p]) >= n
         Send(data) == dl' = [dl EXCEPT ![h] = [@ EXCEPT !.phase = "received", !.data = data]]
     IN  \/ there /\ Send(SubSeq(disk[g][p], 1, n)) /\ UNCHANGED <<astray, trouble, faults>>
         \/ /\ Send([i \in 1 .. n |-> Garbage]) /\ astray' = astray \cup {p}
            /\ IF there THEN Fault /\ trouble' = TRUE ELSE UNCHANGED <<trouble, faults>>
  /\ UNCHANGED <<up, disk, clientVars, jobs, strtok, confused, made, changed>>

\* Nothing was received: the peer went down, or the body is empty.
NoData(h) ==
  /\ dl[h].phase = "broken" \/ (dl[h].phase = "received" /\ dl[h].data = <<>>)
  /\ dl' = [dl EXCEPT ![h] = NoDownload(h)]
  /\ UNCHANGED <<up, disk, clientVars, jobs, mixVars, auxVars>>

\* Mutant: with O_TRUNC.
Open_truncates(h) ==
  /\ dl[h].phase = "received" /\ dl[h].data # <<>> /\ ~Blocked(h, dl[h].path)
  /\ dl' = [dl EXCEPT ![h].phase = "write"]
  /\ disk' = [disk EXCEPT ![h] = With(@, dl[h].path, <<>>)]
  /\ UNCHANGED <<up, clientVars, jobs, mixVars, auxVars>>

\* mkdirp and open: O_CREAT without O_TRUNC.
Open(h) ==
  /\ dl[h].phase = "received" /\ dl[h].data # <<>> /\ ~Blocked(h, dl[h].path)
  /\ dl' = [dl EXCEPT ![h].phase = "write"]
  /\ disk' = IF Has(h, dl[h].path) THEN disk
             ELSE [disk EXCEPT ![h] = With(@, dl[h].path, <<>>)]
  /\ UNCHANGED <<up, clientVars, jobs, mixVars, auxVars>>

\* Mutant: mkdirp is left out.
OpenFails_nodir(h) ==
  /\ dl[h].phase = "received" /\ dl[h].data # <<>>
  /\ LET p == dl[h].path
         dir == SubSeq(p, 1, Len(p) - 1)
     IN  \/ Blocked(h, p) /\ UNCHANGED <<faults, trouble>>
         \/ ~(\E q \in DOMAIN disk[h] : Below(dir, q)) /\ UNCHANGED <<faults, trouble>>
         \/ Fault /\ trouble' = TRUE
  /\ dl' = [dl EXCEPT ![h] = NoDownload(h)]
  /\ UNCHANGED <<up, disk, clientVars, jobs, mixVars, made, changed>>

\* There is no place for the file, or no descriptor is left: none of the files
\* written before was closed.
OpenFails(h) ==
  /\ dl[h].phase = "received" /\ dl[h].data # <<>>
  /\ \/ Blocked(h, dl[h].path) /\ UNCHANGED <<faults, trouble>>
     \/ Fault /\ trouble' = TRUE
  /\ dl' = [dl EXCEPT ![h] = NoDownload(h)]
  /\ UNCHANGED <<up, disk, clientVars, jobs, mixVars, made, changed>>

\* Mutant: the file is opened with O_APPEND.
Put_append(f, i, b) == Append(f, b)

\* File f with block i written.
Put(f, i, b) == IF i <= Len(f) THEN [f EXCEPT ![i] = b] ELSE Append(f, b)

\* write, as it becomes visible to the servers of this host.
Write(h) ==
  /\ dl[h].phase = "write"
  /\ LET p == dl[h].path  i == dl[h].pos + 1
     IN  /\ disk' = [disk EXCEPT ![h][p] = Put(@, i, dl[h].data[i])]
         /\ dl' = IF i = Len(dl[h].data) THEN [dl EXCEPT ![h] = NoDownload(h)]
                  ELSE [dl EXCEPT ![h].pos = i]
  /\ UNCHANGED <<up, clientVars, jobs, mixVars, auxVars>>

\* The disk is full: a short write is not noticed.
ShortWrite(h) ==
  /\ dl[h].phase = "write" /\ Fault /\ trouble' = TRUE
  /\ dl' = [dl EXCEPT ![h] = NoDownload(h)]
  /\ UNCHANGED <<up, disk, clientVars, jobs, mixVars, made, changed>>

FileClient(h) ==
  \/ Fetch(h) \/ FetchFails(h) \/ SplitFileRequest(h) \/ Stat(h) \/ Read(h) \/ NoData(h)
  \/ Open(h) \/ OpenFails(h) \/ Write(h) \/ ShortWrite(h)

-----------------------------------------------------------------------------
(* Users, and hosts that go down.                                          *)

\* Nobody has or had a file of path p.
Free(p) == p \notin DOMAIN made /\ \A h \in Hosts : ~Has(h, p)

\* A user writes a file.  One with the same path, anywhere, is in conflict.
Make(h, p, c) ==
  /\ Has(h, p) => disk[h][p] # c
  /\ ~Blocked(h, p)
  /\ IF Free(p)
     THEN /\ made' = With(made, p, c) /\ UNCHANGED <<changed, faults>>
     ELSE /\ Fault /\ changed' = changed \cup {p} /\ UNCHANGED made
  /\ disk' = [disk EXCEPT ![h] = With(@, p, c)]
  /\ UNCHANGED <<up, clientVars, jobs, dl, mixVars, trouble>>

\* What is still being written to a deleted file nobody sees.
Delete(h, p) ==
  /\ Has(h, p) /\ Fault
  /\ disk' = [disk EXCEPT ![h] = [q \in DOMAIN @ \ {p} |-> @[q]]]
  /\ changed' = changed \cup {p}
  /\ dl' = IF Writing(h, p) THEN [dl EXCEPT ![h] = NoDownload(h)] ELSE dl
  /\ UNCHANGED <<up, clientVars, jobs, mixVars, made, trouble>>

\* The process on h ends, and with it its connections; the disk stays.  Also by the
\* SIGPIPE of a send to a peer that is gone, which nobody handles; by a null pointer
\* where the second strtok finds the other buffer at its end; and by a call of
\* download_remote_directory for which the stack has no room.
Crash(h) ==
  /\ h \in up /\ up' = up \ {h} /\ Fault /\ trouble' = TRUE
  /\ known' = [known EXCEPT ![h] = {}] /\ seen' = [seen EXCEPT ![h] = <<>>]
  /\ jobs' = [jobs EXCEPT ![h] = <<>>]
  /\ walk' = [g \in Hosts |-> IF g = h THEN NoWalk(h)
                              ELSE IF walk[g].peer = h THEN [walk[g] EXCEPT !.open = FALSE]
                              ELSE walk[g]]
  /\ dl' = [g \in Hosts |->
              IF g = h THEN NoDownload(h)
              ELSE IF dl[g].from = h /\ dl[g].phase \in {"asked", "parsing", "reading"}
                   THEN [dl[g] EXCEPT !.phase = "broken"]
              ELSE dl[g]]
  /\ UNCHANGED <<disk, mixVars, made, changed>>

\* A server of g calls strtok for a client that went down meanwhile, while the
\* request of another one is being parsed.
ServeNobody(g) ==
  /\ g \in up /\ trouble /\ \E h \in Hosts : InParse(g, h) \/ InFileParse(g, h)
  /\ \E s \in {"command", "file"} : strtok' = [strtok EXCEPT ![g] = s]
  /\ UNCHANGED <<up, disk, clientVars, jobs, dl, astray, confused, auxVars>>

\* The program starts again; with another id (get_own_id) it is a new peer.
Start(h) ==
  /\ h \notin up /\ up' = up \cup {h}
  /\ known' = IF h \in Stable THEN known ELSE [g \in Hosts |-> known[g] \ {h}]
  /\ UNCHANGED <<disk, seen, walk, jobs, dl, mixVars, auxVars>>

Next ==
  \E h \in Hosts :
    \/ CommandClient(h) \/ FileClient(h)
    \/ \E g \in Hosts : Announce(h, g)
    \/ \E p \in DOMAIN disk[h] : Delete(h, p)
    \/ \E p \in Paths : \E c \in Contents[p] : Make(h, p, c)
    \/ Crash(h) \/ ServeNobody(h) \/ Start(h)

Spec == Init /\ [][Next]_vars

\* The two clients of every host run, and the servers that they ask.
FairSpec ==
  Spec /\ \A h \in Hosts : WF_vars(CommandClient(h)) /\ WF_vars(FileClient(h))
-----------------------------------------------------------------------------
(* Properties.                                                             *)

\* Host h has the file at p as the user made it.
Whole(h, p) == p \in DOMAIN made /\ Has(h, p) /\ disk[h][p] = made[p]

Names == Seq(STRING)
IsFiles(f) == f \in [DOMAIN f -> Seq(Blocks)] /\ DOMAIN f \subseteq Names \ {<<>>}
Entry == [path : Names \ {<<>>}, file : BOOLEAN]
Frame == [dir : Names, state : {"asked", "parsing", "listed"}, entries : SUBSET Entry]
Walk == [peer : Hosts, open : BOOLEAN, stack : Seq(Frame)]
Job == [from : Hosts, path : Names \ {<<>>}]
Phases == {"idle", "asked", "parsing", "reading", "broken", "received", "write"}
Download == [phase : Phases, from : Hosts, path : Names,
             size : Nat, data : Seq(Blocks), pos : Nat]
InOrder(r) ==
  /\ r.phase # "idle" => r.path # <<>>
  /\ IF r.phase = "write" THEN r.pos < Len(r.data) ELSE r.pos = 0

DiskOK ==
  /\ IsFiles(made) /\ DOMAIN made \subseteq Paths
  /\ DOMAIN disk = Hosts /\ \A h \in Hosts : IsFiles(disk[h])

WalkOK ==
  /\ known \in [Hosts -> SUBSET Hosts] /\ seen \in [Hosts -> Seq(Hosts)]
  /\ walk \in [Hosts -> Walk] /\ \A h \in Hosts : Len(walk[h].stack) <= MaxDepth

DownloadOK ==
  /\ jobs \in [Hosts -> Seq(Job)] /\ dl \in [Hosts -> Download]
  /\ \A h \in Hosts : InOrder(dl[h])

TypeOK ==
  /\ up \subseteq Hosts /\ DiskOK /\ WalkOK /\ DownloadOK
  /\ strtok \in [Hosts -> {"command", "file", "none"}]
  /\ changed \subseteq Names \ {<<>>} /\ astray \subseteq Names \ {<<>>}
  /\ confused \in BOOLEAN /\ trouble \in BOOLEAN /\ faults \in 0 .. MaxFaults

\* Whatever happens, crashes, short writes and confused servers included: each block
\* in sync_files is the one that a user made at its place, or the error text of a
\* server that was confused or asked by a confused client, or freed memory of a
\* server that had no descriptor; until users change the file.
Genuine == \A h \in Hosts : \A p \in DOMAIN disk[h] \ changed :
  \A i \in DOMAIN disk[h][p] :
    \/ p \in DOMAIN made /\ i \in DOMAIN made[p] /\ disk[h][p][i] = made[p][i]
    \/ p \in astray /\ \/ confused /\ i = 1 /\ disk[h][p][i] = Text
                       \/ trouble /\ disk[h][p][i] = Garbage

\* Where nobody was confused, went down, or was out of reach or room, each file that
\* is not being written and was not changed is what a user made: "this file gets
\* downloaded" (mainpage.dox:4).
Downloaded == ~confused /\ ~trouble =>
  \A h \in Hosts : \A p \in DOMAIN disk[h] \ changed : Whole(h, p) \/ Writing(h, p)

\* The hosts that have the file; a step is one of Sync: a file is made or
\* copied whole and stays, whatever crashes, is written in part or fetched again,
\* unless users change it or something else is sent for it.
spoilt == Paths \cap (changed \cup astray)
have == [h \in Hosts |-> {p \in Paths \ spoilt : Whole(h, p)}]
S == INSTANCE Sync
ImplementsSync == S!Spec

\* The paths whose directories have no space in their names.
Plain == {p \in Paths : Clean(SubSeq(p, 1, Len(p) - 1))}

\* Between two hosts, a file that the peer has when the command client turns to it
\* is here in the end, unless users change it or have a file in its way, a host could
\* not be reached, or somebody was confused.
Synced == \A h \in Hosts : \A g \in Hosts \ {h} : \A p \in Plain :
  /\ h \in up /\ seen[h] # <<>> /\ Head(seen[h]) = g /\ Whole(g, p) /\ made[p] # <<>>
    ~> Whole(h, p) \/ Blocked(h, p) \/ p \in changed \/ trouble \/ confused

\* A peer is asked for each of its files once, also by a confused client: no two
\* jobs of a host are the same as long as its peers run.
JobsOnce == trouble \/
  \A h \in Hosts : \A i, j \in DOMAIN jobs[h] : jobs[h][i] = jobs[h][j] => i = j
=============================================================================
