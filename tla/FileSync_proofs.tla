--------------------------- MODULE FileSync_proofs ---------------------------
(* Theorems about FileSync, for any hosts, paths, contents and faults.     *)
EXTENDS FileSync, TLAPS, SequenceTheorems

(***************************************************************************)
(* Types.                                                                  *)
(***************************************************************************)

\* With changes what it is told to.
LEMMA WithFiles ==
  ASSUME NEW f, IsFiles(f), NEW p \in Names \ {<<>>}, NEW c \in Seq(Blocks)
  PROVE  /\ IsFiles(With(f, p, c)) /\ DOMAIN With(f, p, c) = DOMAIN f \cup {p}
         /\ With(f, p, c)[p] = c
         /\ \A q \in DOMAIN f : q # p => With(f, p, c)[q] = f[q]
BY DEF With, IsFiles

\* Writing a block of a file lengthens it by one, or not at all.
LEMMA PutType ==
  ASSUME NEW f \in Seq(Blocks), NEW i \in Nat \ {0}, NEW b \in Blocks, i <= Len(f) + 1
  PROVE  LET g == Put(f, i, b)
         IN  /\ g \in Seq(Blocks) /\ g[i] = b
             /\ Len(g) = IF i <= Len(f) THEN Len(f) ELSE i
             /\ \A k \in DOMAIN f : k # i => g[k] = f[k]
<1>1. CASE i <= Len(f)
  BY <1>1 DEF Put
<1>2. CASE ~(i <= Len(f))
  <2>1. i = Len(f) + 1 /\ Put(f, i, b) = Append(f, b)
    BY <1>2 DEF Put
  <2> QED  BY <2>1
<1> QED  BY <1>1, <1>2

LEMMA PathsType == Paths \subseteq Names \ {<<>>}
BY FileSyncAssumption DEF Names

\* What the second strtok makes of a path is the path of some place.
LEMMA ParsedType == ASSUME NEW d \in Names PROVE Parsed(d) \subseteq Names
<1>1. CASE Clean(d)
  BY <1>1 DEF Parsed
<1>2. CASE ~Clean(d)
  <2> SUFFICES ASSUME NEW i \in DOMAIN d, d[i] \in DOMAIN Cut
               PROVE  SubSeq(d, 1, i - 1) \o Cut[d[i]] \in Names
    BY <1>2 DEF Parsed
  <2>1. SubSeq(d, 1, i - 1) \in Names
    BY DEF Names
  <2>2. Cut[d[i]] \in Names
    BY FileSyncAssumption DEF Names
  <2> QED  BY <2>1, <2>2 DEF Names
<1> QED  BY <1>1, <1>2

LEMMA PlacesType ==
  ASSUME NEW g, IsFiles(disk[g]) PROVE Places(g) \subseteq Names
<1>1. ASSUME NEW p \in DOMAIN disk[g], NEW i \in 0 .. Len(p)
      PROVE  SubSeq(p, 1, i) \in Names
  <2>1. p \in Seq(STRING)
    BY DEF IsFiles, Names
  <2> QED  BY <2>1 DEF Names
<1>2. ASSUME NEW x \in Places(g) PROVE x \in Names
  <2>1. x = <<>> \/ \E p \in DOMAIN disk[g] : \E i \in 0 .. Len(p) : x = SubSeq(p, 1, i)
    BY DEF Places
  <2>2. <<>> \in Names
    BY DEF Names
  <2> QED  BY <1>1, <2>1, <2>2
<1> QED  BY <1>2

\* An entry that the client reads in a reply is right below the directory that it
\* asked for; what it reads as a file is one where the server looked.
LEMMA ListingType ==
  ASSUME NEW g, IsFiles(disk[g]), NEW d \in Names, NEW dir \in Names,
         NEW e \in Listing(g, d, dir)
  PROVE  /\ e \in Entry
         /\ \E n \in STRING : /\ e.path = Append(dir, n)
                              /\ e.file = Has(g, Append(d, n))
<1>1. PICK q \in DOMAIN disk[g] :
        /\ Below(d, q)
        /\ e = [path |-> Append(dir, q[Len(d) + 1]), file |-> Has(g, Append(d, q[Len(d) + 1]))]
  BY DEF Listing
<1>2. q \in Seq(STRING) /\ Len(d) + 1 \in 1 .. Len(q)
  BY <1>1 DEF IsFiles, Names, Below
<1>3. q[Len(d) + 1] \in STRING
  BY <1>2
<1> DEFINE n == q[Len(d) + 1]
<1> HIDE DEF n
<1>4. Append(dir, n) \in Names \ {<<>>}
  BY <1>3 DEF Names, n
<1>5. Has(g, Append(d, n)) \in BOOLEAN
  BY DEF Has
<1> QED  BY <1>1, <1>3, <1>4, <1>5 DEF Entry, n

LEMMA LeftoversType ==
  ASSUME IsFiles(made), NEW dir \in Names PROVE Leftovers(dir) \subseteq Entry
<1> SUFFICES ASSUME NEW p \in DOMAIN made, NEW i \in DOMAIN p
             PROVE  [path |-> Append(dir, p[i]), file |-> i = Len(p)] \in Entry
  BY DEF Leftovers
<1>1. p \in Seq(STRING)
  BY DEF IsFiles, Names
<1>2. p[i] \in STRING
  BY <1>1
<1>3. Append(dir, p[i]) \in Names \ {<<>>}
  BY <1>2 DEF Names
<1> QED  BY <1>3 DEF Entry

\* The stack of calls is its top on what is below it.
LEMMA StackType ==
  ASSUME TypeOK, NEW h \in Hosts, walk[h].stack # <<>>
  PROVE  /\ Top(h) \in Frame /\ Calls(h) \in Seq(Frame)
         /\ walk[h].stack = Append(Calls(h), Top(h))
         /\ walk[h].stack \in Seq(Frame) /\ Len(walk[h].stack) \in 1 .. MaxDepth
         /\ Len(Calls(h)) = Len(walk[h].stack) - 1
         /\ \A i \in 1 .. Len(Calls(h)) : Calls(h)[i] = walk[h].stack[i]
         /\ walk[h].peer \in Hosts
<1>1. walk[h].stack \in Seq(Frame) /\ Len(walk[h].stack) <= MaxDepth /\ walk[h].peer \in Hosts
  BY DEF TypeOK, WalkOK, Walk
<1>2. MaxDepth \in Nat
  BY FileSyncAssumption
<1> QED  BY <1>1, <1>2 DEF Top, Calls

LEMMA MaxFaultsType == MaxFaults \in Nat
BY FileSyncAssumption

LEMMA FaultType == ASSUME TypeOK, Fault PROVE faults' \in 0 .. MaxFaults
BY MaxFaultsType DEF TypeOK, Fault

LEMMA IdleType ==
  ASSUME NEW h \in Hosts
  PROVE  /\ NoWalk(h) \in Walk /\ Len(NoWalk(h).stack) <= MaxDepth
         /\ NoDownload(h) \in Download /\ InOrder(NoDownload(h))
<1>1. 0 <= MaxDepth
  BY FileSyncAssumption
<1> QED  BY <1>1 DEF InOrder, NoWalk, NoDownload, Walk, Download, Phases, Names

\* A step that replaces the stack of one host.
LEMMA WalkStep ==
  ASSUME WalkOK, UNCHANGED <<known, seen>>, NEW h \in Hosts, NEW s \in Seq(Frame),
         Len(s) <= MaxDepth, walk' = [walk EXCEPT ![h].stack = s]
  PROVE  WalkOK'
<1>0. walk[h] \in Walk
  BY DEF WalkOK
<1>1. [walk[h] EXCEPT !.stack = s] \in Walk /\ [walk[h] EXCEPT !.stack = s].stack = s
  BY <1>0 DEF Walk
<1> QED
  BY <1>1 DEF WalkOK

\* A step that replaces the innermost call by frame f.
LEMMA TopStep ==
  ASSUME TypeOK, NEW h \in Hosts, walk[h].stack # <<>>, NEW f \in Frame,
         UNCHANGED <<known, seen>>,
         walk' = [walk EXCEPT ![h].stack = Append(Calls(h), f)]
  PROVE  WalkOK'
<1>1. Append(Calls(h), f) \in Seq(Frame) /\ Len(Append(Calls(h), f)) <= MaxDepth
  BY StackType, FileSyncAssumption
<1> QED
  BY <1>1, WalkStep DEF TypeOK

\* A step that replaces the download of one host.
LEMMA DownloadStep ==
  ASSUME DownloadOK, jobs' \in [Hosts -> Seq(Job)], NEW h \in Hosts, NEW r \in Download,
         InOrder(r), dl' = [dl EXCEPT ![h] = r]
  PROVE  DownloadOK'
BY DEF DownloadOK

LEMMA InitTyped == Init => TypeOK
<1> SUFFICES ASSUME Init PROVE TypeOK
  OBVIOUS
<1>1. IsFiles(NoFiles)
  BY DEF NoFiles, IsFiles
<1>2. DiskOK
  BY <1>1 DEF Init, DiskOK, NoFiles
<1>3. WalkOK
  BY IdleType DEF Init, AtRest, WalkOK
<1>4. DownloadOK
  BY IdleType DEF Init, AtRest, DownloadOK
<1>5. /\ up \subseteq Hosts /\ strtok \in [Hosts -> {"command", "file", "none"}]
      /\ changed \subseteq Names \ {<<>>} /\ astray \subseteq Names \ {<<>>}
      /\ confused \in BOOLEAN /\ trouble \in BOOLEAN
  BY DEF Init, AtRest
<1>6. faults \in 0 .. MaxFaults
  BY MaxFaultsType DEF Init
<1> QED
  BY <1>2, <1>3, <1>4, <1>5, <1>6 DEF TypeOK

\* What a client reads in the answer of a server are entries.
LEMMA AnswerType ==
  ASSUME TypeOK, NEW h \in Hosts, Answer(h)
  PROVE  \E es \in SUBSET Entry : \E d \in Names :
           /\ Listed(h, es) /\ es = Listing(walk[h].peer, d, Top(h).dir)
           /\ confused \/ confused' \/ d = Top(h).dir
<1> DEFINE g == walk[h].peer  dir == Top(h).dir
<1>1. walk[h].stack # <<>>
  BY DEF Answer, Waits
<1>2. g \in Hosts /\ dir \in Names
  BY <1>1, StackType DEF Frame
<1>3. IsFiles(disk[g])
  BY <1>2 DEF TypeOK, DiskOK
<1>4. PICK d \in IF strtok[g] = "command" THEN Parsed(dir) ELSE Places(g) :
        Listed(h, Listing(g, d, dir))
  BY DEF Answer
<1>5. d \in Names
  BY <1>2, <1>3, <1>4, ParsedType, PlacesType
<1>6. confused' \/ d = dir
  BY <1>4 DEF Answer, Parsed, TypeOK
<1>7. Listing(g, d, dir) \in SUBSET Entry
  BY <1>2, <1>3, <1>5, ListingType
<1> QED
  BY <1>4, <1>5, <1>6, <1>7

LEMMA NoAnswerType ==
  ASSUME TypeOK, NEW h \in Hosts, NoAnswer(h)
  PROVE  \E es \in SUBSET Entry : Listed(h, es) /\ (es = {} \/ confused')
<1>1. Top(h).dir \in Names
  BY StackType DEF NoAnswer, Waits, Frame
<1>2. Leftovers(Top(h).dir) \subseteq Entry
  BY <1>1, LeftoversType DEF TypeOK, DiskOK
<1> QED
  BY <1>2 DEF NoAnswer, TypeOK

\* The caller's frame keeps its directory and loses an entry.
LEMMA DoneType ==
  ASSUME TypeOK, NEW h \in Hosts, walk[h].stack # <<>>, NEW e
  PROVE  LET f == [Top(h) EXCEPT !.entries = @ \ {e}]
         IN  /\ f \in Frame /\ Done(h, e) = Append(Calls(h), f)
             /\ Done(h, e) \in Seq(Frame) /\ Len(Done(h, e)) = Len(walk[h].stack)
             /\ f.entries = Top(h).entries \ {e} /\ f.dir = Top(h).dir
             /\ f.state = Top(h).state
<1> DEFINE f == [Top(h) EXCEPT !.entries = @ \ {e}]
<1>1. /\ f \in Frame /\ f.entries = Top(h).entries \ {e} /\ f.dir = Top(h).dir
      /\ f.state = Top(h).state
  BY StackType DEF Frame
<1>2. Done(h, e) = Append(Calls(h), f)
  BY DEF Done
<1> HIDE DEF f
<1>3. Done(h, e) \in Seq(Frame) /\ Len(Done(h, e)) = Len(walk[h].stack)
  BY <1>1, <1>2, StackType
<1> QED
  BY <1>1, <1>2, <1>3 DEF f

\* A call for entry e, if one is made.
LEMMA DescendType ==
  ASSUME TypeOK, NEW h \in Hosts, NEW e, Descend(h, e)
  PROVE  /\ walk[h].stack # <<>> /\ e \in Entry /\ Asked(e.path) \in Frame
         /\ \E s \in Seq(Frame) :
              /\ Len(s) <= MaxDepth /\ walk' = [walk EXCEPT ![h].stack = s]
              /\ s = Done(h, e) \/ s = Append(Done(h, e), Asked(e.path))
<1>1. walk[h].stack # <<>> /\ e \in Top(h).entries /\ Len(walk[h].stack) < MaxDepth
  BY DEF Descend, Waits
<1>2. e \in Entry
  BY <1>1, StackType DEF Frame
<1>3. Asked(e.path) \in Frame
  BY <1>2 DEF Asked, Frame, Entry
<1>4. Done(h, e) \in Seq(Frame) /\ Len(Done(h, e)) = Len(walk[h].stack)
  BY <1>1, DoneType
<1>5. PICK called \in BOOLEAN :
        walk' = [walk EXCEPT ![h].stack =
                   IF called THEN Append(Done(h, e), Asked(e.path)) ELSE Done(h, e)]
  BY DEF Descend
<1> DEFINE s == IF called THEN Append(Done(h, e), Asked(e.path)) ELSE Done(h, e)
<1>6. s \in Seq(Frame) /\ Len(s) <= MaxDepth
  BY <1>1, <1>3, <1>4, StackType, FileSyncAssumption
<1> QED
  BY <1>1, <1>2, <1>3, <1>5, <1>6

\* The command client leaves files and the download alone.
LEMMA CommandClientTyped ==
  ASSUME TypeOK, NEW h \in Hosts, CommandClient(h)
  PROVE  TypeOK'
<1>1. CASE Connect(h)
  <2>1. <<Asked(<<>>)>> \in Seq(Frame) /\ Len(<<Asked(<<>>)>>) <= MaxDepth
    BY FileSyncAssumption DEF Asked, Frame, Names
  <2>2. Head(seen[h]) \in Hosts /\ Tail(seen[h]) \in Seq(Hosts)
    BY <1>1 DEF Connect, TypeOK, WalkOK
  <2>3. [peer |-> Head(seen[h]), open |-> TRUE, stack |-> <<Asked(<<>>)>>] \in Walk
    BY <2>1, <2>2 DEF Walk
  <2>4. WalkOK'
    BY <1>1, <2>1, <2>2, <2>3 DEF Connect, TypeOK, WalkOK
  <2> QED
    BY <1>1, <2>4 DEF Connect, TypeOK, DiskOK, DownloadOK, auxVars, mixVars
<1>2. CASE ConnectFails(h)
  <2>1. WalkOK'
    BY <1>2 DEF ConnectFails, TypeOK, WalkOK
  <2>2. faults' \in 0 .. MaxFaults /\ trouble' \in BOOLEAN
    BY <1>2, FaultType DEF ConnectFails, TypeOK
  <2> QED
    BY <1>2, <2>1, <2>2 DEF ConnectFails, TypeOK, DiskOK, DownloadOK, mixVars
<1>3. CASE SplitRequest(h)
  <2> DEFINE f == [Top(h) EXCEPT !.state = "parsing"]
  <2>1. walk[h].stack # <<>> /\ walk[h].peer \in Hosts /\ f \in Frame
    BY <1>3, StackType DEF SplitRequest, Waits, Frame
  <2>2. WalkOK'
    BY <1>3, <2>1, TopStep DEF SplitRequest
  <2>3. strtok' \in [Hosts -> {"command", "file", "none"}]
    BY <1>3 DEF SplitRequest, TypeOK
  <2> QED
    BY <1>3, <2>2, <2>3 DEF SplitRequest, TypeOK, DiskOK, DownloadOK, auxVars
<1>4. ASSUME NEW es \in SUBSET Entry, Listed(h, es), walk[h].stack # <<>>,
             UNCHANGED <<known, seen>>
      PROVE  WalkOK'
  <2>1. [Top(h) EXCEPT !.state = "listed", !.entries = es] \in Frame
    BY <1>4, StackType DEF Frame
  <2> QED
    BY <1>4, <2>1, TopStep DEF Listed
<1>5. CASE Answer(h)
  <2>1. WalkOK'
    BY <1>4, <1>5, AnswerType DEF Answer, Waits
  <2>2. strtok' \in [Hosts -> {"command", "file", "none"}] /\ confused' \in BOOLEAN
    BY <1>5 DEF Answer, TypeOK
  <2> QED
    BY <1>5, <2>1, <2>2 DEF Answer, TypeOK, DiskOK, DownloadOK, auxVars
<1>6. CASE NoAnswer(h)
  <2>1. WalkOK'
    BY <1>4, <1>6, NoAnswerType DEF NoAnswer, Waits
  <2>2. confused' \in BOOLEAN
    BY <1>6 DEF NoAnswer, TypeOK
  <2> QED
    BY <1>6, <2>1, <2>2 DEF NoAnswer, TypeOK, DiskOK, DownloadOK, auxVars
<1>7. CASE Return(h)
  <2>1. walk[h] \in Walk /\ Calls(h) \in Seq(Frame) /\ Len(Calls(h)) <= MaxDepth
    BY <1>7, StackType, FileSyncAssumption DEF Return, Waits, TypeOK, WalkOK
  <2>2. [walk[h] EXCEPT !.stack = Calls(h)] \in Walk
        /\ [walk[h] EXCEPT !.stack = Calls(h)].stack = Calls(h)
    BY <2>1 DEF Walk
  <2>3. WalkOK'
    BY <1>7, <2>1, <2>2, IdleType DEF Return, TypeOK, WalkOK
  <2> QED
    BY <1>7, <2>3 DEF Return, TypeOK, DiskOK, DownloadOK, auxVars, mixVars
<1>8. ASSUME NEW e, Descend(h, e) PROVE TypeOK'
  <2>1. WalkOK'
    BY <1>8, DescendType, WalkStep DEF Descend, TypeOK
  <2> QED
    BY <1>8, <2>1 DEF Descend, TypeOK, DiskOK, DownloadOK, auxVars, mixVars
<1>9. ASSUME NEW e, CheckFile(h, e) PROVE TypeOK'
  <2>1. walk[h].stack # <<>> /\ e \in Entry /\ walk[h].peer \in Hosts
    BY <1>9, StackType DEF CheckFile, Waits, Frame
  <2>0. Done(h, e) \in Seq(Frame) /\ Len(Done(h, e)) = Len(walk[h].stack)
    BY <2>1, DoneType
  <2>2. Done(h, e) \in Seq(Frame) /\ Len(Done(h, e)) <= MaxDepth
    BY <2>0, <2>1, StackType, FileSyncAssumption
  <2>3. WalkOK'
    BY <1>9, <2>2, WalkStep DEF CheckFile, TypeOK
  <2>4. [from |-> walk[h].peer, path |-> e.path] \in Job
    BY <2>1 DEF Job, Entry
  <2>5. DownloadOK'
    BY <1>9, <2>4 DEF CheckFile, TypeOK, DownloadOK
  <2> QED
    BY <1>9, <2>3, <2>5 DEF CheckFile, TypeOK, DiskOK, auxVars, mixVars
<1> QED
  BY <1>1, <1>2, <1>3, <1>5, <1>6, <1>7, <1>8, <1>9 DEF CommandClient

\* A write puts a block where the download is, or makes the file that much longer.
LEMMA WriteType ==
  ASSUME TypeOK, NEW h \in Hosts, Write(h)
  PROVE  LET p == dl[h].path  i == dl[h].pos + 1
         IN  /\ p \in Names \ {<<>>} /\ i \in 1 .. Len(dl[h].data)
             /\ dl[h].data[i] \in Blocks /\ dl[h].data \in Seq(Blocks)
             /\ IsFiles(disk'[h]) /\ DOMAIN disk'[h] = DOMAIN disk[h]
             /\ \A q \in DOMAIN disk[h] : q # p => disk'[h][q] = disk[h][q]
             /\ \A g \in Hosts \ {h} : disk'[g] = disk[g]
             /\ Has(h, p) => disk'[h][p] = Put(disk[h][p], i, dl[h].data[i])
             /\ Has(h, p) => disk[h][p] \in Seq(Blocks)
<1> DEFINE p == dl[h].path  i == dl[h].pos + 1
<1>0. /\ dl[h] \in Download /\ InOrder(dl[h]) /\ dl[h].phase = "write"
      /\ IsFiles(disk[h]) /\ DOMAIN disk = Hosts
  BY DEF TypeOK, DownloadOK, DiskOK, Write
<1>1. /\ p \in Names \ {<<>>} /\ i \in 1 .. Len(dl[h].data) /\ dl[h].data \in Seq(Blocks)
      /\ i \in Nat \ {0}
  BY <1>0 DEF Download, InOrder
<1>2. dl[h].data[i] \in Blocks
  BY <1>1
<1>3. disk' = [disk EXCEPT ![h] = [disk[h] EXCEPT ![p] = Put(@, i, dl[h].data[i])]]
  BY DEF Write
<1> HIDE DEF p, i
<1>4. Has(h, p) => disk[h][p] \in Seq(Blocks)
  BY <1>0 DEF Has, IsFiles
<1>5. Has(h, p) => Put(disk[h][p], i, dl[h].data[i]) \in Seq(Blocks)
  BY <1>1, <1>2, <1>4 DEF Put
<1>6. IsFiles(disk'[h])
  BY <1>0, <1>3, <1>5 DEF IsFiles, Has
<1> QED
  BY <1>0, <1>1, <1>2, <1>3, <1>4, <1>6 DEF Has, p, i

LEMMA FileClientTyped ==
  ASSUME TypeOK, NEW h \in Hosts, FileClient(h)
  PROVE  TypeOK'
<1>0. /\ jobs \in [Hosts -> Seq(Job)] /\ dl[h] \in Download /\ DownloadOK
      /\ InOrder(dl[h]) /\ (dl[h].phase # "idle" => dl[h].path \in Names \ {<<>>})
      /\ dl[h].path \in Names /\ dl[h].from \in Hosts
  BY DEF TypeOK, DownloadOK, InOrder, Download
<1>1. CASE Fetch(h)
  <2>1. Head(jobs[h]) \in Job /\ Tail(jobs[h]) \in Seq(Job)
    BY <1>0, <1>1 DEF Fetch
  <2> DEFINE r == Request(Head(jobs[h]))
  <2>2. r \in Download /\ InOrder(r)
    <3>1. Head(jobs[h]).from \in Hosts /\ Head(jobs[h]).path \in Names \ {<<>>}
      BY <2>1 DEF Job
    <3>2. <<>> \in Seq(Blocks)
      OBVIOUS
    <3> QED
      BY <3>1, <3>2 DEF Request, Download, Phases, InOrder
  <2>3. dl' = [dl EXCEPT ![h] = r] /\ jobs' \in [Hosts -> Seq(Job)]
    BY <1>0, <1>1, <2>1 DEF Fetch
  <2> HIDE DEF r
  <2>4. DownloadOK'
    BY <1>0, <2>2, <2>3, DownloadStep
  <2> QED
    BY <1>1, <2>4 DEF Fetch, TypeOK, DiskOK, WalkOK, clientVars, auxVars, mixVars
<1>2. CASE FetchFails(h)
  <2>1. DownloadOK'
    BY <1>0, <1>2 DEF FetchFails, DownloadOK
  <2>2. faults' \in 0 .. MaxFaults /\ trouble' \in BOOLEAN
    BY <1>2, FaultType DEF FetchFails, TypeOK
  <2> QED
    BY <1>2, <2>1, <2>2 DEF FetchFails, TypeOK, DiskOK, WalkOK, clientVars, mixVars
<1>3. CASE SplitFileRequest(h)
  <2> DEFINE r == [dl[h] EXCEPT !.phase = "parsing"]
  <2>1. r \in Download /\ InOrder(r)
    BY <1>0, <1>3 DEF SplitFileRequest, Download, Phases, InOrder
  <2>2. dl' = [dl EXCEPT ![h] = r] /\ jobs' = jobs
    BY <1>3 DEF SplitFileRequest
  <2> HIDE DEF r
  <2>3. DownloadOK'
    BY <1>0, <2>1, <2>2, DownloadStep
  <2>4. strtok' \in [Hosts -> {"command", "file", "none"}]
    BY <1>3 DEF SplitFileRequest, TypeOK
  <2> QED
    BY <1>3, <2>3, <2>4
    DEF SplitFileRequest, TypeOK, DiskOK, WalkOK, clientVars, auxVars
<1>4. CASE Stat(h)
  <2> DEFINE g == dl[h].from  p == dl[h].path
             found == strtok[g] = "file" /\ Has(g, p)
             r == IF found THEN [dl[h] EXCEPT !.phase = "reading", !.size = Len(disk[g][p])]
                  ELSE [dl[h] EXCEPT !.phase = "received", !.data = <<Text>>]
  <2>0. dl[h].phase = "parsing" /\ p \in Names \ {<<>>} /\ g \in Hosts
    BY <1>0, <1>4 DEF Stat
  <2>1. Has(g, p) => Len(disk[g][p]) \in Nat
    BY <2>0 DEF TypeOK, DiskOK, IsFiles, Has
  <2>2. <<Text>> \in Seq(Blocks)
    BY FileSyncAssumption
  <2>3. r \in Download /\ r.phase # "write" /\ r.path = p /\ r.pos = dl[h].pos
    BY <1>0, <2>1, <2>2 DEF Download, Phases
  <2>4. InOrder(r)
    BY <1>0, <2>0, <2>3 DEF InOrder
  <2>5. dl' = [dl EXCEPT ![h] = r] /\ jobs' = jobs
    BY <1>0, <1>4 DEF Stat
  <2> HIDE DEF r
  <2>6. DownloadOK'
    BY <1>0, <2>3, <2>4, <2>5, DownloadStep
  <2>7. /\ astray' \subseteq Names \ {<<>>} /\ confused' \in BOOLEAN
        /\ strtok' \in [Hosts -> {"command", "file", "none"}]
    BY <1>4, <2>0 DEF Stat, TypeOK
  <2> QED
    BY <1>4, <2>6, <2>7 DEF Stat, TypeOK, DiskOK, WalkOK, clientVars, auxVars
<1>5. CASE Read(h)
  <2> DEFINE g == dl[h].from  p == dl[h].path  n == dl[h].size
  <2>0. dl[h].phase = "reading" /\ p \in Names \ {<<>>} /\ g \in Hosts /\ n \in Nat
    BY <1>0, <1>5 DEF Read, Download
  <2>1. Has(g, p) => disk[g][p] \in Seq(Blocks)
    BY <2>0 DEF TypeOK, DiskOK, IsFiles, Has
  <2>2. PICK data \in Seq(Blocks) :
          dl' = [dl EXCEPT ![h] = [@ EXCEPT !.phase = "received", !.data = data]]
    <3>1. [i \in 1 .. n |-> Garbage] \in Seq(Blocks)
      BY <2>0, FileSyncAssumption
    <3>2. Has(g, p) /\ Len(disk[g][p]) >= n => SubSeq(disk[g][p], 1, n) \in Seq(Blocks)
      BY <2>0, <2>1
    <3> QED
      BY <1>5, <3>1, <3>2 DEF Read
  <2> DEFINE r == [dl[h] EXCEPT !.phase = "received", !.data = data]
  <2>3. r \in Download /\ InOrder(r)
    BY <1>0, <2>0 DEF Download, Phases, InOrder
  <2>4. dl' = [dl EXCEPT ![h] = r] /\ jobs' = jobs
    BY <1>5, <2>2 DEF Read
  <2> HIDE DEF r
  <2>5. DownloadOK'
    BY <1>0, <2>3, <2>4, DownloadStep
  <2>6. /\ astray' \subseteq Names \ {<<>>} /\ trouble' \in BOOLEAN
        /\ faults' \in 0 .. MaxFaults
    BY <1>5, <2>0, FaultType DEF Read, TypeOK
  <2> QED
    BY <1>5, <2>5, <2>6 DEF Read, TypeOK, DiskOK, WalkOK, clientVars
<1>6. CASE NoData(h)
  <2>1. DownloadOK'
    BY <1>0, <1>6, IdleType, DownloadStep DEF NoData
  <2> QED
    BY <1>6, <2>1 DEF NoData, TypeOK, DiskOK, WalkOK, clientVars, auxVars, mixVars
<1>7. CASE Open(h)
  <2> DEFINE r == [dl[h] EXCEPT !.phase = "write"]
  <2>0. /\ dl[h].phase = "received" /\ dl[h].data # <<>> /\ <<>> \in Seq(Blocks)
        /\ dl[h].path \in Names \ {<<>>}
    BY <1>0, <1>7 DEF Open
  <2>1. r \in Download /\ r.phase = "write" /\ r.path = dl[h].path /\ r.data = dl[h].data
        /\ r.pos = dl[h].pos
    BY <1>0 DEF Download, Phases
  <2>2. dl[h].pos = 0 /\ Len(dl[h].data) > 0
    BY <1>0, <2>0 DEF Download, InOrder
  <2>3. InOrder(r)
    BY <2>0, <2>1, <2>2 DEF InOrder
  <2>4. dl' = [dl EXCEPT ![h] = r] /\ jobs' = jobs
    BY <1>7 DEF Open
  <2> HIDE DEF r
  <2>5. DownloadOK'
    BY <1>0, <2>1, <2>3, <2>4, DownloadStep
  <2>6. DiskOK'
    <3>1. IsFiles(With(disk[h], dl[h].path, <<>>))
      BY <2>0, WithFiles DEF TypeOK, DiskOK
    <3> QED
      BY <1>7, <3>1 DEF Open, TypeOK, DiskOK, auxVars
  <2> QED
    BY <1>7, <2>5, <2>6 DEF Open, TypeOK, WalkOK, clientVars, auxVars, mixVars
<1>8. CASE OpenFails(h)
  <2>1. DownloadOK'
    BY <1>0, <1>8, IdleType, DownloadStep DEF OpenFails
  <2> QED
    BY <1>8, <2>1, FaultType DEF OpenFails, TypeOK, DiskOK, WalkOK, clientVars, mixVars
<1>9. CASE Write(h)
  <2> DEFINE i == dl[h].pos + 1
             r == IF i = Len(dl[h].data) THEN NoDownload(h) ELSE [dl[h] EXCEPT !.pos = i]
  <2>1. /\ i \in 1 .. Len(dl[h].data) /\ dl[h].data \in Seq(Blocks)
        /\ dl[h].path \in Names \ {<<>>} /\ dl[h].phase = "write"
    BY <1>9, WriteType DEF Write
  <2>2. r \in Download /\ InOrder(r)
    <3>1. CASE i = Len(dl[h].data)
      BY <3>1, IdleType
    <3>2. CASE i # Len(dl[h].data)
      <4>1. r = [dl[h] EXCEPT !.pos = i] /\ i \in Nat /\ i < Len(dl[h].data)
        BY <2>1, <3>2
      <4> HIDE DEF r, i
      <4>2. r \in Download /\ r.phase = "write" /\ r.path = dl[h].path
            /\ r.data = dl[h].data /\ r.pos = i
        BY <1>0, <2>1, <4>1 DEF Download
      <4> QED
        BY <2>1, <4>1, <4>2 DEF InOrder
    <3> QED
      BY <3>1, <3>2
  <2>3. dl' = [dl EXCEPT ![h] = r] /\ jobs' = jobs
    BY <1>9 DEF Write
  <2>4. DiskOK'
    <3>1. DOMAIN disk' = Hosts /\ \A g \in Hosts : IsFiles(disk'[g])
      BY <1>9, WriteType DEF Write, TypeOK, DiskOK
    <3> QED
      BY <1>9, <3>1 DEF Write, TypeOK, DiskOK, auxVars
  <2> HIDE DEF r
  <2>5. DownloadOK'
    BY <1>0, <2>2, <2>3, DownloadStep
  <2> QED
    BY <1>9, <2>4, <2>5 DEF Write, TypeOK, WalkOK, clientVars, auxVars, mixVars
<1>10. CASE ShortWrite(h)
  <2>1. DownloadOK'
    BY <1>0, <1>10, IdleType, DownloadStep DEF ShortWrite
  <2> QED
    BY <1>10, <2>1, FaultType DEF ShortWrite, TypeOK, DiskOK, WalkOK, clientVars, mixVars
<1> QED
  BY <1>1, <1>2, <1>3, <1>4, <1>5, <1>6, <1>7, <1>8, <1>9, <1>10 DEF FileClient

LEMMA EnvironmentTyped ==
  ASSUME TypeOK, NEW h \in Hosts,
         \/ \E g \in Hosts : Announce(h, g)
         \/ \E p \in DOMAIN disk[h] : Delete(h, p)
         \/ \E p \in Paths : \E c \in Contents[p] : Make(h, p, c)
         \/ Crash(h) \/ ServeNobody(h) \/ Start(h)
  PROVE  TypeOK'
<1>1. ASSUME NEW g \in Hosts, Announce(h, g) PROVE TypeOK'
  <2>1. WalkOK'
    BY <1>1 DEF Announce, TypeOK, WalkOK
  <2> QED
    BY <1>1, <2>1 DEF Announce, TypeOK, DiskOK, DownloadOK, auxVars, mixVars
<1>2. ASSUME NEW p \in DOMAIN disk[h], Delete(h, p) PROVE TypeOK'
  <2>1. IsFiles([q \in DOMAIN disk[h] \ {p} |-> disk[h][q]]) /\ p \in Names \ {<<>>}
    BY DEF TypeOK, DiskOK, IsFiles
  <2>2. DiskOK'
    BY <1>2, <2>1 DEF Delete, TypeOK, DiskOK
  <2>3. DownloadOK'
    BY <1>2, IdleType, DownloadStep DEF Delete, TypeOK, DownloadOK
  <2>4. changed' \subseteq Names \ {<<>>}
    BY <1>2, <2>1 DEF Delete, TypeOK
  <2> QED
    BY <1>2, <2>2, <2>3, <2>4, FaultType DEF Delete, TypeOK, WalkOK, clientVars, mixVars
<1>3. ASSUME NEW p \in Paths, NEW c \in Contents[p], Make(h, p, c) PROVE TypeOK'
  <2>1. c \in Seq(Blocks) /\ p \in Names \ {<<>>}
    BY FileSyncAssumption, PathsType
  <2>2. IsFiles(With(disk[h], p, c)) /\ IsFiles(With(made, p, c))
        /\ DOMAIN With(made, p, c) = DOMAIN made \cup {p}
    BY <2>1, WithFiles DEF TypeOK, DiskOK
  <2>3. DiskOK'
    BY <1>3, <2>2 DEF Make, TypeOK, DiskOK
  <2>4. faults' \in 0 .. MaxFaults /\ changed' \subseteq Names \ {<<>>}
    BY <1>3, <2>1, FaultType DEF Make, TypeOK
  <2> QED
    BY <1>3, <2>3, <2>4 DEF Make, TypeOK, WalkOK, DownloadOK, clientVars, mixVars
<1>4. CASE Crash(h)
  <2>1. ASSUME NEW g \in Hosts PROVE walk'[g] \in Walk /\ Len(walk'[g].stack) <= MaxDepth
    <3>1. walk[g] \in Walk /\ Len(walk[g].stack) <= MaxDepth
      BY DEF TypeOK, WalkOK
    <3>2. [walk[g] EXCEPT !.open = FALSE] \in Walk
          /\ [walk[g] EXCEPT !.open = FALSE].stack = walk[g].stack
      BY <3>1 DEF Walk
    <3> QED
      BY <1>4, <3>1, <3>2, IdleType DEF Crash
  <2>2. WalkOK'
    <3>1. walk' = [g \in Hosts |-> walk'[g]]
      BY <1>4 DEF Crash
    <3>2. walk' \in [Hosts -> Walk] /\ \A g \in Hosts : Len(walk'[g].stack) <= MaxDepth
      BY <2>1, <3>1
    <3>3. known' \in [Hosts -> SUBSET Hosts] /\ seen' \in [Hosts -> Seq(Hosts)]
      BY <1>4 DEF Crash, TypeOK, WalkOK
    <3> QED
      BY <3>2, <3>3 DEF WalkOK
  <2>3. ASSUME NEW g \in Hosts PROVE dl'[g] \in Download /\ InOrder(dl'[g])
    <3>1. dl[g] \in Download /\ InOrder(dl[g])
      BY DEF TypeOK, DownloadOK
    <3>2. ASSUME dl[g].phase \in {"asked", "parsing", "reading"}
          PROVE  LET r == [dl[g] EXCEPT !.phase = "broken"] IN r \in Download /\ InOrder(r)
      BY <3>1, <3>2 DEF Download, Phases, InOrder
    <3> QED
      BY <1>4, <3>1, <3>2, IdleType DEF Crash
  <2>4. DownloadOK'
    BY <1>4, <2>3 DEF Crash, TypeOK, DownloadOK
  <2>5. trouble' \in BOOLEAN /\ up' \subseteq Hosts /\ faults' \in 0 .. MaxFaults
    BY <1>4, FaultType DEF Crash, TypeOK
  <2> QED
    BY <1>4, <2>2, <2>4, <2>5 DEF Crash, TypeOK, DiskOK, mixVars
<1>5. CASE ServeNobody(h)
  <2>1. strtok' \in [Hosts -> {"command", "file", "none"}]
    BY <1>5 DEF ServeNobody, TypeOK
  <2> QED
    BY <1>5, <2>1 DEF ServeNobody, TypeOK, DiskOK, WalkOK, DownloadOK, clientVars, auxVars
<1>6. CASE Start(h)
  <2>1. WalkOK'
    BY <1>6 DEF Start, TypeOK, WalkOK
  <2> QED
    BY <1>6, <2>1 DEF Start, TypeOK, DiskOK, DownloadOK, auxVars, mixVars
<1> QED
  BY <1>1, <1>2, <1>3, <1>4, <1>5, <1>6

LEMMA NextTyped == TypeOK /\ [Next]_vars => TypeOK'
<1> SUFFICES ASSUME TypeOK, [Next]_vars PROVE TypeOK'
  OBVIOUS
<1>1. CASE Next
  BY <1>1, CommandClientTyped, FileClientTyped, EnvironmentTyped DEF Next
<1>2. CASE UNCHANGED vars
  BY <1>2
  DEF vars, clientVars, mixVars, auxVars, TypeOK, DiskOK, WalkOK, DownloadOK
<1> QED
  BY <1>1, <1>2

\* Every variable has its type, and a download is in order with its phase.
THEOREM TypeCorrect == Spec => []TypeOK
BY InitTyped, NextTyped, PTL DEF Spec

(***************************************************************************)
(* Genuine.  Files grow and stay, except where users change them; so what  *)
(* a client asks for is there, unless it or a server was confused, and     *)
(* what it gets and writes are the blocks that were made, or something     *)
(* that is known to have gone astray.                                      *)
(***************************************************************************)

\* What block i of the file at p may be.
Good(p, i, b) ==
  \/ p \in DOMAIN made /\ i \in DOMAIN made[p] /\ b = made[p][i]
  \/ p \in astray /\ ((confused /\ i = 1 /\ b = Text) \/ (trouble /\ b = Garbage))

\* Where a client thinks that a file is, it is, or was until users changed it.
There(g, p) == confused \/ p \in changed \/ Has(g, p)

\* The file of host g at p has at least n blocks.
Reaches(g, p, n) == Has(g, p) /\ Len(disk[g][p]) >= n

InEntries(h) == \A i \in DOMAIN walk[h].stack : \A e \in walk[h].stack[i].entries :
  e.file => There(walk[h].peer, e.path)

Queued(h) == \A i \in DOMAIN jobs[h] : There(jobs[h][i].from, jobs[h][i].path)

\* What the download of h has got so far.
Fetched(h) ==
  LET r == dl[h]
  IN  /\ r.phase \in {"asked", "parsing"} => There(r.from, r.path)
      /\ r.path \notin changed =>
           /\ r.phase = "reading" => Reaches(r.from, r.path, r.size)
           /\ r.phase \in {"received", "write"} =>
                /\ \A i \in DOMAIN r.data : Good(r.path, i, r.data[i])
                /\ r.path \notin astray => Reaches(r.from, r.path, Len(r.data))
           /\ r.phase = "write" => Reaches(h, r.path, r.pos)

IInv == TypeOK /\ Genuine /\ \A h \in Hosts : InEntries(h) /\ Queued(h) /\ Fetched(h)

\* What is true of every step: what was made, changed or sent astray remains so, and
\* no file gets lost or shorter that users do not change.
Grows ==
  /\ changed \subseteq changed' /\ astray \subseteq astray'
  /\ (confused => confused') /\ (trouble => trouble')
  /\ \A p \in DOMAIN made : p \in DOMAIN made' /\ made'[p] = made[p]
  /\ \A g \in Hosts : \A p \in DOMAIN disk[g] :
       p \in changed' \/ (p \in DOMAIN disk'[g] /\ Len(disk'[g][p]) >= Len(disk[g][p]))

\* The steps that leave the files alone.
LEMMA QuietGrows ==
  ASSUME TypeOK, UNCHANGED <<disk, made>>, changed \subseteq changed',
         astray \subseteq astray', confused => confused', trouble => trouble'
  PROVE  Grows
<1>1. ASSUME NEW g \in Hosts, NEW p \in DOMAIN disk[g]
      PROVE  p \in DOMAIN disk'[g] /\ Len(disk'[g][p]) >= Len(disk[g][p])
  <2>1. disk[g][p] \in Seq(Blocks)
    BY DEF TypeOK, DiskOK, IsFiles
  <2> QED  BY <2>1
<1> QED  BY <1>1 DEF Grows

LEMMA CommandClientQuiet ==
  ASSUME NEW h \in Hosts, CommandClient(h), TypeOK
  PROVE  /\ UNCHANGED <<up, disk, made, changed, astray, dl>>
         /\ (confused => confused') /\ (trouble => trouble')
         /\ \A g \in Hosts \ {h} : /\ known'[g] = known[g] /\ seen'[g] = seen[g]
                                   /\ walk'[g] = walk[g] /\ jobs'[g] = jobs[g]
         /\ known' = known
<1>0. /\ seen \in [Hosts -> Seq(Hosts)] /\ walk \in [Hosts -> Walk]
      /\ jobs \in [Hosts -> Seq(Job)] /\ trouble \in BOOLEAN /\ confused \in BOOLEAN
  BY DEF TypeOK, WalkOK, DownloadOK
<1>1. CASE Connect(h) \/ ConnectFails(h) \/ Return(h)
  BY <1>0, <1>1 DEF Connect, ConnectFails, Return, auxVars, mixVars
<1>2. CASE SplitRequest(h) \/ Answer(h) \/ NoAnswer(h)
  BY <1>0, <1>2 DEF SplitRequest, Answer, NoAnswer, Listed, auxVars
<1>3. ASSUME NEW e, Descend(h, e) \/ CheckFile(h, e)
      PROVE  /\ UNCHANGED <<up, disk, known, seen, dl, mixVars, auxVars>>
             /\ \A g \in Hosts \ {h} : walk'[g] = walk[g] /\ jobs'[g] = jobs[g]
  BY <1>0, <1>3 DEF Descend, CheckFile
<1> QED  BY <1>1, <1>2, <1>3 DEF CommandClient, mixVars, auxVars

\* A step of the file client that does not write.
FetchStep(h) ==
  \/ Fetch(h) \/ FetchFails(h) \/ SplitFileRequest(h) \/ Stat(h) \/ Read(h) \/ NoData(h)
  \/ OpenFails(h) \/ ShortWrite(h)

LEMMA FetchQuiet ==
  ASSUME NEW h \in Hosts, FetchStep(h), TypeOK
  PROVE  /\ UNCHANGED <<disk, made, changed>> /\ astray \subseteq astray'
         /\ (confused => confused') /\ (trouble => trouble')
BY DEF FetchStep, Fetch, FetchFails, SplitFileRequest, Stat, Read, NoData, OpenFails,
       ShortWrite, mixVars, auxVars, TypeOK

LEMMA FileClientQuiet ==
  ASSUME NEW h \in Hosts, FileClient(h), TypeOK
  PROVE  /\ UNCHANGED <<up, clientVars>>
         /\ \A g \in Hosts \ {h} : dl'[g] = dl[g] /\ jobs'[g] = jobs[g]
         /\ \/ UNCHANGED jobs
            \/ jobs[h] # <<>> /\ jobs' = [jobs EXCEPT ![h] = Tail(@)]
<1>0. dl \in [Hosts -> Download] /\ jobs \in [Hosts -> Seq(Job)]
  BY DEF TypeOK, DownloadOK
<1>1. CASE Fetch(h) \/ FetchFails(h) \/ SplitFileRequest(h) \/ NoData(h) \/ OpenFails(h)
           \/ ShortWrite(h) \/ Open(h)
  BY <1>0, <1>1 DEF Fetch, FetchFails, SplitFileRequest, NoData, OpenFails, ShortWrite, Open
<1>2. CASE Stat(h) \/ Read(h) \/ Write(h)
  BY <1>0, <1>2 DEF Stat, Read, Write
<1> QED  BY <1>1, <1>2 DEF FileClient

LEMMA OpenGrows ==
  ASSUME TypeOK, NEW h \in Hosts, Open(h)
  PROVE  /\ Grows /\ DOMAIN disk'[h] = DOMAIN disk[h] \cup {dl[h].path}
         /\ \A g \in Hosts \ {h} : disk'[g] = disk[g]
         /\ \A q \in DOMAIN disk[h] : disk'[h][q] = disk[h][q]
         /\ ~Has(h, dl[h].path) => disk'[h][dl[h].path] = <<>>
<1> DEFINE p == dl[h].path
<1>1. /\ DOMAIN With(disk[h], p, <<>>) = DOMAIN disk[h] \cup {p}
      /\ With(disk[h], p, <<>>)[p] = <<>>
      /\ \A q \in DOMAIN disk[h] : q # p => With(disk[h], p, <<>>)[q] = disk[h][q]
  BY DEF With
<1>2. disk' = IF Has(h, p) THEN disk ELSE [disk EXCEPT ![h] = With(disk[h], p, <<>>)]
  BY DEF Open
<1>3. DOMAIN disk = Hosts
  BY DEF TypeOK, DiskOK
<1> HIDE DEF p
<1>4. /\ DOMAIN disk'[h] = DOMAIN disk[h] \cup {p}
      /\ \A g \in Hosts \ {h} : disk'[g] = disk[g]
      /\ \A q \in DOMAIN disk[h] : disk'[h][q] = disk[h][q]
      /\ ~Has(h, p) => disk'[h][p] = <<>>
  BY <1>1, <1>2, <1>3 DEF Has
<1>5. UNCHANGED <<made, changed, astray, confused, trouble>>
  BY DEF Open, mixVars, auxVars
<1>6. ASSUME NEW g \in Hosts, NEW q \in DOMAIN disk[g]
      PROVE  q \in DOMAIN disk'[g] /\ Len(disk'[g][q]) >= Len(disk[g][q])
  <2>1. disk[g][q] \in Seq(Blocks)
    BY DEF TypeOK, DiskOK, IsFiles
  <2>2. q \in DOMAIN disk'[g] /\ disk'[g][q] = disk[g][q]
    BY <1>4
  <2> QED  BY <2>1, <2>2
<1> QED  BY <1>4, <1>5, <1>6 DEF Grows, p

LEMMA WriteGrows ==
  ASSUME TypeOK, NEW h \in Hosts, Write(h), Fetched(h)
  PROVE  Grows
<1> DEFINE p == dl[h].path  i == dl[h].pos + 1
<1>1. UNCHANGED <<made, changed, astray, confused, trouble>>
  BY DEF Write, mixVars, auxVars
<1>2. ASSUME NEW g \in Hosts, NEW q \in DOMAIN disk[g], q \notin changed
      PROVE  q \in DOMAIN disk'[g] /\ Len(disk'[g][q]) >= Len(disk[g][q])
  <2>1. disk[g][q] \in Seq(Blocks)
    BY DEF TypeOK, DiskOK, IsFiles
  <2>2. CASE g # h \/ q # p
    BY <2>1, <2>2, WriteType
  <2>3. CASE g = h /\ q = p
    <3>1. dl[h].data[i] \in Blocks /\ i \in Nat \ {0} /\ i <= Len(disk[h][p]) + 1
      <4>1. Len(disk[h][p]) >= dl[h].pos
        BY <1>2, <2>3 DEF Fetched, Write, Reaches
      <4>2. dl[h].pos \in Nat /\ dl[h].data[i] \in Blocks
        BY WriteType DEF TypeOK, DownloadOK, Download
      <4> QED  BY <2>1, <2>3, <4>1, <4>2
    <3>2. disk'[h][p] = Put(disk[h][p], i, dl[h].data[i]) /\ p \in DOMAIN disk'[h]
      BY <2>3, WriteType DEF Has
    <3>3. \A f \in Seq(Blocks), b \in Blocks, k \in Nat \ {0} :
            k <= Len(f) + 1 => Len(Put(f, k, b)) >= Len(f)
      BY PutType
    <3> HIDE DEF p, i
    <3> QED  BY <2>1, <2>3, <3>1, <3>2, <3>3
  <2> QED  BY <2>2, <2>3
<1> QED  BY <1>1, <1>2 DEF Grows

LEMMA MakeGrows ==
  ASSUME TypeOK, NEW h \in Hosts, NEW p \in Paths, NEW c, Make(h, p, c)
  PROVE  /\ Grows
         /\ DOMAIN disk'[h] = DOMAIN disk[h] \cup {p} /\ disk'[h][p] = c
         /\ \A g \in Hosts : \A q : g # h \/ q # p =>
              /\ q \in DOMAIN disk'[g] <=> q \in DOMAIN disk[g]
              /\ q \in DOMAIN disk[g] => disk'[g][q] = disk[g][q]
         /\ p \in changed' \/ (/\ Free(p) /\ p \in DOMAIN made' /\ made'[p] = c
                               /\ changed' = changed)
         /\ \A q : q # p /\ q \in DOMAIN made' => q \in DOMAIN made /\ made'[q] = made[q]
         /\ UNCHANGED <<walk, jobs, dl, astray, confused, trouble>>
<1>1. disk' = [disk EXCEPT ![h] = With(disk[h], p, c)] /\ DOMAIN disk = Hosts
  BY DEF Make, TypeOK, DiskOK
<1>2. /\ DOMAIN disk'[h] = DOMAIN disk[h] \cup {p} /\ disk'[h][p] = c
      /\ \A g \in Hosts : \A q : g # h \/ q # p =>
           /\ q \in DOMAIN disk'[g] <=> q \in DOMAIN disk[g]
           /\ q \in DOMAIN disk[g] => disk'[g][q] = disk[g][q]
  BY <1>1 DEF With
<1>3. UNCHANGED <<walk, jobs, dl, astray, confused, trouble>>
  BY DEF Make, clientVars, mixVars
<1>4. \/ Free(p) /\ made' = With(made, p, c) /\ UNCHANGED changed
      \/ made' = made /\ changed' = changed \cup {p}
  BY DEF Make
<1>5. p \in changed' \/ (Free(p) /\ p \in DOMAIN made' /\ made'[p] = c /\ changed' = changed)
  BY <1>4 DEF With
<1>6. /\ \A q : q # p /\ q \in DOMAIN made' => q \in DOMAIN made /\ made'[q] = made[q]
      /\ \A q \in DOMAIN made : q \in DOMAIN made' /\ made'[q] = made[q]
  BY <1>4 DEF With, Free
<1>7. ASSUME NEW g \in Hosts, NEW q \in DOMAIN disk[g], q \notin changed'
      PROVE  q \in DOMAIN disk'[g] /\ Len(disk'[g][q]) >= Len(disk[g][q])
  <2>1. disk[g][q] \in Seq(Blocks)
    BY DEF TypeOK, DiskOK, IsFiles
  <2>2. q \in DOMAIN disk'[g] /\ disk'[g][q] = disk[g][q]
    BY <1>2, <1>5, <1>7 DEF Free, Has
  <2> QED  BY <2>1, <2>2
<1> QED  BY <1>2, <1>3, <1>4, <1>5, <1>6, <1>7 DEF Grows

LEMMA DeleteGrows ==
  ASSUME TypeOK, NEW h \in Hosts, NEW p \in DOMAIN disk[h], Delete(h, p)
  PROVE  /\ Grows /\ p \in changed'
         /\ \A g \in Hosts : \A q \in DOMAIN disk'[g] :
              q \in DOMAIN disk[g] /\ disk'[g][q] = disk[g][q]
         /\ UNCHANGED <<walk, jobs, made, astray, confused, trouble>>
<1>1. disk' = [disk EXCEPT ![h] = [q \in DOMAIN disk[h] \ {p} |-> disk[h][q]]]
      /\ DOMAIN disk = Hosts
  BY DEF Delete, TypeOK, DiskOK
<1>2. UNCHANGED <<walk, jobs, made, astray, confused, trouble>> /\ changed' = changed \cup {p}
  BY DEF Delete, clientVars, mixVars
<1>3. ASSUME NEW g \in Hosts, NEW q \in DOMAIN disk[g], q \notin changed'
      PROVE  q \in DOMAIN disk'[g] /\ Len(disk'[g][q]) >= Len(disk[g][q])
  <2>1. disk[g][q] \in Seq(Blocks)
    BY DEF TypeOK, DiskOK, IsFiles
  <2>2. q \in DOMAIN disk'[g] /\ disk'[g][q] = disk[g][q]
    BY <1>1, <1>2, <1>3
  <2> QED  BY <2>1, <2>2
<1>4. \A g \in Hosts : \A q \in DOMAIN disk'[g] :
        q \in DOMAIN disk[g] /\ disk'[g][q] = disk[g][q]
  BY <1>1
<1> QED  BY <1>2, <1>3, <1>4 DEF Grows

LEMMA GoodStays ==
  ASSUME Grows, NEW p, NEW i, NEW b, Good(p, i, b) PROVE Good(p, i, b)'
BY DEF Grows, Good

\* What is known of files and requests of the hosts stays known.
LEMMA KnownStays ==
  ASSUME Grows, TypeOK, TypeOK', NEW g \in Hosts, NEW p
  PROVE  /\ There(g, p) => There(g, p)'
         /\ \A n \in Nat : Reaches(g, p, n) => p \in changed' \/ Reaches(g, p, n)'
<1>1. There(g, p) => There(g, p)'
  BY DEF Grows, There, Has
<1>2. ASSUME NEW n \in Nat, Reaches(g, p, n), p \notin changed' PROVE Reaches(g, p, n)'
  <2>1. p \in DOMAIN disk[g] /\ Len(disk[g][p]) >= n /\ Len(disk[g][p]) \in Nat
    BY <1>2 DEF Reaches, Has, TypeOK, DiskOK, IsFiles
  <2>2. p \in DOMAIN disk'[g] /\ Len(disk'[g][p]) >= Len(disk[g][p])
    BY <1>2, <2>1 DEF Grows
  <2>3. Len(disk'[g][p]) \in Nat
    BY <2>2 DEF TypeOK, DiskOK, IsFiles
  <2>4. Len(disk'[g][p]) >= n
    BY <2>1, <2>2, <2>3
  <2> QED  BY <2>2, <2>4 DEF Reaches, Has
<1> QED  BY <1>1, <1>2

LEMMA GenuineIs ==
  Genuine <=> \A h \in Hosts : \A p \in DOMAIN disk[h] \ changed :
                \A i \in DOMAIN disk[h][p] : Good(p, i, disk[h][p][i])
BY DEF Genuine, Good

\* The files stay genuine, except perhaps for those of paths in D, which are seen to.
LEMMA GenuineStays ==
  ASSUME Genuine, Grows, NEW D,
         \A h \in Hosts : \A p \in DOMAIN disk'[h] \ D :
           p \in DOMAIN disk[h] /\ disk'[h][p] = disk[h][p],
         \A h \in Hosts : \A p \in (DOMAIN disk'[h] \cap D) \ changed' :
           \A i \in DOMAIN disk'[h][p] : \A b : b = disk'[h][p][i] => Good(p, i, b)'
  PROVE  Genuine'
<1> SUFFICES ASSUME NEW h \in Hosts, NEW p \in DOMAIN disk'[h] \ changed',
                    NEW i \in DOMAIN disk'[h][p], NEW b, b = disk'[h][p][i]
             PROVE  Good(p, i, b)'
  BY DEF Genuine, Good
<1>1. CASE p \in D
  BY <1>1
<1>2. CASE p \notin D
  <2>1. p \in DOMAIN disk[h] /\ disk'[h][p] = disk[h][p] /\ p \notin changed
    BY <1>2 DEF Grows
  <2>2. Good(p, i, b)
    BY <2>1, GenuineIs
  <2> QED  BY <2>2, GoodStays
<1> QED  BY <1>1, <1>2

\* A download that goes on as it was, or is broken or given up.
LEMMA FetchedStays ==
  ASSUME TypeOK, TypeOK', Grows, NEW g \in Hosts, Fetched(g),
         \/ dl'[g] = dl[g]
         \/ dl'[g].phase \in {"idle", "broken"}
  PROVE  Fetched(g)'
<1>1. CASE dl'[g].phase \in {"idle", "broken"}
  BY <1>1 DEF Fetched
<1>2. CASE dl'[g] = dl[g]
  <2>1. PICK r : r = dl[g]
    OBVIOUS
  <2>2. r \in Download
    BY <2>1 DEF TypeOK, DownloadOK
  <2>3. r.from \in Hosts /\ r.size \in Nat /\ r.pos \in Nat /\ Len(r.data) \in Nat
    BY <2>2 DEF Download
  <2>4. There(r.from, r.path) => There(r.from, r.path)'
    BY <2>3, KnownStays
  <2>5. r.path \notin changed' => r.path \notin changed
    BY DEF Grows
  <2>6. r.path \notin changed' =>
          /\ Reaches(r.from, r.path, r.size) => Reaches(r.from, r.path, r.size)'
          /\ Reaches(r.from, r.path, Len(r.data)) => Reaches(r.from, r.path, Len(r.data))'
          /\ Reaches(g, r.path, r.pos) => Reaches(g, r.path, r.pos)'
    BY <2>3, KnownStays
  <2>7. \A i : Good(r.path, i, r.data[i]) => Good(r.path, i, r.data[i])'
    BY GoodStays
  <2>8. r.path \notin astray' => r.path \notin astray
    BY DEF Grows
  <2>9. dl'[g] = r
    BY <1>2, <2>1
  <2> QED
    BY <2>1, <2>4, <2>5, <2>6, <2>7, <2>8, <2>9 DEF Fetched
<1> QED  BY <1>1, <1>2

\* Entries and jobs that were there before, or are known to be of files that are.
LEMMA ClientsStay ==
  ASSUME TypeOK, Grows, NEW g \in Hosts, InEntries(g), Queued(g), TypeOK',
         \A i \in DOMAIN walk'[g].stack : \A e \in walk'[g].stack[i].entries :
           \/ walk'[g].peer = walk[g].peer
              /\ \E k \in DOMAIN walk[g].stack : e \in walk[g].stack[k].entries
           \/ e.file => \A k \in Hosts : k = walk'[g].peer => There(k, e.path)',
         \A i \in DOMAIN jobs'[g] :
           \/ \E k \in DOMAIN jobs[g] : jobs'[g][i] = jobs[g][k]
           \/ There(jobs'[g][i].from, jobs'[g][i].path)
  PROVE  InEntries(g)' /\ Queued(g)'
<1>1. walk'[g].peer \in Hosts
  BY DEF TypeOK, WalkOK, Walk
<1>2. \A i \in DOMAIN jobs'[g] : jobs'[g][i].from \in Hosts
  <2>1. jobs'[g] \in Seq(Job)
    BY DEF TypeOK, DownloadOK
  <2>2. \A i \in DOMAIN jobs'[g] : jobs'[g][i] \in Job
    BY <2>1
  <2> QED  BY <2>2 DEF Job
<1>3. InEntries(g)'
  <2> SUFFICES ASSUME NEW i \in DOMAIN walk'[g].stack, NEW e \in walk'[g].stack[i].entries,
                      e.file, NEW k \in Hosts, k = walk'[g].peer
               PROVE  There(k, e.path)'
    BY <1>1 DEF InEntries, There, Has
  <2>1. CASE /\ walk'[g].peer = walk[g].peer
             /\ \E j \in DOMAIN walk[g].stack : e \in walk[g].stack[j].entries
    <3>1. There(k, e.path)
      BY <2>1 DEF InEntries
    <3> QED  BY <3>1, KnownStays
  <2> QED  BY <2>1
<1>4. Queued(g)'
  <2> SUFFICES ASSUME NEW i \in DOMAIN jobs'[g], NEW k \in Hosts, NEW p,
                      k = jobs'[g][i].from, p = jobs'[g][i].path
               PROVE  There(k, p)'
    BY <1>2 DEF Queued, There, Has
  <2>1. There(k, p)
    BY DEF Queued
  <2> QED  BY <2>1, KnownStays
<1> QED  BY <1>3, <1>4

LEMMA InitSafe == Init => IInv
<1> SUFFICES ASSUME Init PROVE IInv
  OBVIOUS
<1>1. Genuine
  BY DEF Init, NoFiles, Genuine
<1>2. ASSUME NEW h \in Hosts PROVE InEntries(h) /\ Queued(h) /\ Fetched(h)
  <2>1. walk[h].stack = <<>> /\ jobs[h] = <<>> /\ dl[h].phase = "idle"
    BY DEF Init, AtRest, NoWalk, NoDownload
  <2> QED  BY <2>1 DEF InEntries, Queued, Fetched
<1> QED
  BY <1>1, <1>2, InitTyped DEF IInv

\* A step that leaves files, entries and jobs as they are, and of the downloads
\* changes at most one in a way that is seen to.
LEMMA QuietSafe ==
  ASSUME IInv, TypeOK', Grows, UNCHANGED <<disk, made>>,
         \A g \in Hosts : \A i \in DOMAIN jobs'[g] :
           \E k \in DOMAIN jobs[g] : jobs'[g][i] = jobs[g][k],
         \A g \in Hosts : \/ walk'[g].stack = <<>>
                          \/ walk'[g].stack = walk[g].stack /\ walk'[g].peer = walk[g].peer,
         \A g \in Hosts : \/ dl'[g] = dl[g]
                          \/ dl'[g].phase \in {"idle", "broken"}
                          \/ Fetched(g)'
  PROVE  IInv'
<1>1. Genuine'
  BY GenuineStays DEF IInv
<1>2. ASSUME NEW g \in Hosts PROVE InEntries(g)' /\ Queued(g)'
  <2>1. InEntries(g) /\ Queued(g) /\ TypeOK
    BY DEF IInv
  <2>2. \A i \in DOMAIN jobs'[g] : There(jobs'[g][i].from, jobs'[g][i].path)
    BY <2>1 DEF Queued
  <2> QED  BY <2>1, <2>2, ClientsStay
<1>3. \A g \in Hosts : Fetched(g)'
  BY FetchedStays DEF IInv
<1> QED  BY <1>1, <1>2, <1>3 DEF IInv

\* A call that comes to have entries es.
LEMMA ListedStack ==
  ASSUME TypeOK, NEW h \in Hosts, walk[h].stack # <<>>, NEW es \in SUBSET Entry, Listed(h, es)
  PROVE  \E f \in Frame :
           /\ f.entries = es /\ f.dir = Top(h).dir /\ f.state = "listed"
           /\ walk' = [walk EXCEPT ![h].stack = Append(Calls(h), f)]
           /\ walk'[h].stack = Append(Calls(h), f) /\ walk'[h].peer = walk[h].peer
           /\ walk'[h].open = walk[h].open
<1>1. walk[h] \in Walk /\ DOMAIN walk = Hosts
  BY DEF TypeOK, WalkOK
<1> DEFINE f == [Top(h) EXCEPT !.state = "listed", !.entries = es]
<1>2. f \in Frame /\ f.entries = es /\ f.dir = Top(h).dir /\ f.state = "listed"
  BY StackType DEF Frame
<1>3. walk' = [walk EXCEPT ![h].stack = Append(Calls(h), f)]
  BY DEF Listed
<1> HIDE DEF f
<1>4. /\ walk'[h].stack = Append(Calls(h), f) /\ walk'[h].peer = walk[h].peer
      /\ walk'[h].open = walk[h].open
  BY <1>1, <1>3 DEF Walk
<1> QED  BY <1>2, <1>3, <1>4

LEMMA AnswerSafe ==
  ASSUME IInv, TypeOK', Grows, NEW h \in Hosts, Answer(h) \/ NoAnswer(h)
  PROVE  InEntries(h)' /\ Queued(h)'
<1>0. TypeOK /\ InEntries(h) /\ Queued(h) /\ walk[h].stack # <<>> /\ UNCHANGED <<jobs, disk>>
  BY DEF IInv, Answer, NoAnswer, Waits
<1>1. \E es \in SUBSET Entry :
        /\ Listed(h, es)
        /\ \A e \in es : e.file => \A k \in Hosts : k = walk[h].peer => There(k, e.path)'
  <2>1. CASE Answer(h)
    <3>1. PICK es \in SUBSET Entry : \E d \in Names :
            /\ Listed(h, es) /\ es = Listing(walk[h].peer, d, Top(h).dir)
            /\ confused \/ confused' \/ d = Top(h).dir
      BY <1>0, <2>1, AnswerType
    <3>2. PICK d \in Names : /\ Listed(h, es) /\ es = Listing(walk[h].peer, d, Top(h).dir)
                             /\ confused \/ confused' \/ d = Top(h).dir
      BY <3>1
    <3>3. ASSUME NEW e \in es, e.file, NEW k \in Hosts, k = walk[h].peer PROVE There(k, e.path)'
      <4>1. CASE confused'
        BY <4>1 DEF There
      <4>2. CASE ~confused'
        <5>1. d = Top(h).dir
          BY <3>2, <4>2 DEF Grows
        <5>2. IsFiles(disk[k])
          BY <1>0 DEF TypeOK, DiskOK
        <5>3. \E n \in STRING : /\ e.path = Append(Top(h).dir, n)
                                /\ e.file = Has(k, Append(d, n))
          <6>1. Top(h).dir \in Names /\ e \in Listing(k, d, Top(h).dir)
            BY <1>0, <3>2, <3>3, StackType DEF Frame
          <6> QED  BY <5>2, <6>1, ListingType
        <5>4. Has(k, e.path)
          BY <3>3, <5>1, <5>3
        <5> QED  BY <1>0, <5>4 DEF There, Has
      <4> QED  BY <4>1, <4>2
    <3> QED  BY <3>2, <3>3
  <2>2. CASE NoAnswer(h)
    <3>1. PICK es \in SUBSET Entry : Listed(h, es) /\ (es = {} \/ confused')
      BY <1>0, <2>2, NoAnswerType
    <3> QED  BY <3>1 DEF There
  <2> QED  BY <2>1, <2>2
<1>2. PICK es \in SUBSET Entry :
        /\ Listed(h, es)
        /\ \A e \in es : e.file => \A k \in Hosts : k = walk[h].peer => There(k, e.path)'
  BY <1>1
<1>3. PICK f \in Frame : /\ f.entries = es /\ walk'[h].stack = Append(Calls(h), f)
                         /\ walk'[h].peer = walk[h].peer
  BY <1>0, <1>2, ListedStack
<1>4. \A i \in DOMAIN walk'[h].stack :
        \/ i \in DOMAIN walk[h].stack /\ walk'[h].stack[i] = walk[h].stack[i]
        \/ walk'[h].stack[i] = f
  BY <1>0, <1>3, StackType
<1> QED
  BY <1>0, <1>2, <1>3, <1>4, ClientsStay DEF Queued

\* With an entry done the others still are those of the calls.
LEMMA DoneEntries ==
  ASSUME TypeOK, NEW h \in Hosts, walk[h].stack # <<>>, NEW e
  PROVE  \A i \in DOMAIN Done(h, e) : \A x \in Done(h, e)[i].entries :
           \E k \in DOMAIN walk[h].stack : x \in walk[h].stack[k].entries
<1>1. PICK f \in Frame : /\ f.entries \subseteq Top(h).entries
                         /\ Done(h, e) = Append(Calls(h), f)
  BY DoneType
<1>2. Calls(h) \in Seq(Frame) /\ walk[h].stack = Append(Calls(h), Top(h)) /\ Top(h) \in Frame
  BY StackType
<1> QED  BY <1>1, <1>2

LEMMA CommandClientSafe ==
  ASSUME IInv, TypeOK', NEW h \in Hosts, CommandClient(h)
  PROVE  IInv' /\ Grows
<1>0. /\ UNCHANGED <<up, disk, made, changed, astray, dl>> /\ TypeOK
      /\ walk \in [Hosts -> Walk] /\ jobs \in [Hosts -> Seq(Job)]
      /\ InEntries(h) /\ Queued(h)
  BY CommandClientQuiet DEF IInv, TypeOK, WalkOK, DownloadOK
<1>1. Grows
  BY <1>0, CommandClientQuiet, QuietGrows
<1>2. InEntries(h)' /\ Queued(h)'
  <2>0. \A i \in DOMAIN jobs[h] : There(jobs[h][i].from, jobs[h][i].path)
    BY <1>0 DEF Queued
  <2>1. CASE Connect(h)
    <3>1. jobs' = jobs /\ walk'[h].stack = <<Asked(<<>>)>>
      BY <1>0, <2>1 DEF Connect
    <3>2. \A i \in DOMAIN walk'[h].stack : walk'[h].stack[i].entries = {}
      BY <3>1 DEF Asked
    <3> QED  BY <1>0, <1>1, <2>0, <3>1, <3>2, ClientsStay
  <2>2. CASE ConnectFails(h)
    BY <1>0, <1>1, <2>0, <2>2, ClientsStay DEF ConnectFails
  <2>3. CASE SplitRequest(h)
    <3>1. walk[h].stack # <<>> /\ jobs' = jobs
      BY <2>3 DEF SplitRequest, Waits
    <3>2. PICK f \in Frame : f.entries = Top(h).entries
            /\ walk' = [walk EXCEPT ![h].stack = Append(Calls(h), f)]
      <4> DEFINE f == [Top(h) EXCEPT !.state = "parsing"]
      <4>1. f \in Frame /\ f.entries = Top(h).entries
        BY <1>0, <3>1, StackType DEF Frame
      <4>2. walk' = [walk EXCEPT ![h].stack = Append(Calls(h), f)]
        BY <2>3 DEF SplitRequest
      <4> QED  BY <4>1, <4>2
    <3>3. walk'[h].peer = walk[h].peer /\ walk'[h].stack = Append(Calls(h), f)
      BY <1>0, <3>2 DEF Walk
    <3>4. Calls(h) \in Seq(Frame) /\ walk[h].stack = Append(Calls(h), Top(h)) /\ Top(h) \in Frame
      BY <1>0, <3>1, StackType
    <3>5. \A i \in DOMAIN walk'[h].stack :
            i \in DOMAIN walk[h].stack /\ walk'[h].stack[i].entries = walk[h].stack[i].entries
      BY <3>2, <3>3, <3>4
    <3> QED  BY <1>0, <1>1, <2>0, <3>1, <3>3, <3>5, ClientsStay
  <2>4. CASE Answer(h) \/ NoAnswer(h)
    BY <1>1, <2>4, AnswerSafe
  <2>5. CASE Return(h)
    <3>1. jobs' = jobs /\ walk[h].stack # <<>>
      BY <2>5 DEF Return, Waits
    <3>2. \/ walk'[h].stack = <<>>
          \/ walk'[h].stack = Calls(h) /\ walk'[h].peer = walk[h].peer
      BY <1>0, <2>5 DEF Return, NoWalk, Walk
    <3>3. Calls(h) \in Seq(Frame) /\ walk[h].stack = Append(Calls(h), Top(h)) /\ Top(h) \in Frame
      BY <1>0, <3>1, StackType
    <3>4. \A i \in DOMAIN Calls(h) : i \in DOMAIN walk[h].stack /\ Calls(h)[i] = walk[h].stack[i]
      BY <3>3
    <3> QED  BY <1>0, <1>1, <2>0, <3>1, <3>2, <3>4, ClientsStay
  <2>6. ASSUME NEW e, Descend(h, e) PROVE InEntries(h)' /\ Queued(h)'
    <3>1. walk[h].stack # <<>> /\ jobs' = jobs
      BY <2>6 DEF Descend, Waits
    <3>2. PICK s \in Seq(Frame) : /\ walk' = [walk EXCEPT ![h].stack = s]
                                  /\ s = Done(h, e) \/ s = Append(Done(h, e), Asked(e.path))
      BY <1>0, <2>6, DescendType
    <3>3. walk'[h].peer = walk[h].peer /\ walk'[h].stack = s
      BY <1>0, <3>2 DEF Walk
    <3>4. Done(h, e) \in Seq(Frame)
      BY <1>0, <3>1, DoneType
    <3>5. \A i \in DOMAIN s : \/ i \in DOMAIN Done(h, e) /\ s[i] = Done(h, e)[i]
                              \/ s[i] = Asked(e.path)
      BY <3>2, <3>4
    <3>6. Asked(e.path).entries = {}
      BY DEF Asked
    <3>7. \A i \in DOMAIN walk'[h].stack : \A x \in walk'[h].stack[i].entries :
            \E k \in DOMAIN walk[h].stack : x \in walk[h].stack[k].entries
      BY <1>0, <3>1, <3>3, <3>5, <3>6, DoneEntries
    <3> QED  BY <1>0, <1>1, <2>0, <3>1, <3>3, <3>7, ClientsStay
  <2>7. ASSUME NEW e, CheckFile(h, e) PROVE InEntries(h)' /\ Queued(h)'
    <3>1. walk[h].stack # <<>> /\ e \in Top(h).entries /\ e.file
      BY <2>7 DEF CheckFile, Waits
    <3>2. walk'[h].peer = walk[h].peer /\ walk'[h].stack = Done(h, e)
      BY <1>0, <2>7 DEF CheckFile, Walk
    <3>3. \A i \in DOMAIN walk'[h].stack : \A x \in walk'[h].stack[i].entries :
            \E k \in DOMAIN walk[h].stack : x \in walk[h].stack[k].entries
      BY <1>0, <3>1, <3>2, DoneEntries
    <3> DEFINE j == [from |-> walk[h].peer, path |-> e.path]
    <3>4. There(j.from, j.path)
      <4>1. /\ Len(walk[h].stack) \in DOMAIN walk[h].stack
            /\ Top(h) = walk[h].stack[Len(walk[h].stack)]
        BY <1>0, <3>1, StackType DEF Top
      <4> QED  BY <1>0, <3>1, <4>1 DEF InEntries
    <3>5. jobs'[h] = jobs[h] \/ jobs'[h] = Append(jobs[h], j)
      BY <1>0, <2>7 DEF CheckFile
    <3> HIDE DEF j
    <3>6. \A i \in DOMAIN jobs'[h] : There(jobs'[h][i].from, jobs'[h][i].path)
      <4>1. jobs[h] \in Seq(Job)
        BY <1>0
      <4>2. \A i \in DOMAIN jobs'[h] :
              \/ i \in DOMAIN jobs[h] /\ jobs'[h][i] = jobs[h][i]
              \/ jobs'[h][i] = j
        BY <3>5, <4>1
      <4> QED  BY <2>0, <3>4, <4>2
    <3> QED  BY <1>0, <1>1, <3>2, <3>3, <3>6, ClientsStay
  <2> QED  BY <2>1, <2>2, <2>3, <2>4, <2>5, <2>6, <2>7 DEF CommandClient
<1>3. ASSUME NEW g \in Hosts \ {h} PROVE InEntries(g)' /\ Queued(g)'
  <2>1. walk'[g] = walk[g] /\ jobs'[g] = jobs[g] /\ InEntries(g) /\ Queued(g)
    BY CommandClientQuiet DEF IInv
  <2> QED  BY <1>0, <1>1, <2>1, ClientsStay DEF Queued
<1>4. Genuine'
  BY <1>0, <1>1, GenuineStays DEF IInv
<1>5. \A g \in Hosts : Fetched(g)'
  BY <1>0, <1>1, FetchedStays DEF IInv
<1> QED  BY <1>1, <1>2, <1>3, <1>4, <1>5 DEF IInv

\* What the download of h comes to be, when the others stay and files do not change.
LEMMA FetchStepSafe ==
  ASSUME IInv, TypeOK', NEW h \in Hosts, FetchStep(h)
  PROVE  IInv' /\ Grows
<1>0. /\ TypeOK /\ Fetched(h) /\ Queued(h) /\ UNCHANGED <<disk, made, changed, walk>>
      /\ jobs \in [Hosts -> Seq(Job)] /\ dl \in [Hosts -> Download] /\ InOrder(dl[h])
      /\ FileClient(h) /\ Grows
  <2>1. FileClient(h) /\ TypeOK
    BY DEF FetchStep, FileClient, IInv
  <2>2. UNCHANGED <<disk, made, changed>> /\ Grows
    BY <2>1, FetchQuiet, QuietGrows
  <2>3. UNCHANGED walk
    BY <2>1, FileClientQuiet DEF clientVars
  <2> QED  BY <2>1, <2>2, <2>3 DEF IInv, TypeOK, DownloadOK
<1>1. \A g \in Hosts \ {h} : dl'[g] = dl[g]
  BY <1>0, FileClientQuiet
<1>2. \A g \in Hosts : \A i \in DOMAIN jobs'[g] :
        \E k \in DOMAIN jobs[g] : jobs'[g][i] = jobs[g][k]
  <2>1. \A g \in Hosts \ {h} : jobs'[g] = jobs[g]
    BY <1>0, FileClientQuiet
  <2>2. jobs'[h] = jobs[h] \/ (jobs[h] # <<>> /\ jobs'[h] = Tail(jobs[h]))
    BY <1>0, FileClientQuiet
  <2>3. jobs[h] \in Seq(Job)
    BY <1>0
  <2>4. jobs[h] # <<>> =>
          \A i \in DOMAIN Tail(jobs[h]) :
            i + 1 \in DOMAIN jobs[h] /\ Tail(jobs[h])[i] = jobs[h][i + 1]
    BY <2>3
  <2>5. \A i \in DOMAIN jobs'[h] : \E k \in DOMAIN jobs[h] : jobs'[h][i] = jobs[h][k]
    <3>1. CASE jobs'[h] = jobs[h]
      BY <3>1
    <3>2. CASE jobs[h] # <<>> /\ jobs'[h] = Tail(jobs[h])
      BY <2>4, <3>2
    <3> QED  BY <2>2, <3>1, <3>2
  <2> QED  BY <2>1, <2>5
<1>3. dl'[h] = dl[h] \/ dl'[h].phase \in {"idle", "broken"} \/ Fetched(h)'
  <2>1. CASE Fetch(h)
    <3>1. PICK job : job = Head(jobs[h])
      OBVIOUS
    <3>2. There(job.from, job.path) /\ job \in Job
      BY <1>0, <2>1, <3>1 DEF Queued, Fetch
    <3>3. There(job.from, job.path)'
      <4>1. job.from \in Hosts
        BY <3>2 DEF Job
      <4> QED  BY <1>0, <3>2, <4>1, KnownStays
    <3>4. dl'[h].phase = "asked" /\ dl'[h].from = job.from /\ dl'[h].path = job.path
      BY <1>0, <2>1, <3>1 DEF Fetch, Request
    <3> QED  BY <3>3, <3>4 DEF Fetched, There, Has
  <2>2. CASE FetchFails(h)
    BY <2>2 DEF FetchFails
  <2>3. CASE SplitFileRequest(h)
    <3>1. dl'[h] = [dl[h] EXCEPT !.phase = "parsing"] /\ dl[h].phase = "asked"
      BY <1>0, <2>3 DEF SplitFileRequest
    <3>2. dl'[h].phase = "parsing" /\ dl'[h].from = dl[h].from /\ dl'[h].path = dl[h].path
      BY <1>0, <3>1 DEF Download
    <3>3. PICK g \in Hosts, p \in Names : g = dl[h].from /\ p = dl[h].path
      BY <1>0 DEF Download
    <3>4. There(g, p)
      BY <1>0, <3>1, <3>3 DEF Fetched
    <3>5. There(g, p)'
      BY <1>0, <3>4, KnownStays
    <3> QED  BY <3>2, <3>3, <3>5 DEF Fetched, There, Has
  <2>4. CASE Stat(h)
    <3>1. PICK g \in Hosts, p \in Names : g = dl[h].from /\ p = dl[h].path
      BY <1>0 DEF Download
    <3>2. There(g, p)
      BY <1>0, <2>4, <3>1 DEF Fetched, Stat
    <3>3. CASE strtok[g] = "file" /\ Has(g, p)
      <4>1. dl'[h] = [dl[h] EXCEPT !.phase = "reading", !.size = Len(disk[g][p])]
        BY <1>0, <2>4, <3>1, <3>3 DEF Stat
      <4>2. /\ dl'[h].phase = "reading" /\ dl'[h].from = g /\ dl'[h].path = p
            /\ dl'[h].size = Len(disk[g][p])
        BY <1>0, <3>1, <4>1 DEF Download
      <4>3. disk[g][p] \in Seq(Blocks)
        BY <1>0, <3>3 DEF Has, TypeOK, DiskOK, IsFiles
      <4> QED  BY <1>0, <3>3, <4>2, <4>3 DEF Fetched, Reaches, Has
    <3>4. CASE ~(strtok[g] = "file" /\ Has(g, p))
      <4>1. /\ dl'[h] = [dl[h] EXCEPT !.phase = "received", !.data = <<Text>>]
            /\ astray' = astray \cup {p} /\ confused' = (confused \/ strtok[g] # "file")
        BY <1>0, <2>4, <3>1, <3>4 DEF Stat
      <4>2. dl'[h].phase = "received" /\ dl'[h].path = p /\ dl'[h].data = <<Text>>
        BY <1>0, <3>1, <4>1 DEF Download
      <4>3. p \notin changed => confused'
        BY <3>2, <3>4, <4>1 DEF There
      <4>4. p \notin changed => Good(p, 1, Text)'
        BY <4>1, <4>3 DEF Good
      <4>5. ASSUME p \notin changed, NEW i \in DOMAIN dl'[h].data, NEW b, b = dl'[h].data[i]
            PROVE  Good(p, i, b)'
        BY <4>2, <4>4, <4>5
      <4>6. p \in astray'
        BY <4>1
      <4> QED  BY <1>0, <4>2, <4>5, <4>6 DEF Fetched, Good
    <3> QED  BY <3>3, <3>4
  <2>5. CASE Read(h)
    <3>0. dl[h].from \in Hosts /\ dl[h].path \in Names /\ dl[h].size \in Nat
      <4>1. dl[h] \in Download
        BY <1>0
      <4> QED  BY <4>1 DEF Download
    <3>1. PICK g \in Hosts, p \in Names, n \in Nat : g = dl[h].from /\ p = dl[h].path /\ n = dl[h].size
      BY <3>0
    <3>2. p \notin changed => Reaches(g, p, n)
      BY <1>0, <2>5, <3>1 DEF Fetched, Read
    <3>3. PICK data : /\ dl' = [dl EXCEPT ![h] = [@ EXCEPT !.phase = "received", !.data = data]]
                      /\ \/ data = SubSeq(disk[g][p], 1, n) /\ Reaches(g, p, n)
                         \/ /\ data = [i \in 1 .. n |-> Garbage] /\ astray' = astray \cup {p}
                            /\ Reaches(g, p, n) => trouble'
      BY <2>5, <3>1 DEF Read, Reaches
    <3>4. dl'[h].phase = "received" /\ dl'[h].path = p /\ dl'[h].data = data /\ dl'[h].from = g
      BY <1>0, <3>1, <3>3 DEF Download
    <3>5. CASE data = SubSeq(disk[g][p], 1, n) /\ Reaches(g, p, n)
      <4>1. disk[g][p] \in Seq(Blocks) /\ Len(disk[g][p]) >= n
        BY <1>0, <3>5 DEF Reaches, Has, TypeOK, DiskOK, IsFiles
      <4>2. DOMAIN data = 1 .. n /\ Len(data) = n
            /\ \A i \in 1 .. n : data[i] = disk[g][p][i] /\ i \in DOMAIN disk[g][p]
        BY <3>5, <4>1
      <4>3. ASSUME p \notin changed, NEW i \in DOMAIN data PROVE Good(p, i, data[i])
        <5>1. p \in DOMAIN disk[g] \ changed
          BY <3>5, <4>3 DEF Reaches, Has
        <5>2. Good(p, i, disk[g][p][i])
          BY <4>2, <4>3, <5>1, GenuineIs DEF IInv
        <5> QED  BY <4>2, <4>3, <5>2
      <4>4. \A i, b : Good(p, i, b) => Good(p, i, b)'
        BY <1>0, GoodStays
      <4>5. Reaches(g, p, n)'
        BY <1>0, <3>5 DEF Reaches, Has
      <4>6. \A i \in DOMAIN data : p \notin changed => Good(p, i, data[i])'
        BY <4>3, <4>4
      <4> HIDE DEF Good, Reaches
      <4> QED  BY <1>0, <3>4, <4>2, <4>5, <4>6 DEF Fetched, Good, Reaches, Has
    <3>6. CASE /\ data = [i \in 1 .. n |-> Garbage] /\ astray' = astray \cup {p}
               /\ Reaches(g, p, n) => trouble'
      <4>1. p \notin changed => trouble'
        BY <3>2, <3>6
      <4>2. p \in astray' /\ \A i \in DOMAIN data : data[i] = Garbage
        BY <3>6
      <4> QED  BY <1>0, <3>4, <4>1, <4>2 DEF Fetched, Good
    <3> QED  BY <3>3, <3>5, <3>6
  <2>6. CASE NoData(h) \/ OpenFails(h) \/ ShortWrite(h)
    BY <1>0, <2>6 DEF NoData, OpenFails, ShortWrite, NoDownload
  <2> QED  BY <2>1, <2>2, <2>3, <2>4, <2>5, <2>6 DEF FetchStep
<1> QED  BY <1>0, <1>1, <1>2, <1>3, QuietSafe

\* A step that leaves entries and jobs as they are.
LEMMA FilesSafe ==
  ASSUME IInv, TypeOK', Grows, Genuine', UNCHANGED <<walk, jobs>>,
         \A g \in Hosts : \/ dl'[g] = dl[g]
                          \/ dl'[g].phase \in {"idle", "broken"}
                          \/ Fetched(g)'
  PROVE  IInv'
<1>1. ASSUME NEW g \in Hosts PROVE InEntries(g)' /\ Queued(g)'
  BY ClientsStay DEF IInv, Queued
<1>2. \A g \in Hosts : Fetched(g)'
  BY FetchedStays DEF IInv
<1> QED  BY <1>1, <1>2 DEF IInv

LEMMA OpenSafe ==
  ASSUME IInv, TypeOK', NEW h \in Hosts, Open(h)
  PROVE  IInv' /\ Grows
<1>1. PICK r \in Download, p \in Names : r = dl[h] /\ p = r.path
  <2>1. dl[h] \in Download
    BY DEF IInv, TypeOK, DownloadOK
  <2> QED  BY <2>1 DEF Download
<1>0. /\ TypeOK /\ Fetched(h) /\ InOrder(r) /\ r.phase = "received" /\ r.from \in Hosts
      /\ UNCHANGED <<walk, jobs, made, changed, astray, confused, trouble>>
      /\ Len(r.data) \in Nat
  <2>1. TypeOK /\ Fetched(h) /\ InOrder(dl[h])
    BY DEF IInv, TypeOK, DownloadOK
  <2>2. r.from \in Hosts /\ Len(r.data) \in Nat
    BY DEF Download
  <2>3. /\ dl[h].phase = "received"
        /\ UNCHANGED <<walk, jobs, made, changed, astray, confused, trouble>>
    BY DEF Open, clientVars, mixVars, auxVars
  <2> QED  BY <1>1, <2>1, <2>2, <2>3
<1>2. Grows /\ Genuine'
  <2>1. \A k \in Hosts : \A q \in DOMAIN disk'[k] :
          \/ q \in DOMAIN disk[k] /\ disk'[k][q] = disk[k][q]
          \/ q = p /\ disk'[k][q] = <<>>
    BY <1>0, <1>1, OpenGrows DEF Has
  <2>2. \A k \in Hosts : \A q \in DOMAIN disk[k] : disk'[k][q] = disk[k][q]
    BY <1>0, OpenGrows
  <2>3. Grows
    BY <1>0, OpenGrows
  <2>4. \A k \in Hosts : \A q \in (DOMAIN disk'[k] \cap {p}) \ changed' :
          \A i \in DOMAIN disk'[k][q] : \A b : b = disk'[k][q][i] => Good(q, i, b)'
    <3> SUFFICES ASSUME NEW k \in Hosts, NEW q \in (DOMAIN disk'[k] \cap {p}) \ changed',
                        NEW i \in DOMAIN disk'[k][q], NEW b, b = disk'[k][q][i]
                 PROVE  Good(q, i, b)'
      OBVIOUS
    <3>1. q \in DOMAIN disk[k] \ changed /\ disk'[k][q] = disk[k][q]
      BY <1>0, <2>1
    <3>2. Good(q, i, b)
      BY <3>1, GenuineIs DEF IInv
    <3> QED  BY <2>3, <3>2, GoodStays
  <2>5. \A k \in Hosts : \A q \in DOMAIN disk'[k] \ {p} :
          q \in DOMAIN disk[k] /\ disk'[k][q] = disk[k][q]
    BY <2>1
  <2>6. Genuine'
    BY <2>3, <2>4, <2>5, GenuineStays DEF IInv
  <2> QED  BY <2>3, <2>6
<1>3. \A g \in Hosts \ {h} : dl'[g] = dl[g]
  BY FileClientQuiet, <1>0 DEF FileClient
<1>4. Fetched(h)'
  <2>1. dl'[h] = [r EXCEPT !.phase = "write"]
    BY <1>1 DEF Open, IInv, TypeOK, DownloadOK
  <2>2. /\ dl'[h].phase = "write" /\ dl'[h].path = p /\ dl'[h].from = r.from
        /\ dl'[h].data = r.data /\ dl'[h].pos = 0
    BY <1>0, <1>1, <2>1 DEF Download, InOrder
  <2>3. Reaches(h, p, 0)'
    <3>1. p \in DOMAIN disk'[h]
      BY <1>0, <1>1, OpenGrows
    <3>2. disk'[h][p] \in Seq(Blocks)
      BY <3>1 DEF TypeOK, DiskOK, IsFiles
    <3> QED  BY <3>1, <3>2 DEF Reaches, Has
  <2>4. p \notin changed' =>
          /\ \A i \in DOMAIN r.data : Good(p, i, r.data[i])'
          /\ p \notin astray' => Reaches(r.from, p, Len(r.data))'
    <3>1. p \notin changed =>
            /\ \A i \in DOMAIN r.data : Good(p, i, r.data[i])
            /\ p \notin astray => Reaches(r.from, p, Len(r.data))
      BY <1>0, <1>1 DEF Fetched
    <3>2. \A i, b : Good(p, i, b) => Good(p, i, b)'
      BY <1>2, GoodStays
    <3>3. Reaches(r.from, p, Len(r.data)) => p \in changed' \/ Reaches(r.from, p, Len(r.data))'
      BY <1>0, <1>2, KnownStays
    <3> QED  BY <1>0, <3>1, <3>2, <3>3
  <2> QED  BY <1>0, <2>2, <2>3, <2>4 DEF Fetched
<1> QED  BY <1>0, <1>2, <1>3, <1>4, FilesSafe

LEMMA WriteSafe ==
  ASSUME IInv, TypeOK', NEW h \in Hosts, Write(h)
  PROVE  IInv' /\ Grows
<1>1. PICK r \in Download, p \in Names, i \in Nat \ {0} :
        r = dl[h] /\ p = r.path /\ i = r.pos + 1
  <2>1. dl[h] \in Download
    BY DEF IInv, TypeOK, DownloadOK
  <2> QED  BY <2>1 DEF Download
<1>0. /\ TypeOK /\ Fetched(h) /\ r.phase = "write" /\ r.from \in Hosts /\ Len(r.data) \in Nat
      /\ r.pos \in Nat /\ r.data \in Seq(Blocks) /\ i \in DOMAIN r.data /\ r.data[i] \in Blocks
      /\ UNCHANGED <<walk, jobs, made, changed, astray, confused, trouble>>
  <2>1. TypeOK /\ Fetched(h) /\ InOrder(dl[h])
    BY DEF IInv, TypeOK, DownloadOK
  <2>2. r.from \in Hosts /\ r.data \in Seq(Blocks) /\ r.pos \in Nat
    BY DEF Download
  <2>3. /\ dl[h].phase = "write"
        /\ UNCHANGED <<walk, jobs, made, changed, astray, confused, trouble>>
    BY DEF Write, clientVars, mixVars, auxVars
  <2>4. r.pos < Len(r.data) /\ Len(r.data) \in Nat
    BY <1>1, <2>1, <2>2, <2>3 DEF InOrder
  <2> QED  BY <1>1, <2>1, <2>2, <2>3, <2>4
<1>2. Grows
  BY <1>0, WriteGrows
<1>3. /\ DOMAIN disk'[h] = DOMAIN disk[h]
      /\ \A g \in Hosts : \A q : (g # h \/ q # p) /\ q \in DOMAIN disk'[g] =>
           q \in DOMAIN disk[g] /\ disk'[g][q] = disk[g][q]
      /\ p \in DOMAIN disk[h] => disk'[h][p] = Put(disk[h][p], i, r.data[i])
  BY <1>0, <1>1, WriteType DEF Has
<1>4. \A g \in Hosts \ {h} : dl'[g] = dl[g]
  BY FileClientQuiet, <1>0 DEF FileClient
<1>5. p \notin changed =>
        /\ \A k \in DOMAIN r.data : Good(p, k, r.data[k])
        /\ p \notin astray => Reaches(r.from, p, Len(r.data))
        /\ Reaches(h, p, r.pos)
  BY <1>0, <1>1 DEF Fetched
<1>6. p \notin changed =>
        /\ p \in DOMAIN disk[h] /\ disk[h][p] \in Seq(Blocks) /\ i <= Len(disk[h][p]) + 1
        /\ Len(disk'[h][p]) >= i
        /\ \A k \in DOMAIN disk'[h][p] :
             \/ k = i /\ disk'[h][p][k] = r.data[i]
             \/ k \in DOMAIN disk[h][p] /\ disk'[h][p][k] = disk[h][p][k]
  <2> SUFFICES ASSUME p \notin changed
               PROVE  /\ p \in DOMAIN disk[h] /\ disk[h][p] \in Seq(Blocks)
                      /\ i <= Len(disk[h][p]) + 1 /\ Len(disk'[h][p]) >= i
                      /\ \A k \in DOMAIN disk'[h][p] :
                           \/ k = i /\ disk'[h][p][k] = r.data[i]
                           \/ k \in DOMAIN disk[h][p] /\ disk'[h][p][k] = disk[h][p][k]
    OBVIOUS
  <2>1. p \in DOMAIN disk[h] /\ Len(disk[h][p]) >= r.pos
    BY <1>5 DEF Reaches, Has
  <2>2. disk[h][p] \in Seq(Blocks)
    BY <1>0, <2>1 DEF TypeOK, DiskOK, IsFiles
  <2>3. i <= Len(disk[h][p]) + 1
    BY <1>0, <1>1, <2>1, <2>2
  <2>4. /\ Len(Put(disk[h][p], i, r.data[i])) >= i
        /\ \A k \in DOMAIN Put(disk[h][p], i, r.data[i]) :
             \/ k = i /\ Put(disk[h][p], i, r.data[i])[k] = r.data[i]
             \/ k \in DOMAIN disk[h][p] /\ Put(disk[h][p], i, r.data[i])[k] = disk[h][p][k]
    BY <1>0, <2>2, <2>3 DEF Put
  <2> QED  BY <1>3, <2>1, <2>2, <2>3, <2>4
<1>7. Genuine'
  <2>1. \A g \in Hosts : \A q \in (DOMAIN disk'[g] \cap {p}) \ changed' :
          \A k \in DOMAIN disk'[g][q] : \A b : b = disk'[g][q][k] => Good(q, k, b)'
    <3> SUFFICES ASSUME NEW g \in Hosts, p \in DOMAIN disk'[g] \ changed,
                        NEW k \in DOMAIN disk'[g][p], NEW b, b = disk'[g][p][k]
                 PROVE  Good(p, k, b)'
      BY <1>0
    <3>1. \A q \in DOMAIN disk[g] \ changed : \A j \in DOMAIN disk[g][q] : Good(q, j, disk[g][q][j])
      BY GenuineIs DEF IInv
    <3>2. Good(p, k, b)
      <4>1. CASE g # h
        <5>1. p \in DOMAIN disk[g] /\ disk'[g][p] = disk[g][p]
          BY <1>3, <4>1
        <5> QED  BY <3>1, <5>1
      <4>2. CASE g = h
        <5>1. CASE k = i /\ b = r.data[i]
          BY <1>0, <1>5, <5>1
        <5>2. CASE k \in DOMAIN disk[h][p] /\ b = disk[h][p][k]
          BY <1>6, <3>1, <4>2, <5>2
        <5> QED  BY <1>6, <4>2, <5>1, <5>2
      <4> QED  BY <4>1, <4>2
    <3> QED  BY <1>2, <3>2, GoodStays
  <2>2. \A g \in Hosts : \A q \in DOMAIN disk'[g] \ {p} :
          q \in DOMAIN disk[g] /\ disk'[g][q] = disk[g][q]
    BY <1>3
  <2> QED  BY <1>2, <2>1, <2>2, GenuineStays DEF IInv
<1>8. dl'[h].phase = "idle" \/ Fetched(h)'
  <2>1. \/ dl'[h] = NoDownload(h)
        \/ dl'[h] = [r EXCEPT !.pos = i]
    BY <1>0, <1>1 DEF Write, TypeOK, DownloadOK
  <2>2. CASE dl'[h] = NoDownload(h)
    BY <2>2 DEF NoDownload
  <2>3. CASE dl'[h] = [r EXCEPT !.pos = i]
    <3>1. /\ dl'[h].phase = "write" /\ dl'[h].path = p /\ dl'[h].from = r.from
          /\ dl'[h].data = r.data /\ dl'[h].pos = i
      BY <1>0, <1>1, <2>3 DEF Download
    <3>2. p \notin changed' =>
            /\ \A k \in DOMAIN r.data : Good(p, k, r.data[k])'
            /\ p \notin astray' => Reaches(r.from, p, Len(r.data))'
      <4>1. \A k, b : Good(p, k, b) => Good(p, k, b)'
        BY <1>2, GoodStays
      <4>2. Reaches(r.from, p, Len(r.data)) => p \in changed' \/ Reaches(r.from, p, Len(r.data))'
        BY <1>0, <1>2, KnownStays
      <4> QED  BY <1>0, <1>5, <4>1, <4>2
    <3>3. p \notin changed' => Reaches(h, p, i)'
      BY <1>0, <1>3, <1>6 DEF Reaches, Has
    <3> QED  BY <1>0, <3>1, <3>2, <3>3 DEF Fetched
  <2> QED  BY <2>1, <2>2, <2>3
<1> QED  BY <1>0, <1>2, <1>4, <1>7, <1>8, FilesSafe

LEMMA MakeSafe ==
  ASSUME IInv, TypeOK', NEW h \in Hosts, NEW p \in Paths, NEW c, Make(h, p, c)
  PROVE  IInv' /\ Grows
<1>0. /\ TypeOK /\ Grows /\ UNCHANGED <<walk, jobs, dl>>
      /\ disk'[h][p] = c
      /\ \A g \in Hosts : \A q : g # h \/ q # p =>
           /\ q \in DOMAIN disk'[g] <=> q \in DOMAIN disk[g]
           /\ q \in DOMAIN disk[g] => disk'[g][q] = disk[g][q]
      /\ p \in changed' \/ (Free(p) /\ p \in DOMAIN made' /\ made'[p] = c)
  BY MakeGrows DEF IInv
<1>1. \A g \in Hosts : \A q \in DOMAIN disk'[g] \ {p} :
        q \in DOMAIN disk[g] /\ disk'[g][q] = disk[g][q]
  BY <1>0
<1>2. \A g \in Hosts : \A q \in (DOMAIN disk'[g] \cap {p}) \ changed' :
        \A i \in DOMAIN disk'[g][q] : \A b : b = disk'[g][q][i] => Good(q, i, b)'
  <2> SUFFICES ASSUME NEW g \in Hosts, p \in DOMAIN disk'[g] \ changed',
                      NEW i \in DOMAIN disk'[g][p], NEW b, b = disk'[g][p][i]
               PROVE  Good(p, i, b)'
    OBVIOUS
  <2>1. Free(p) /\ p \in DOMAIN made' /\ made'[p] = c
    BY <1>0
  <2>2. g = h
    BY <1>0, <2>1 DEF Free, Has
  <2> QED  BY <1>0, <2>1, <2>2 DEF Good
<1>3. Genuine'
  BY <1>0, <1>1, <1>2, GenuineStays DEF IInv
<1> QED  BY <1>0, <1>3, FilesSafe

LEMMA DeleteSafe ==
  ASSUME IInv, TypeOK', NEW h \in Hosts, NEW p \in DOMAIN disk[h], Delete(h, p)
  PROVE  IInv' /\ Grows
<1>0. /\ TypeOK /\ Grows /\ UNCHANGED <<walk, jobs>>
      /\ \A g \in Hosts : \A q \in DOMAIN disk'[g] :
           q \in DOMAIN disk[g] /\ disk'[g][q] = disk[g][q]
  BY DeleteGrows DEF IInv
<1>1. Genuine'
  BY <1>0, GenuineStays DEF IInv
<1>2. \A g \in Hosts : dl'[g] = dl[g] \/ dl'[g].phase = "idle"
  BY <1>0 DEF Delete, TypeOK, DownloadOK, NoDownload
<1> QED  BY <1>0, <1>1, <1>2, FilesSafe

LEMMA CrashSafe ==
  ASSUME IInv, TypeOK', NEW h \in Hosts, Crash(h)
  PROVE  IInv' /\ Grows
<1>0. /\ TypeOK /\ walk \in [Hosts -> Walk] /\ jobs \in [Hosts -> Seq(Job)]
      /\ dl \in [Hosts -> Download]
  BY DEF IInv, TypeOK, WalkOK, DownloadOK
<1>1. UNCHANGED <<disk, made, changed, astray, confused>> /\ trouble'
  BY DEF Crash, mixVars
<1>2. Grows
  BY <1>0, <1>1, QuietGrows
<1>3. \A g \in Hosts : jobs'[g] = <<>> \/ jobs'[g] = jobs[g]
  BY <1>0 DEF Crash
<1>4. \A g \in Hosts : \/ walk'[g].stack = <<>>
                       \/ walk'[g].stack = walk[g].stack /\ walk'[g].peer = walk[g].peer
  <2> TAKE g \in Hosts
  <2>1. \/ walk'[g] = NoWalk(h) \/ walk'[g] = walk[g]
        \/ walk'[g] = [walk[g] EXCEPT !.open = FALSE]
    BY DEF Crash
  <2>2. walk[g] \in Walk
    BY <1>0
  <2> QED  BY <2>1, <2>2 DEF NoWalk, Walk
<1>5. \A g \in Hosts : dl'[g] = dl[g] \/ dl'[g].phase \in {"idle", "broken"}
  <2> TAKE g \in Hosts
  <2>1. \/ dl'[g] = NoDownload(h) \/ dl'[g] = dl[g]
        \/ dl'[g] = [dl[g] EXCEPT !.phase = "broken"]
    BY DEF Crash
  <2>2. dl[g] \in Download
    BY <1>0
  <2> QED  BY <2>1, <2>2 DEF NoDownload, Download
<1>6. \A g \in Hosts : \A i \in DOMAIN jobs'[g] : \E k \in DOMAIN jobs[g] : jobs'[g][i] = jobs[g][k]
  BY <1>3
<1> QED  BY <1>1, <1>2, <1>4, <1>5, <1>6, QuietSafe

LEMMA NextSafe ==
  ASSUME IInv, [Next]_vars
  PROVE  IInv' /\ Grows
<1>0. TypeOK /\ TypeOK'
  BY NextTyped DEF IInv
<1>1. ASSUME UNCHANGED <<disk, made, walk, jobs, dl, changed, astray, confused, trouble>>
      PROVE  IInv' /\ Grows
  BY <1>0, <1>1, QuietGrows, QuietSafe
<1>2. CASE UNCHANGED vars
  BY <1>1, <1>2 DEF vars, clientVars, mixVars, auxVars
<1>3. ASSUME NEW h \in Hosts, CommandClient(h) PROVE IInv' /\ Grows
  BY <1>0, <1>3, CommandClientSafe
<1>4. ASSUME NEW h \in Hosts, FileClient(h) PROVE IInv' /\ Grows
  <2>1. FetchStep(h) \/ Open(h) \/ Write(h)
    BY <1>4 DEF FileClient, FetchStep
  <2> QED  BY <1>0, <2>1, FetchStepSafe, OpenSafe, WriteSafe
<1>5. ASSUME NEW h \in Hosts, NEW g \in Hosts, Announce(h, g) PROVE IInv' /\ Grows
  BY <1>1, <1>5 DEF Announce, mixVars, auxVars
<1>6. ASSUME NEW h \in Hosts, NEW p \in DOMAIN disk[h], Delete(h, p) PROVE IInv' /\ Grows
  BY <1>0, <1>6, DeleteSafe
<1>7. ASSUME NEW h \in Hosts, NEW p \in Paths, NEW c \in Contents[p], Make(h, p, c)
      PROVE  IInv' /\ Grows
  BY <1>0, <1>7, MakeSafe
<1>8. ASSUME NEW h \in Hosts, Crash(h) PROVE IInv' /\ Grows
  BY <1>0, <1>8, CrashSafe
<1>9. ASSUME NEW h \in Hosts, ServeNobody(h) \/ Start(h) PROVE IInv' /\ Grows
  BY <1>1, <1>9 DEF ServeNobody, Start, mixVars, auxVars, clientVars
<1> QED  BY <1>2, <1>3, <1>4, <1>5, <1>6, <1>7, <1>8, <1>9 DEF Next

\* Whatever happens, crashes, short writes and confused servers included, a block in
\* sync_files is one that a user made at its place in that file, or the error text or
\* freed memory that a server sent when something went astray (command_server.c:129,
\* file_server.c:120 and 142, file_client.c:104).
THEOREM GenuineCorrect == Spec => []Genuine
<1>1. Spec => []IInv
  <2>1. IInv /\ [Next]_vars => IInv'
    BY NextSafe
  <2> QED  BY InitSafe, <2>1, PTL DEF Spec
<1>2. IInv => Genuine
  BY DEF IInv
<1> QED  BY <1>1, <1>2, PTL

(***************************************************************************)
(* FileSync implements Sync.                                               *)
(***************************************************************************)

LEMMA SameFile ==
  ASSUME NEW f \in Seq(Blocks), NEW m \in Seq(Blocks), Len(f) >= Len(m),
         \A i \in DOMAIN f : i \in DOMAIN m /\ f[i] = m[i]
  PROVE  f = m
<1>1. Len(f) = Len(m)
  <2>1. Len(f) # 0 => Len(f) \in DOMAIN f
    OBVIOUS
  <2>2. Len(f) # 0 => Len(f) <= Len(m)
    BY <2>1
  <2> QED  BY <2>2
<1> QED  BY <1>1

\* A file of which nothing went astray is whole when it is long enough.
LEMMA LongEnough ==
  ASSUME IInv, NEW g \in Hosts, NEW p \in DOMAIN made \ (changed \cup astray),
         Has(g, p), Len(disk[g][p]) >= Len(made[p])
  PROVE  Whole(g, p)
<1>1. disk[g][p] \in Seq(Blocks) /\ made[p] \in Seq(Blocks) /\ p \in DOMAIN disk[g]
  BY DEF IInv, TypeOK, DiskOK, IsFiles, Has
<1>2. \A i \in DOMAIN disk[g][p] : i \in DOMAIN made[p] /\ disk[g][p][i] = made[p][i]
  BY <1>1, GenuineIs DEF IInv, Good
<1> QED  BY <1>1, <1>2, SameFile DEF Whole

\* Whole files stay whole.
LEMMA WholeStays ==
  ASSUME IInv', Grows, NEW g \in Hosts, NEW p, p \notin changed' \cup astray', Whole(g, p)
  PROVE  Whole(g, p)'
<1>1. /\ p \in DOMAIN made' /\ made'[p] = disk[g][p]
      /\ p \in DOMAIN disk'[g] /\ Len(disk'[g][p]) >= Len(disk[g][p])
  BY DEF Grows, Whole, Has
<1>2. disk'[g][p] \in Seq(Blocks) /\ made'[p] \in Seq(Blocks)
  BY <1>1 DEF IInv, TypeOK, DiskOK, IsFiles
<1>3. \A i \in DOMAIN disk'[g][p] : i \in DOMAIN made'[p] /\ disk'[g][p][i] = made'[p][i]
  BY <1>1 DEF IInv, Genuine
<1>4. disk'[g][p] = made'[p]
  BY <1>1, <1>2, <1>3, SameFile
<1> QED  BY <1>1, <1>4 DEF Whole, Has

\* Nothing gets whole: a step of Spoil.
LEMMA SpoilStep ==
  ASSUME IInv', Grows,
         \A g \in Hosts, q \in Paths \ spoilt' : Whole(g, q)' => Whole(g, q)
  PROVE  S!Spoil
<1>1. /\ spoilt' = spoilt \cup (spoilt' \ spoilt) /\ spoilt' \ spoilt \in SUBSET Paths
      /\ \A q \in Paths \ spoilt' : q \notin changed' \cup astray'
  BY DEF Grows, spoilt
<1>2. \A g \in Hosts, q \in Paths \ spoilt' : Whole(g, q) => Whole(g, q)'
  BY <1>1, WholeStays
<1>3. have' = [h \in Hosts |-> have[h] \ (spoilt' \ spoilt)]
  <2>1. ASSUME NEW h \in Hosts
        PROVE  {p \in Paths \ spoilt' : Whole(h, p)'}
                 = {p \in Paths \ spoilt : Whole(h, p)} \ (spoilt' \ spoilt)
    BY <1>1, <1>2
  <2> QED  BY <2>1 DEF have
<1> QED  BY <1>1, <1>3 DEF S!Spoil

\* One file gets whole: it is made, where no host has one, or copied.
LEMMA WholeStep ==
  ASSUME IInv', Grows, UNCHANGED spoilt, NEW h \in Hosts, NEW p \in Paths \ spoilt,
         Whole(h, p)',
         \A g \in Hosts, q \in Paths \ spoilt :
           Whole(g, q)' => Whole(g, q) \/ (g = h /\ q = p)
  PROVE  /\ (\A g \in Hosts : ~Whole(g, p)) => S!Make(h, p)
         /\ (\E g \in Hosts : Whole(g, p)) => S!Copy(h, p)
<1>0. \A q \in Paths \ spoilt : q \notin changed' \cup astray'
  BY DEF spoilt
<1>1. \A g \in Hosts, q \in Paths \ spoilt : Whole(g, q) => Whole(g, q)'
  BY <1>0, WholeStays
<1>2. have' = [have EXCEPT ![h] = @ \cup {p}]
  <2>1. ASSUME NEW g \in Hosts
        PROVE  {q \in Paths \ spoilt' : Whole(g, q)'}
                 = IF g = h THEN {q \in Paths \ spoilt : Whole(g, q)} \cup {p}
                   ELSE {q \in Paths \ spoilt : Whole(g, q)}
    BY <1>1
  <2>2. \A g \in Hosts : have'[g] = IF g = h THEN have[h] \cup {p} ELSE have[g]
    BY <2>1 DEF have
  <2>3. /\ have = [g \in Hosts |-> have[g]]
        /\ have' = [g \in Hosts |-> have'[g]]
    BY DEF have
  <2> QED  BY <2>2, <2>3
<1> QED  BY <1>2 DEF S!Make, S!Copy, have

\* Nothing gets whole where a file is opened.
LEMMA OpenStep ==
  ASSUME IInv, IInv', Grows, NEW h \in Hosts, Open(h)
  PROVE  S!Spoil
<1>1. PICK r \in Download, p \in Names : r = dl[h] /\ p = r.path
  <2>1. dl[h] \in Download
    BY DEF IInv, TypeOK, DownloadOK
  <2> QED  BY <2>1 DEF Download
<1>2. /\ TypeOK /\ UNCHANGED <<made, changed, astray>> /\ r.phase = "received" /\ r.data # <<>>
      /\ r.data \in Seq(Blocks) /\ Fetched(h)
  BY <1>1 DEF IInv, Open, mixVars, auxVars, Download
<1>3. ASSUME NEW g \in Hosts, NEW q \in Paths \ spoilt', Whole(g, q)' PROVE Whole(g, q)
  <2>1. CASE q \in DOMAIN disk[g]
    <3>1. disk'[g][q] = disk[g][q]
      BY <1>2, <2>1, OpenGrows
    <3> QED  BY <1>2, <1>3, <2>1, <3>1 DEF Whole, Has
  <2>2. CASE q \notin DOMAIN disk[g]
    <3>1. g = h /\ q = p /\ disk'[h][p] = <<>>
      BY <1>1, <1>2, <1>3, <2>2, OpenGrows DEF Whole, Has
    <3>2. p \notin changed /\ p \notin astray
      BY <1>2, <1>3, <3>1 DEF spoilt
    <3>3. 1 \in DOMAIN r.data
      BY <1>2
    <3>4. Good(p, 1, r.data[1])
      BY <1>1, <1>2, <3>2, <3>3 DEF Fetched
    <3>5. 1 \in DOMAIN made[p]
      BY <3>2, <3>4 DEF Good
    <3>6. made[p] = <<>>
      BY <1>2, <1>3, <3>1 DEF Whole
    <3> QED  BY <3>5, <3>6
  <2> QED  BY <2>1, <2>2
<1> QED  BY <1>3, SpoilStep

\* Whoever writes the last block of a file copies it from one who has it.
LEMMA WriteStep ==
  ASSUME IInv, IInv', Grows, NEW h \in Hosts, Write(h)
  PROVE  S!Next
<1>1. PICK r \in Download, p \in Names, i \in Nat \ {0} :
        r = dl[h] /\ p = r.path /\ i = r.pos + 1
  <2>1. dl[h] \in Download
    BY DEF IInv, TypeOK, DownloadOK
  <2> QED  BY <2>1 DEF Download
<1>2. /\ TypeOK /\ UNCHANGED <<made, changed, astray, spoilt>> /\ r.phase = "write"
      /\ r.data \in Seq(Blocks) /\ Fetched(h) /\ r.from \in Hosts /\ r.pos \in Nat
  <2>1. UNCHANGED <<made, changed, astray>> /\ dl[h].phase = "write"
    BY DEF Write, mixVars, auxVars
  <2> QED  BY <1>1, <2>1 DEF IInv, Download, spoilt
<1>3. i \in DOMAIN r.data /\ i <= Len(r.data) /\ r.data[i] \in Blocks
  <2>1. InOrder(r)
    BY <1>1 DEF IInv, TypeOK, DownloadOK
  <2>2. r.pos < Len(r.data) /\ Len(r.data) \in Nat
    BY <1>2, <2>1 DEF InOrder
  <2> QED  BY <1>1, <1>2, <2>2
<1>4. \A g \in Hosts, q \in Paths \ spoilt :
        Whole(g, q)' => Whole(g, q) \/ (g = h /\ q = p)
  <2> SUFFICES ASSUME NEW g \in Hosts, NEW q \in Paths \ spoilt, Whole(g, q)', g # h \/ q # p
               PROVE  Whole(g, q)
    OBVIOUS
  <2>1. q \in DOMAIN disk[g] /\ disk'[g][q] = disk[g][q]
    BY <1>1, <1>2, WriteType DEF Whole, Has
  <2> QED  BY <1>2, <2>1 DEF Whole, Has
<1>5. CASE p \in Paths \ spoilt /\ Whole(h, p)'
  <2>1. p \notin changed /\ p \notin astray
    BY <1>5 DEF spoilt
  <2>2. /\ \A k \in DOMAIN r.data : Good(p, k, r.data[k])
        /\ Reaches(r.from, p, Len(r.data)) /\ Reaches(h, p, r.pos)
    BY <1>1, <1>2, <2>1 DEF Fetched
  <2>3. p \in DOMAIN made /\ made[p] \in Seq(Blocks) /\ disk'[h][p] = made[p]
    BY <1>2, <1>5 DEF Whole, TypeOK, DiskOK, IsFiles
  <2>4. CASE Len(disk[h][p]) >= Len(made[p])
    <3>1. Whole(h, p)
      BY <2>1, <2>2, <2>3, <2>4, LongEnough DEF Reaches
    <3>2. S!Copy(h, p)
      BY <1>2, <1>4, <1>5, <3>1, WholeStep
    <3> QED  BY <1>5, <3>2 DEF S!Next
  <2>5. CASE ~(Len(disk[h][p]) >= Len(made[p]))
    <3>1. disk[h][p] \in Seq(Blocks) /\ Len(disk[h][p]) >= r.pos
      BY <1>2, <2>2 DEF Reaches, Has, TypeOK, DiskOK, IsFiles
    <3>2. disk'[h][p] = Put(disk[h][p], i, r.data[i])
      BY <1>1, <1>2, <2>2, WriteType DEF Reaches
    <3>3. Len(made[p]) <= i
      <4>1. i <= Len(disk[h][p]) + 1
        BY <1>1, <1>2, <3>1
      <4>2. i <= Len(disk[h][p]) => Len(Put(disk[h][p], i, r.data[i])) = Len(disk[h][p])
        BY <1>3, <3>1 DEF Put
      <4>3. ~(i <= Len(disk[h][p])) =>
              Len(Put(disk[h][p], i, r.data[i])) = Len(disk[h][p]) + 1
        BY <1>3, <3>1 DEF Put
      <4> QED  BY <2>3, <2>5, <3>1, <3>2, <4>1, <4>2, <4>3
    <3>4. Len(disk[r.from][p]) >= Len(made[p])
      <4>1. Len(disk[r.from][p]) >= Len(r.data) /\ Len(disk[r.from][p]) \in Nat
        BY <1>2, <2>2 DEF Reaches, Has, TypeOK, DiskOK, IsFiles
      <4> QED  BY <1>2, <1>3, <2>3, <3>3, <4>1
    <3>5. Whole(r.from, p)
      BY <1>2, <2>1, <2>2, <2>3, <3>4, LongEnough DEF Reaches
    <3>6. S!Copy(h, p)
      BY <1>2, <1>4, <1>5, <3>5, WholeStep
    <3> QED  BY <1>5, <3>6 DEF S!Next
  <2> QED  BY <2>4, <2>5
<1>6. CASE ~(p \in Paths \ spoilt /\ Whole(h, p)')
  <2>1. S!Spoil
    BY <1>2, <1>4, <1>6, SpoilStep
  <2> QED  BY <2>1 DEF S!Next
<1> QED  BY <1>5, <1>6

LEMMA MakeStep ==
  ASSUME IInv, IInv', NEW h \in Hosts, NEW p \in Paths, NEW c \in Contents[p], Make(h, p, c)
  PROVE  S!Next
<1>1. /\ TypeOK /\ Grows /\ UNCHANGED astray
      /\ DOMAIN disk'[h] = DOMAIN disk[h] \cup {p} /\ disk'[h][p] = c
      /\ \A g \in Hosts : \A q : g # h \/ q # p =>
           /\ q \in DOMAIN disk'[g] <=> q \in DOMAIN disk[g]
           /\ q \in DOMAIN disk[g] => disk'[g][q] = disk[g][q]
      /\ p \in changed' \/ (/\ Free(p) /\ p \in DOMAIN made' /\ made'[p] = c
                            /\ changed' = changed)
      /\ \A q : q # p /\ q \in DOMAIN made' => q \in DOMAIN made /\ made'[q] = made[q]
  BY MakeGrows DEF IInv
<1>2. \A g \in Hosts, q \in Paths :
        q # p /\ Whole(g, q)' => Whole(g, q)
  BY <1>1 DEF Whole, Has
<1>3. CASE p \in changed' \cup astray'
  <2>1. \A g \in Hosts, q \in Paths \ spoilt' : Whole(g, q)' => Whole(g, q)
    BY <1>2, <1>3 DEF spoilt
  <2> QED  BY <1>1, <2>1, SpoilStep DEF S!Next
<1>4. CASE p \notin changed' \cup astray'
  <2>1. Free(p) /\ p \in DOMAIN made' /\ made'[p] = c /\ UNCHANGED spoilt /\ p \notin spoilt
    BY <1>1, <1>4 DEF spoilt
  <2>2. \A g \in Hosts : ~Whole(g, p)
    BY <2>1 DEF Free, Whole
  <2>3. Whole(h, p)'
    BY <1>1, <2>1 DEF Whole, Has
  <2>4. \A g \in Hosts : g # h => ~(Whole(g, p)')
    BY <1>1, <2>1 DEF Free, Whole, Has
  <2>5. \A g \in Hosts, q \in Paths \ spoilt :
          Whole(g, q)' => Whole(g, q) \/ (g = h /\ q = p)
    BY <1>2, <2>4
  <2>6. S!Make(h, p)
    BY <1>1, <2>1, <2>2, <2>3, <2>5, WholeStep
  <2> QED  BY <2>6 DEF S!Next
<1> QED  BY <1>3, <1>4

LEMMA NextImplements ==
  ASSUME IInv, [Next]_vars
  PROVE  [S!Next]_<<have, spoilt>>
<1>0. IInv' /\ Grows /\ TypeOK
  BY NextSafe DEF IInv
<1>1. ASSUME UNCHANGED <<disk, made>> PROVE S!Next
  <2>1. \A g \in Hosts, q \in Paths \ spoilt' : Whole(g, q)' => Whole(g, q)
    BY <1>1 DEF Whole, Has
  <2> QED  BY <1>0, <2>1, SpoilStep DEF S!Next
<1>2. CASE UNCHANGED vars
  BY <1>1, <1>2 DEF vars, auxVars
<1>3. ASSUME NEW h \in Hosts, CommandClient(h) PROVE S!Next
  BY <1>0, <1>1, <1>3, CommandClientQuiet
<1>4. ASSUME NEW h \in Hosts, FileClient(h) PROVE S!Next
  <2>1. FetchStep(h) \/ Open(h) \/ Write(h)
    BY <1>4 DEF FileClient, FetchStep
  <2>2. ASSUME FetchStep(h) PROVE S!Next
    BY <1>0, <1>1, <2>2, FetchQuiet
  <2>3. ASSUME Open(h) PROVE S!Next
    BY <1>0, <2>3, OpenStep DEF S!Next
  <2>4. ASSUME Write(h) PROVE S!Next
    BY <1>0, <2>4, WriteStep
  <2> QED  BY <2>1, <2>2, <2>3, <2>4
<1>5. ASSUME NEW h \in Hosts, NEW p \in DOMAIN disk[h], Delete(h, p) PROVE S!Next
  <2>1. /\ UNCHANGED made
        /\ \A g \in Hosts : \A q \in DOMAIN disk'[g] :
             q \in DOMAIN disk[g] /\ disk'[g][q] = disk[g][q]
    BY <1>0, <1>5, DeleteGrows
  <2>2. \A g \in Hosts, q \in Paths \ spoilt' : Whole(g, q)' => Whole(g, q)
    BY <2>1 DEF Whole, Has
  <2> QED  BY <1>0, <2>2, SpoilStep DEF S!Next
<1>6. ASSUME NEW h \in Hosts, NEW p \in Paths, NEW c \in Contents[p], Make(h, p, c)
      PROVE  S!Next
  BY <1>0, <1>6, MakeStep
<1>7. ASSUME NEW h \in Hosts,
             Crash(h) \/ ServeNobody(h) \/ Start(h) \/ \E g \in Hosts : Announce(h, g)
      PROVE  S!Next
  BY <1>1, <1>7 DEF Crash, ServeNobody, Start, Announce, auxVars
<1> QED  BY <1>2, <1>3, <1>4, <1>5, <1>6, <1>7 DEF Next

\* The exchange of files is the copying of whole files, which stay: crashes, torn and
\* short writes and second downloads only stutter; only users and what is known to
\* have gone astray (file_server.c:120 and 142, file_client.c:104) spoil a path.
THEOREM Refinement == Spec => ImplementsSync
<1>1. Init => S!Init
  BY DEF Init, AtRest, S!Init, have, spoilt, Whole, Has, NoFiles
<1> QED
  BY <1>1, InitSafe, NextSafe, NextImplements, PTL DEF Spec, ImplementsSync, S!Spec

(***************************************************************************)
(* JobsOnce.  What a walk still has to look at, what it has put into the   *)
(* queue and the peers that are still to be walked are apart.              *)
(***************************************************************************)

\* Path b is a or below it.
Within(a, b) == Len(a) <= Len(b) /\ \A k \in 1 .. Len(a) : a[k] = b[k]

\* Of a stack of calls and the jobs that came of it: the entries of a call are
\* different and right below its directory, a call is below none of the entries
\* that its callers have left, and a job neither; only the last call may be
\* waiting, and then no job is of its directory.
Apart(st, peer, js) ==
  /\ \A i \in DOMAIN st : \A e \in st[i].entries :
       /\ Len(e.path) = Len(st[i].dir) + 1 /\ Within(st[i].dir, e.path)
       /\ \A x \in st[i].entries : x.path = e.path => x = e
  /\ \A i, j \in DOMAIN st : i < j =>
       /\ Len(st[i].dir) < Len(st[j].dir) /\ Within(st[i].dir, st[j].dir)
       /\ \A e \in st[i].entries : ~Within(e.path, st[j].dir)
  /\ \A i \in DOMAIN st : st[i].state # "listed" => i = Len(st) /\ st[i].entries = {}
  /\ \A k \in DOMAIN js : js[k].from = peer =>
       \A i \in DOMAIN st :
         /\ \A e \in st[i].entries : ~Within(e.path, js[k].path)
         /\ st[i].state # "listed" => ~Within(st[i].dir, js[k].path)

\* Peers are walked once, and only then are there jobs of theirs.
PeersApart(h) ==
  /\ \A i \in DOMAIN seen[h] : seen[h][i] \in known[h]
  /\ \A i, j \in DOMAIN seen[h] : seen[h][i] = seen[h][j] => i = j
  /\ walk[h].stack # <<>> =>
       /\ walk[h].open /\ walk[h].peer \in known[h]
       /\ \A i \in DOMAIN seen[h] : seen[h][i] # walk[h].peer
  /\ \A k \in DOMAIN jobs[h] :
       /\ jobs[h][k].from \in known[h]
       /\ \A i \in DOMAIN seen[h] : seen[h][i] # jobs[h][k].from

NoTwoJobs(js) == \A i, j \in DOMAIN js : js[i] = js[j] => i = j

OnceAt(h) ==
  /\ PeersApart(h) /\ NoTwoJobs(jobs[h])
  /\ Apart(walk[h].stack, walk[h].peer, jobs[h])

OnceInv == TypeOK /\ (trouble \/ (up = Hosts /\ \A h \in Hosts : OnceAt(h)))

\* What the paths of the lemmas below need: entries of one call exclude each
\* other, and those of the callers exclude what is below this call.
LEMMA EntriesApart ==
  ASSUME NEW d \in Names, NEW a \in Names, NEW e \in Names,
         Len(e) = Len(d) + 1, Within(d, e), ~Within(a, d), Len(a) <= Len(d)
  PROVE  ~Within(a, e)
BY DEF Within, Names

LEMMA SiblingsApart ==
  ASSUME NEW a \in Names, NEW b \in Names, Len(a) = Len(b), a # b
  PROVE  ~Within(a, b)
<1> SUFFICES ASSUME Within(a, b) PROVE a = b
  OBVIOUS
<1>1. \A k \in 1 .. Len(a) : a[k] = b[k]
  BY DEF Within
<1> QED  BY <1>1, SeqEqual DEF Names

LEMMA WithinItself == ASSUME NEW a \in Names PROVE Within(a, a)
BY DEF Within, Names

\* A call that waits comes to wait for something else.
LEMMA WaitApart ==
  ASSUME NEW c \in Seq(Frame), NEW t \in Frame, NEW u \in Frame, NEW p,
         NEW js \in Seq(Job), Apart(Append(c, t), p, js),
         t.state # "listed", u.state # "listed", u.dir = t.dir, u.entries = t.entries
  PROVE  Apart(Append(c, u), p, js)
<1> DEFINE s == Append(c, t)
           r == Append(c, u)
<1>1. /\ DOMAIN r = DOMAIN s /\ Len(r) = Len(s)
      /\ \A i \in DOMAIN r : r[i].dir = s[i].dir /\ r[i].entries = s[i].entries
                             /\ (r[i].state = "listed" <=> s[i].state = "listed")
  OBVIOUS
<1> HIDE DEF s, r
<1>2. Apart(s, p, js)
  BY DEF s
<1>3. \A i \in DOMAIN r : \A e \in r[i].entries :
        /\ Len(e.path) = Len(r[i].dir) + 1 /\ Within(r[i].dir, e.path)
        /\ \A x \in r[i].entries : x.path = e.path => x = e
  BY <1>1, <1>2 DEF Apart
<1>4. \A i, j \in DOMAIN r : i < j =>
        /\ Len(r[i].dir) < Len(r[j].dir) /\ Within(r[i].dir, r[j].dir)
        /\ \A e \in r[i].entries : ~Within(e.path, r[j].dir)
  BY <1>1, <1>2 DEF Apart
<1>5. \A i \in DOMAIN r : r[i].state # "listed" => i = Len(r) /\ r[i].entries = {}
  BY <1>1, <1>2 DEF Apart
<1>6. \A k \in DOMAIN js : js[k].from = p =>
        \A i \in DOMAIN r :
          /\ \A e \in r[i].entries : ~Within(e.path, js[k].path)
          /\ r[i].state # "listed" => ~Within(r[i].dir, js[k].path)
  BY <1>1, <1>2 DEF Apart
<1> QED  BY <1>3, <1>4, <1>5, <1>6 DEF Apart, r

\* Entries that a reply adds to a call that was waiting.
LEMMA AnswerApart ==
  ASSUME NEW c \in Seq(Frame), NEW t \in Frame, NEW u \in Frame, NEW p,
         NEW js \in Seq(Job), Apart(Append(c, t), p, js),
         t.state # "listed", u.state = "listed", u.dir = t.dir,
         \A e \in u.entries :
           /\ Len(e.path) = Len(t.dir) + 1 /\ Within(t.dir, e.path)
           /\ \A x \in u.entries : x.path = e.path => x = e
  PROVE  Apart(Append(c, u), p, js)
<1> DEFINE s == Append(c, t)
           r == Append(c, u)
<1>1. /\ Len(c) \in Nat /\ DOMAIN s = 1 .. Len(c) + 1 /\ DOMAIN r = DOMAIN s
      /\ s[Len(c) + 1] = t /\ r[Len(c) + 1] = u
      /\ \A i \in 1 .. Len(c) : s[i] = c[i] /\ r[i] = c[i]
      /\ Len(s) = Len(c) + 1 /\ Len(r) = Len(c) + 1
  OBVIOUS
<1> HIDE DEF s, r
<1>2. \A i \in DOMAIN r : r[i].dir = s[i].dir /\ (i # Len(c) + 1 => r[i] = s[i])
  BY <1>1
<1>3. \A i \in DOMAIN r : \A e \in r[i].entries :
        /\ Len(e.path) = Len(r[i].dir) + 1 /\ Within(r[i].dir, e.path)
        /\ \A x \in r[i].entries : x.path = e.path => x = e
  <2> SUFFICES ASSUME NEW i \in DOMAIN r, NEW e \in r[i].entries
               PROVE  /\ Len(e.path) = Len(r[i].dir) + 1 /\ Within(r[i].dir, e.path)
                      /\ \A x \in r[i].entries : x.path = e.path => x = e
    OBVIOUS
  <2>1. CASE i = Len(c) + 1
    BY <1>1, <2>1
  <2>2. CASE i # Len(c) + 1
    <3>1. i \in DOMAIN s /\ r[i] = s[i]
      BY <1>1, <1>2, <2>2
    <3>2. /\ Len(e.path) = Len(s[i].dir) + 1 /\ Within(s[i].dir, e.path)
          /\ \A x \in s[i].entries : x.path = e.path => x = e
      BY <3>1 DEF Apart, s
    <3> QED  BY <3>1, <3>2
  <2> QED  BY <2>1, <2>2
<1>4. \A i, j \in DOMAIN r : i < j =>
        /\ Len(r[i].dir) < Len(r[j].dir) /\ Within(r[i].dir, r[j].dir)
        /\ \A e \in r[i].entries : ~Within(e.path, r[j].dir)
  <2> SUFFICES ASSUME NEW i \in DOMAIN r, NEW j \in DOMAIN r, i < j
               PROVE  /\ Len(r[i].dir) < Len(r[j].dir) /\ Within(r[i].dir, r[j].dir)
                      /\ \A e \in r[i].entries : ~Within(e.path, r[j].dir)
    OBVIOUS
  <2>1. i \in DOMAIN s /\ j \in DOMAIN s /\ i # Len(c) + 1
    BY <1>1
  <2>2. r[i] = s[i] /\ r[j].dir = s[j].dir
    BY <1>2, <2>1
  <2>3. /\ Len(s[i].dir) < Len(s[j].dir) /\ Within(s[i].dir, s[j].dir)
        /\ \A e \in s[i].entries : ~Within(e.path, s[j].dir)
    BY <2>1 DEF Apart, s
  <2> QED  BY <2>2, <2>3
<1>5. \A i \in DOMAIN r : r[i].state = "listed"
  BY <1>1 DEF Apart, s
<1>6. ASSUME NEW k \in DOMAIN js, js[k].from = p, NEW i \in DOMAIN r,
             NEW e \in r[i].entries
      PROVE  ~Within(e.path, js[k].path)
  <2>1. CASE i # Len(c) + 1
    BY <1>1, <1>2, <1>6, <2>1 DEF Apart, s
  <2>2. CASE i = Len(c) + 1
    <3>1. ~Within(t.dir, js[k].path)
      BY <1>1, <1>6 DEF Apart, s
    <3>2. /\ Len(e.path) = Len(t.dir) + 1 /\ Within(t.dir, e.path) /\ t.dir \in Names
          /\ e.path \in Names
      BY <1>1, <2>2 DEF Frame, Entry
    <3> QED  BY <3>1, <3>2 DEF Within, Names
  <2> QED  BY <2>1, <2>2
<1> QED  BY <1>3, <1>4, <1>5, <1>6 DEF Apart, r

\* An entry is done: the call has fewer.
LEMMA DoneApart ==
  ASSUME NEW c \in Seq(Frame), NEW t \in Frame, NEW u \in Frame, NEW p,
         NEW js \in Seq(Job), Apart(Append(c, t), p, js),
         t.state = "listed", u.state = "listed", u.dir = t.dir, u.entries \subseteq t.entries
  PROVE  Apart(Append(c, u), p, js)
<1> DEFINE s == Append(c, t)
           r == Append(c, u)
<1>1. /\ Len(c) \in Nat /\ DOMAIN s = 1 .. Len(c) + 1 /\ DOMAIN r = DOMAIN s
      /\ s[Len(c) + 1] = t /\ r[Len(c) + 1] = u
      /\ \A i \in 1 .. Len(c) : s[i] = c[i] /\ r[i] = c[i]
      /\ Len(s) = Len(c) + 1 /\ Len(r) = Len(c) + 1
  OBVIOUS
<1> HIDE DEF s, r
<1>2. \A i \in DOMAIN r : r[i].dir = s[i].dir /\ r[i].entries \subseteq s[i].entries
  <2> SUFFICES ASSUME NEW i \in DOMAIN r
               PROVE  r[i].dir = s[i].dir /\ r[i].entries \subseteq s[i].entries
    OBVIOUS
  <2>1. CASE i = Len(c) + 1
    BY <1>1, <2>1
  <2>2. CASE i # Len(c) + 1
    BY <1>1, <2>2
  <2> QED  BY <2>1, <2>2
<1>3. \A i \in DOMAIN r : \A e \in r[i].entries :
        /\ Len(e.path) = Len(r[i].dir) + 1 /\ Within(r[i].dir, e.path)
        /\ \A x \in r[i].entries : x.path = e.path => x = e
  <2> SUFFICES ASSUME NEW i \in DOMAIN r, NEW e \in r[i].entries
               PROVE  /\ Len(e.path) = Len(r[i].dir) + 1 /\ Within(r[i].dir, e.path)
                      /\ \A x \in r[i].entries : x.path = e.path => x = e
    OBVIOUS
  <2>1. i \in DOMAIN s /\ e \in s[i].entries
    BY <1>1, <1>2
  <2>2. /\ Len(e.path) = Len(s[i].dir) + 1 /\ Within(s[i].dir, e.path)
        /\ \A x \in s[i].entries : x.path = e.path => x = e
    BY <2>1 DEF Apart, s
  <2> QED  BY <1>2, <2>1, <2>2
<1>4. \A i, j \in DOMAIN r : i < j =>
        /\ Len(r[i].dir) < Len(r[j].dir) /\ Within(r[i].dir, r[j].dir)
        /\ \A e \in r[i].entries : ~Within(e.path, r[j].dir)
  <2> SUFFICES ASSUME NEW i \in DOMAIN r, NEW j \in DOMAIN r, i < j
               PROVE  /\ Len(r[i].dir) < Len(r[j].dir) /\ Within(r[i].dir, r[j].dir)
                      /\ \A e \in r[i].entries : ~Within(e.path, r[j].dir)
    OBVIOUS
  <2>1. /\ Len(s[i].dir) < Len(s[j].dir) /\ Within(s[i].dir, s[j].dir)
        /\ \A e \in s[i].entries : ~Within(e.path, s[j].dir)
    BY <1>1 DEF Apart, s
  <2> QED  BY <1>1, <1>2, <2>1
<1>5. \A i \in DOMAIN r : r[i].state = "listed"
  BY <1>1 DEF Apart, s
<1>6. \A k \in DOMAIN js : js[k].from = p =>
        \A i \in DOMAIN r : \A e \in r[i].entries : ~Within(e.path, js[k].path)
  BY <1>1, <1>2 DEF Apart, s
<1> QED  BY <1>3, <1>4, <1>5, <1>6 DEF Apart, r

\* A recursive call for an entry that is done.
LEMMA CallApart ==
  ASSUME NEW c \in Seq(Frame), NEW t \in Frame, NEW u \in Frame, NEW p,
         NEW js \in Seq(Job), Apart(Append(c, t), p, js), NEW e \in t.entries,
         t.state = "listed", u.state = "listed", u.dir = t.dir,
         u.entries = t.entries \ {e}
  PROVE  Apart(Append(Append(c, u), Asked(e.path)), p, js)
<1> DEFINE s == Append(c, t)
           w == Append(c, u)
           d == e.path
           r == Append(w, Asked(d))
           n == Len(c) + 1
<1>1. /\ d \in Names /\ Asked(d) \in Frame /\ Asked(d).dir = d /\ Asked(d).state # "listed"
      /\ Asked(d).entries = {}
  BY DEF Asked, Frame, Entry
<1>2. w \in Seq(Frame) /\ Len(w) = n /\ n \in Nat /\ n > 0
  OBVIOUS
<1>3. Apart(w, p, js)
  BY DoneApart
<1>4. /\ DOMAIN s = 1 .. n /\ DOMAIN w = 1 .. n
      /\ s[n] = t /\ w[n] = u
      /\ \A i \in 1 .. n : i # n => s[i] = c[i] /\ w[i] = s[i] /\ c[i] \in Frame
  OBVIOUS
<1> HIDE DEF s, w, n
<1>5. /\ DOMAIN r = 1 .. n + 1 /\ r[n + 1] = Asked(d) /\ Len(r) = n + 1
      /\ \A i \in 1 .. n : r[i] = w[i]
  BY <1>1, <1>2
<1> HIDE DEF r
<1>6. /\ Len(d) = Len(t.dir) + 1 /\ Within(t.dir, d) /\ t.dir \in Names
      /\ \A x \in t.entries : x.path = d => x = e
  <2>1. n \in DOMAIN s /\ e \in s[n].entries /\ Apart(s, p, js)
    BY <1>2, <1>4 DEF s
  <2>2. /\ Len(d) = Len(s[n].dir) + 1 /\ Within(s[n].dir, d)
        /\ \A x \in s[n].entries : x.path = d => x = e
    BY <2>1 DEF Apart
  <2>3. t.dir \in Names
    BY DEF Frame
  <2> QED  BY <1>4, <2>2, <2>3
<1>7. ASSUME NEW i \in 1 .. n, i # n
      PROVE  /\ Len(w[i].dir) < Len(t.dir) /\ Within(w[i].dir, t.dir)
             /\ \A x \in w[i].entries : ~Within(x.path, t.dir)
  <2>1. i < n /\ i \in DOMAIN w /\ n \in DOMAIN w /\ w[n].dir = t.dir
    BY <1>2, <1>4, <1>7
  <2> QED  BY <1>3, <2>1 DEF Apart
<1>8. \A i \in 1 .. n : Len(w[i].dir) <= Len(t.dir) /\ w[i].dir \in Names
                        /\ Within(w[i].dir, t.dir)
  <2>1. Within(t.dir, t.dir) /\ Len(t.dir) \in Nat
    BY <1>6, WithinItself DEF Names
  <2>2. \A i \in 1 .. n : i # n => Len(w[i].dir) < Len(t.dir) /\ Within(w[i].dir, t.dir)
    BY <1>7
  <2>3. \A i \in 1 .. n : w[i].dir \in Names
    <3>1. \A i \in 1 .. n : w[i] \in Frame
      BY <1>2, <1>4
    <3> QED  BY <3>1 DEF Frame
  <2>4. ASSUME NEW i \in 1 .. n
        PROVE  Len(w[i].dir) <= Len(t.dir) /\ w[i].dir \in Names /\ Within(w[i].dir, t.dir)
    <3>1. w[i].dir \in Names /\ Len(w[i].dir) \in Nat
      BY <2>3 DEF Names
    <3>2. CASE i = n
      BY <1>4, <2>1, <3>1, <3>2
    <3>3. CASE i # n
      BY <2>1, <2>2, <3>1, <3>3
    <3> QED  BY <3>2, <3>3
  <2> QED  BY <2>4
<1>9. ASSUME NEW i \in 1 .. n
      PROVE  /\ Len(w[i].dir) < Len(d) /\ Within(w[i].dir, d)
             /\ \A x \in w[i].entries : ~Within(x.path, d)
  <2>1. Len(w[i].dir) < Len(d) /\ Within(w[i].dir, d)
    <3> HIDE DEF d
    <3> QED  BY <1>1, <1>6, <1>8 DEF Within, Names
  <2>2. ASSUME NEW x \in w[i].entries PROVE ~Within(x.path, d)
    <3>1. w[i] \in Frame /\ x.path \in Names /\ Len(x.path) = Len(w[i].dir) + 1
      <4>1. w[i] \in Frame /\ i \in DOMAIN w
        BY <1>2, <1>4
      <4>2. Len(x.path) = Len(w[i].dir) + 1
        BY <1>3, <4>1 DEF Apart
      <4>3. x \in Entry
        BY <4>1 DEF Frame
      <4> QED  BY <4>1, <4>2, <4>3 DEF Entry
    <3>2. CASE i = n
      <4>1. x \in t.entries \ {e} /\ w[i].dir = t.dir
        BY <1>4, <3>2
      <4>2. x.path # d /\ Len(x.path) = Len(d)
        BY <1>6, <3>1, <4>1
      <4> QED  BY <1>1, <3>1, <4>2, SiblingsApart
    <3>3. CASE i # n
      <4>1. ~Within(x.path, t.dir) /\ Len(w[i].dir) < Len(t.dir)
        BY <1>7, <3>3
      <4>2. Len(x.path) <= Len(t.dir)
        BY <1>6, <1>8, <3>1, <4>1 DEF Names
      <4> QED  BY <1>1, <1>6, <3>1, <4>1, <4>2, EntriesApart
    <3> QED  BY <3>2, <3>3
  <2> QED  BY <2>1, <2>2
<1>10. \A i \in DOMAIN r : \A x \in r[i].entries :
        /\ Len(x.path) = Len(r[i].dir) + 1 /\ Within(r[i].dir, x.path)
        /\ \A y \in r[i].entries : y.path = x.path => y = x
  BY <1>1, <1>2, <1>3, <1>4, <1>5 DEF Apart
<1>11. \A i, j \in DOMAIN r : i < j =>
         /\ Len(r[i].dir) < Len(r[j].dir) /\ Within(r[i].dir, r[j].dir)
         /\ \A x \in r[i].entries : ~Within(x.path, r[j].dir)
  <2> SUFFICES ASSUME NEW i \in DOMAIN r, NEW j \in DOMAIN r, i < j
               PROVE  /\ Len(r[i].dir) < Len(r[j].dir) /\ Within(r[i].dir, r[j].dir)
                      /\ \A x \in r[i].entries : ~Within(x.path, r[j].dir)
    OBVIOUS
  <2>1. CASE j = n + 1
    BY <1>1, <1>2, <1>5, <1>9, <2>1
  <2>2. CASE j # n + 1
    <3>1. i \in DOMAIN w /\ j \in DOMAIN w /\ r[i] = w[i] /\ r[j] = w[j]
      BY <1>2, <1>4, <1>5, <2>2
    <3>2. /\ Len(w[i].dir) < Len(w[j].dir) /\ Within(w[i].dir, w[j].dir)
          /\ \A x \in w[i].entries : ~Within(x.path, w[j].dir)
      BY <1>3, <3>1 DEF Apart
    <3> QED  BY <3>1, <3>2
  <2> QED  BY <2>1, <2>2
<1>12. \A i \in DOMAIN r : r[i].state # "listed" => i = Len(r) /\ r[i].entries = {}
  <2>1. \A i \in 1 .. n : w[i].state = "listed"
    BY <1>2, <1>3, <1>4 DEF Apart
  <2> QED  BY <1>1, <1>2, <1>5, <2>1
<1>13. ASSUME NEW k \in DOMAIN js, js[k].from = p, NEW i \in DOMAIN r
       PROVE  /\ \A x \in r[i].entries : ~Within(x.path, js[k].path)
              /\ r[i].state # "listed" => ~Within(r[i].dir, js[k].path)
  <2>1. CASE i = n + 1
    <3>1. ~Within(d, js[k].path)
      BY <1>2, <1>4, <1>13 DEF Apart, s
    <3> QED  BY <1>1, <1>5, <2>1, <3>1
  <2>2. CASE i # n + 1
    BY SMTT(20), <1>2, <1>3, <1>4, <1>5, <1>13, <2>2 DEF Apart
  <2> QED  BY <2>1, <2>2
<1> QED  BY <1>10, <1>11, <1>12, <1>13 DEF Apart, r, w

\* A call returns.
LEMMA ReturnApart ==
  ASSUME NEW c \in Seq(Frame), NEW t \in Frame, NEW p,
         NEW js \in Seq(Job), Apart(Append(c, t), p, js)
  PROVE  Apart(c, p, js)
<1> DEFINE s == Append(c, t)
<1>1. /\ Len(c) \in Nat /\ DOMAIN c = 1 .. Len(c) /\ DOMAIN s = 1 .. Len(c) + 1
      /\ Len(s) = Len(c) + 1 /\ \A i \in 1 .. Len(c) : s[i] = c[i]
  OBVIOUS
<1> HIDE DEF s
<1>2. \A i \in DOMAIN c : i \in DOMAIN s /\ s[i] = c[i] /\ c[i].state = "listed"
  BY <1>1 DEF Apart, s
<1>3. \A i \in DOMAIN c : \A e \in c[i].entries :
        /\ Len(e.path) = Len(c[i].dir) + 1 /\ Within(c[i].dir, e.path)
        /\ \A x \in c[i].entries : x.path = e.path => x = e
  BY <1>2 DEF Apart, s
<1>4. \A i, j \in DOMAIN c : i < j =>
        /\ Len(c[i].dir) < Len(c[j].dir) /\ Within(c[i].dir, c[j].dir)
        /\ \A e \in c[i].entries : ~Within(e.path, c[j].dir)
  BY <1>2 DEF Apart, s
<1>5. \A k \in DOMAIN js : js[k].from = p =>
        \A i \in DOMAIN c : \A e \in c[i].entries : ~Within(e.path, js[k].path)
  BY <1>2 DEF Apart, s
<1> QED  BY <1>2, <1>3, <1>4, <1>5 DEF Apart

\* A job for an entry that is done.
LEMMA JobApart ==
  ASSUME NEW c \in Seq(Frame), NEW t \in Frame, NEW u \in Frame, NEW p \in Hosts,
         NEW js \in Seq(Job), Apart(Append(c, t), p, js), NEW e \in t.entries,
         t.state = "listed", u.state = "listed", u.dir = t.dir,
         u.entries = t.entries \ {e}, NoTwoJobs(js)
  PROVE  LET new == Append(js, [from |-> p, path |-> e.path])
         IN  Apart(Append(c, u), p, new) /\ NoTwoJobs(new)
<1> DEFINE d == e.path
           r == Append(c, u)
           w == Append(r, Asked(d))
           job == [from |-> p, path |-> d]
           new == Append(js, job)
           m == Len(js) + 1
<1>1. Apart(w, p, js) /\ Apart(r, p, js)
  BY CallApart, DoneApart
<1>2. /\ r \in Seq(Frame) /\ Len(r) \in Nat /\ DOMAIN r = 1 .. Len(r)
      /\ d \in Names \ {<<>>} /\ Asked(d).dir = d /\ Asked(d) \in Frame
  BY DEF Frame, Asked, Entry
<1>3. job.from = p /\ job.path = d /\ job \in Job
  BY <1>2 DEF Job
<1> HIDE DEF job
<1>4. /\ m \in Nat /\ DOMAIN new = 1 .. m /\ new[m] = job
      /\ \A k \in 1 .. m : k # m => k \in DOMAIN js /\ new[k] = js[k]
  BY <1>3
<1>5. \A i \in DOMAIN r : r[i].state = "listed"
  BY DEF Apart
<1> HIDE DEF r, new
<1>6. /\ DOMAIN w = 1 .. Len(r) + 1 /\ w[Len(r) + 1].dir = d
      /\ \A i \in 1 .. Len(r) : w[i] = r[i]
  BY <1>2
<1> HIDE DEF w
<1>7. \A i \in DOMAIN r : \A x \in r[i].entries : ~Within(x.path, d)
  <2> SUFFICES ASSUME NEW i \in DOMAIN r
               PROVE  \A x \in r[i].entries : ~Within(x.path, d)
    OBVIOUS
  <2>1. i \in DOMAIN w /\ Len(r) + 1 \in DOMAIN w /\ i < Len(r) + 1 /\ w[i] = r[i]
    BY <1>2, <1>6
  <2>2. \A x \in w[i].entries : ~Within(x.path, w[Len(r) + 1].dir)
    BY <1>1, <2>1 DEF Apart
  <2> QED  BY <1>6, <2>1, <2>2
<1>8. Apart(r, p, new)
  BY <1>1, <1>3, <1>4, <1>5, <1>7 DEF Apart
<1>9. \A k \in DOMAIN js : js[k] # job
  <2>1. \A k \in DOMAIN js : js[k].from = p => ~Within(d, js[k].path)
    <3> DEFINE s == Append(c, t)
    <3>1. Len(c) + 1 \in DOMAIN s /\ s[Len(c) + 1] = t
      OBVIOUS
    <3> QED  BY <3>1 DEF Apart
  <2>2. Within(d, d)
    BY <1>2, WithinItself
  <2> QED  BY <1>3, <2>1, <2>2
<1>10. NoTwoJobs(new)
  BY <1>4, <1>9 DEF NoTwoJobs
<1> QED  BY <1>8, <1>10 DEF r, new, job

LEMMA OnceSame ==
  ASSUME NEW g \in Hosts, OnceAt(g), known'[g] = known[g], seen'[g] = seen[g],
         jobs'[g] = jobs[g], walk'[g] = walk[g]
  PROVE  OnceAt(g)'
BY DEF OnceAt, PeersApart

\* A step of a walk that neither begins it nor queues a job.
LEMMA StackOnce ==
  ASSUME TypeOK, NEW h \in Hosts, OnceAt(h), walk[h].stack # <<>>,
         UNCHANGED <<known, seen, jobs>>, NEW s \in Seq(Frame),
         walk' = [walk EXCEPT ![h].stack = s], Apart(s, walk[h].peer, jobs[h])
  PROVE  OnceAt(h)'
<1>1. /\ walk'[h].stack = s /\ walk'[h].peer = walk[h].peer
      /\ walk'[h].open = walk[h].open
  <2>1. walk[h] \in Walk /\ DOMAIN walk = Hosts
    BY DEF TypeOK, WalkOK
  <2> QED  BY <2>1 DEF Walk
<1> QED  BY <1>1 DEF OnceAt, PeersApart

LEMMA LastOf ==
  ASSUME NEW T, NEW s \in Seq(T), NEW a \in T PROVE Append(s, a)[Len(s) + 1] = a
OBVIOUS

\* What a client reads in a reply as entries: they are different and right below the
\* directory, wherever the server has looked.
LEMMA ListingApart ==
  ASSUME NEW g, IsFiles(disk[g]), NEW d \in Names, NEW dir \in Names,
         NEW e \in Listing(g, d, dir)
  PROVE  /\ Len(e.path) = Len(dir) + 1 /\ Within(dir, e.path)
         /\ \A x \in Listing(g, d, dir) : x.path = e.path => x = e
<1>1. \A x \in Listing(g, d, dir) :
        \E n \in STRING : /\ x = [path |-> Append(dir, n), file |-> Has(g, Append(d, n))]
                          /\ x.path = Append(dir, n)
  <2> SUFFICES ASSUME NEW x \in Listing(g, d, dir)
               PROVE  \E n \in STRING :
                        /\ x = [path |-> Append(dir, n), file |-> Has(g, Append(d, n))]
                        /\ x.path = Append(dir, n)
    OBVIOUS
  <2>1. PICK q \in DOMAIN disk[g] :
          /\ Below(d, q)
          /\ x = [path |-> Append(dir, q[Len(d) + 1]), file |-> Has(g, Append(d, q[Len(d) + 1]))]
    BY DEF Listing
  <2>2. q \in Seq(STRING) /\ Len(d) + 1 \in 1 .. Len(q)
    BY <2>1 DEF IsFiles, Names, Below
  <2>3. q[Len(d) + 1] \in STRING
    BY <2>2
  <2> QED  BY <2>1, <2>3
<1>2. PICK n \in STRING : /\ e = [path |-> Append(dir, n), file |-> Has(g, Append(d, n))]
                          /\ e.path = Append(dir, n)
  BY <1>1
<1>3. Len(e.path) = Len(dir) + 1 /\ \A k \in 1 .. Len(dir) : dir[k] = e.path[k]
  BY <1>2 DEF Names
<1>4. ASSUME NEW x \in Listing(g, d, dir), x.path = e.path PROVE x = e
  <2>1. PICK m \in STRING : /\ x = [path |-> Append(dir, m), file |-> Has(g, Append(d, m))]
                            /\ x.path = Append(dir, m)
    BY <1>1
  <2>2. m = n
    <3>1. Append(dir, m) = Append(dir, n)
      BY <1>2, <1>4, <2>1
    <3>2. dir \in Seq(STRING)
      BY DEF Names
    <3>3. Append(dir, m)[Len(dir) + 1] = m /\ Append(dir, n)[Len(dir) + 1] = n
      BY <3>2, LastOf
    <3> QED  BY <3>1, <3>3
  <2> QED  BY <1>2, <2>1, <2>2
<1>5. Len(dir) \in Nat
  BY DEF Names
<1> QED  BY <1>3, <1>4, <1>5 DEF Within

LEMMA ConnectOnce ==
  ASSUME TypeOK, NEW h \in Hosts, OnceAt(h), Connect(h) \/ ConnectFails(h)
  PROVE  OnceAt(h)'
<1> DEFINE js == jobs[h]
           g == Head(seen[h])
<1>1. /\ seen[h] \in Seq(Hosts) /\ seen[h] # <<>>
      /\ seen'[h] = Tail(seen[h]) /\ UNCHANGED <<known, jobs>>
  BY DEF TypeOK, WalkOK, Connect, ConnectFails
<1>2. /\ 1 \in DOMAIN seen[h] /\ g = seen[h][1] /\ DOMAIN seen'[h] \subseteq Nat
      /\ \A i \in DOMAIN seen'[h] : seen'[h][i] = seen[h][i + 1] /\ i + 1 \in DOMAIN seen[h]
                                    /\ i + 1 # 1
  BY <1>1
<1> HIDE DEF g
<1>3. /\ \A i \in DOMAIN seen[h] : seen[h][i] \in known[h]
      /\ \A i, j \in DOMAIN seen[h] : seen[h][i] = seen[h][j] => i = j
  BY DEF OnceAt, PeersApart
<1>4. \A i \in DOMAIN seen'[h] : seen'[h][i] \in known[h] /\ seen'[h][i] # g
  <2> SUFFICES ASSUME NEW i \in DOMAIN seen'[h]
               PROVE  seen'[h][i] \in known[h] /\ seen'[h][i] # g
    OBVIOUS
  <2>1. seen'[h][i] = seen[h][i + 1] /\ i + 1 \in DOMAIN seen[h] /\ i + 1 # 1
    BY <1>2
  <2> QED  BY <1>2, <1>3, <2>1
<1>5. \A i, j \in DOMAIN seen'[h] : seen'[h][i] = seen'[h][j] => i = j
  <2> SUFFICES ASSUME NEW i \in DOMAIN seen'[h], NEW j \in DOMAIN seen'[h],
                      seen'[h][i] = seen'[h][j]
               PROVE  i = j
    OBVIOUS
  <2>1. /\ seen'[h][i] = seen[h][i + 1] /\ i + 1 \in DOMAIN seen[h]
        /\ seen'[h][j] = seen[h][j + 1] /\ j + 1 \in DOMAIN seen[h]
    BY <1>2
  <2>2. i + 1 = j + 1
    BY <1>3, <2>1
  <2>3. i \in Nat /\ j \in Nat
    BY <1>2
  <2> QED  BY <2>2, <2>3
<1>6. \A k \in DOMAIN js : /\ js[k].from \in known[h]
                           /\ \A i \in DOMAIN seen'[h] : seen'[h][i] # js[k].from
  BY <1>2 DEF OnceAt, PeersApart
<1>7. CASE Connect(h)
  <2> DEFINE s == <<Asked(<<>>)>>
  <2>1. walk'[h].peer = g /\ walk'[h].stack = s /\ walk'[h].open
    BY <1>7 DEF Connect, TypeOK, WalkOK, g
  <2>2. g \in known[h] /\ \A k \in DOMAIN js : js[k].from # g
    BY <1>2 DEF OnceAt, PeersApart
  <2>3. PeersApart(h)'
    BY <1>1, <1>4, <1>5, <1>6, <2>1, <2>2 DEF PeersApart
  <2>4. Apart(s, g, js)
    BY <2>2 DEF Apart, Asked
  <2> QED  BY <1>1, <2>1, <2>3, <2>4 DEF OnceAt
<1>8. CASE ConnectFails(h)
  <2>1. UNCHANGED walk
    BY <1>8 DEF ConnectFails
  <2>2. walk[h].stack # <<>> =>
          /\ walk[h].open /\ walk[h].peer \in known[h]
          /\ \A i \in DOMAIN seen'[h] : seen'[h][i] # walk[h].peer
    BY <1>2 DEF OnceAt, PeersApart
  <2>3. PeersApart(h)'
    BY <1>1, <1>4, <1>5, <1>6, <2>1, <2>2 DEF PeersApart
  <2> QED  BY <1>1, <2>1, <2>3 DEF OnceAt
<1> QED  BY <1>7, <1>8

\* The frames of a walk before and after a step in the terms of the lemmas above.
LEMMA WalkIs ==
  ASSUME TypeOK, NEW h \in Hosts, OnceAt(h), walk[h].stack # <<>>
  PROVE  /\ Calls(h) \in Seq(Frame) /\ Top(h) \in Frame /\ walk[h].open
         /\ Apart(Append(Calls(h), Top(h)), walk[h].peer, jobs[h]) /\ NoTwoJobs(jobs[h])
         /\ jobs[h] \in Seq(Job) /\ walk[h].peer \in Hosts /\ walk[h] \in Walk
BY StackType DEF OnceAt, PeersApart, TypeOK, WalkOK, DownloadOK

LEMMA SplitOnce ==
  ASSUME TypeOK, NEW h \in Hosts, OnceAt(h), SplitRequest(h)
  PROVE  OnceAt(h)'
<1>1. walk[h].stack # <<>> /\ Top(h).state = "asked" /\ UNCHANGED <<known, seen, jobs>>
  BY DEF SplitRequest, Waits
<1>2. PICK u \in Frame : /\ u.state = "parsing" /\ u.dir = Top(h).dir
                         /\ u.entries = Top(h).entries
                         /\ walk' = [walk EXCEPT ![h].stack = Append(Calls(h), u)]
  <2> DEFINE u == [Top(h) EXCEPT !.state = "parsing"]
  <2>1. /\ u \in Frame /\ u.state = "parsing" /\ u.dir = Top(h).dir
        /\ u.entries = Top(h).entries
    BY <1>1, WalkIs DEF Frame
  <2>2. walk' = [walk EXCEPT ![h].stack = Append(Calls(h), u)]
    BY DEF SplitRequest
  <2> QED  BY <2>1, <2>2
<1>3. PICK t \in Frame, c \in Seq(Frame) : t = Top(h) /\ c = Calls(h)
  BY <1>1, WalkIs
<1>4. Apart(Append(c, u), walk[h].peer, jobs[h])
  BY <1>1, <1>2, <1>3, WalkIs, WaitApart
<1>5. Append(c, u) \in Seq(Frame)
  OBVIOUS
<1> QED  BY <1>1, <1>2, <1>3, <1>4, <1>5, StackOnce

LEMMA AnswerOnce ==
  ASSUME TypeOK, NEW h \in Hosts, OnceAt(h), Answer(h)
  PROVE  OnceAt(h)'
<1>1. walk[h].stack # <<>> /\ Top(h).state = "parsing" /\ UNCHANGED <<known, seen, jobs>>
  BY DEF Answer, Waits
<1>2. PICK es \in SUBSET Entry : \E d \in Names :
        /\ Listed(h, es) /\ es = Listing(walk[h].peer, d, Top(h).dir)
        /\ confused \/ confused' \/ d = Top(h).dir
  BY AnswerType
<1>3. PICK d \in Names : es = Listing(walk[h].peer, d, Top(h).dir)
  BY <1>2
<1>4. PICK u \in Frame :
        /\ u.entries = es /\ u.dir = Top(h).dir /\ u.state = "listed"
        /\ walk' = [walk EXCEPT ![h].stack = Append(Calls(h), u)]
  BY <1>1, <1>2, ListedStack
<1>5. PICK t \in Frame, c \in Seq(Frame), g \in Hosts :
        t = Top(h) /\ c = Calls(h) /\ g = walk[h].peer
  BY <1>1, WalkIs
<1>6. \A e \in u.entries : /\ Len(e.path) = Len(t.dir) + 1 /\ Within(t.dir, e.path)
                           /\ \A x \in u.entries : x.path = e.path => x = e
  <2>1. IsFiles(disk[g]) /\ t.dir \in Names
    BY DEF TypeOK, DiskOK, Frame
  <2> QED  BY <1>3, <1>4, <1>5, <2>1, ListingApart
<1>7. Apart(Append(c, u), g, jobs[h])
  BY <1>1, <1>4, <1>5, <1>6, WalkIs, AnswerApart
<1>8. Append(c, u) \in Seq(Frame)
  OBVIOUS
<1> QED  BY <1>1, <1>4, <1>5, <1>7, <1>8, StackOnce

LEMMA ReturnOnce ==
  ASSUME TypeOK, NEW h \in Hosts, OnceAt(h), Return(h)
  PROVE  OnceAt(h)'
<1>1. walk[h].stack # <<>> /\ UNCHANGED <<known, seen, jobs>>
  BY DEF Return, Waits
<1>2. Apart(Calls(h), walk[h].peer, jobs[h]) /\ Calls(h) \in Seq(Frame)
  BY <1>1, WalkIs, ReturnApart
<1>3. CASE Calls(h) = <<>>
  <2>1. walk'[h] = NoWalk(h)
    BY <1>3 DEF Return, TypeOK, WalkOK
  <2>2. walk'[h].stack = <<>>
    BY <2>1 DEF NoWalk
  <2>3. Apart(<<>>, walk'[h].peer, jobs[h])
    BY DEF Apart
  <2> QED  BY <1>1, <2>2, <2>3 DEF OnceAt, PeersApart
<1>4. CASE Calls(h) # <<>>
  <2>1. walk' = [walk EXCEPT ![h].stack = Calls(h)]
    BY <1>4 DEF Return
  <2> QED  BY <1>1, <1>2, <2>1, StackOnce
<1> QED  BY <1>3, <1>4

LEMMA DescendOnce ==
  ASSUME TypeOK, NEW h \in Hosts, OnceAt(h), NEW e, Descend(h, e)
  PROVE  OnceAt(h)'
<1>1. /\ walk[h].stack # <<>> /\ Top(h).state = "listed" /\ UNCHANGED <<known, seen, jobs>>
      /\ e \in Top(h).entries
  BY DEF Descend, Waits
<1>2. PICK s \in Seq(Frame) :
        /\ walk' = [walk EXCEPT ![h].stack = s]
        /\ s = Done(h, e) \/ s = Append(Done(h, e), Asked(e.path))
  BY DescendType
<1>3. PICK t \in Frame, c \in Seq(Frame), g \in Hosts :
        t = Top(h) /\ c = Calls(h) /\ g = walk[h].peer
  BY <1>1, WalkIs
<1>4. PICK u \in Frame : /\ Done(h, e) = Append(c, u) /\ u.entries = t.entries \ {e}
                         /\ u.dir = t.dir /\ u.state = t.state
  <2> DEFINE f == [Top(h) EXCEPT !.entries = @ \ {e}]
  <2>1. /\ f \in Frame /\ Done(h, e) = Append(Calls(h), f)
        /\ f.entries = Top(h).entries \ {e} /\ f.dir = Top(h).dir /\ f.state = Top(h).state
    BY <1>1, DoneType
  <2> QED  BY <1>3, <2>1
<1>5. Apart(Append(c, u), g, jobs[h]) /\ Apart(Append(Append(c, u), Asked(e.path)), g, jobs[h])
  BY <1>1, <1>3, <1>4, WalkIs, DoneApart, CallApart
<1> QED  BY <1>1, <1>2, <1>3, <1>4, <1>5, StackOnce

LEMMA CheckFileOnce ==
  ASSUME TypeOK, NEW h \in Hosts, OnceAt(h), NEW e, CheckFile(h, e)
  PROVE  OnceAt(h)'
<1>1. /\ walk[h].stack # <<>> /\ Top(h).state = "listed" /\ UNCHANGED <<known, seen>>
      /\ e \in Top(h).entries
  BY DEF CheckFile, Waits
<1>2. PICK t \in Frame, c \in Seq(Frame), g \in Hosts, js \in Seq(Job) :
        t = Top(h) /\ c = Calls(h) /\ g = walk[h].peer /\ js = jobs[h]
  BY <1>1, WalkIs
<1>3. PICK u \in Frame : /\ Done(h, e) = Append(c, u) /\ u.entries = t.entries \ {e}
                         /\ u.dir = t.dir /\ u.state = t.state
  <2> DEFINE f == [Top(h) EXCEPT !.entries = @ \ {e}]
  <2>1. /\ f \in Frame /\ Done(h, e) = Append(Calls(h), f)
        /\ f.entries = Top(h).entries \ {e} /\ f.dir = Top(h).dir /\ f.state = Top(h).state
    BY <1>1, DoneType
  <2> QED  BY <1>2, <2>1
<1>4. walk'[h].stack = Append(c, u) /\ walk'[h].peer = g /\ walk'[h].open
  BY <1>1, <1>2, <1>3, WalkIs DEF CheckFile, TypeOK, WalkOK, Walk
<1> DEFINE job == [from |-> g, path |-> e.path]
<1>5. job.from = g
  OBVIOUS
<1>6. jobs'[h] = js \/ jobs'[h] = Append(js, job)
  BY <1>2 DEF CheckFile, TypeOK, DownloadOK
<1>7. Apart(Append(c, u), g, js) /\ NoTwoJobs(js)
  BY <1>1, <1>2, <1>3, WalkIs, DoneApart
<1>8. Apart(Append(c, u), g, Append(js, job)) /\ NoTwoJobs(Append(js, job))
  BY <1>1, <1>2, <1>3, WalkIs, JobApart
<1> HIDE DEF job
<1>9. PeersApart(h)'
  <2>1. \A k \in DOMAIN jobs'[h] : jobs'[h][k] = job \/ \E i \in DOMAIN js : jobs'[h][k] = js[i]
    <3>1. CASE jobs'[h] = js
      BY <3>1
    <3>2. CASE jobs'[h] = Append(js, job)
      <4>1. \A k \in DOMAIN Append(js, job) :
              Append(js, job)[k] = job \/ (k \in DOMAIN js /\ Append(js, job)[k] = js[k])
        OBVIOUS
      <4> QED  BY <3>2, <4>1
    <3> QED  BY <1>6, <3>1, <3>2
  <2>2. g \in known[h] /\ \A i \in DOMAIN seen[h] : seen[h][i] # g
    BY <1>1, <1>2 DEF OnceAt, PeersApart
  <2>3. \A k \in DOMAIN jobs'[h] :
          /\ jobs'[h][k].from \in known[h]
          /\ \A i \in DOMAIN seen[h] : seen[h][i] # jobs'[h][k].from
    BY <1>2, <1>5, <2>1, <2>2 DEF OnceAt, PeersApart
  <2> QED  BY <1>1, <1>4, <2>2, <2>3 DEF OnceAt, PeersApart
<1> QED  BY <1>4, <1>6, <1>7, <1>8, <1>9 DEF OnceAt

LEMMA CommandClientOnce ==
  ASSUME TypeOK, NEW h \in Hosts, OnceAt(h), CommandClient(h)
  PROVE  OnceAt(h)'
<1>1. ~NoAnswer(h)
  BY WalkIs DEF NoAnswer, Waits
<1> QED
  BY <1>1, ConnectOnce, SplitOnce, AnswerOnce, ReturnOnce, DescendOnce, CheckFileOnce
     DEF CommandClient

\* Fewer jobs are as far apart from the calls.
LEMMA FewerApart ==
  ASSUME NEW st, NEW p, NEW js, NEW rest, Apart(st, p, js),
         \A k \in DOMAIN rest : \E i \in DOMAIN js : rest[k] = js[i]
  PROVE  Apart(st, p, rest)
BY DEF Apart

\* The file client takes jobs from the queue.
LEMMA FetchOnce ==
  ASSUME TypeOK, NEW h \in Hosts, OnceAt(h), UNCHANGED <<known, seen, walk>>,
         jobs[h] # <<>>, jobs' = [jobs EXCEPT ![h] = Tail(@)]
  PROVE  OnceAt(h)'
<1> DEFINE js == jobs[h]
           rest == Tail(js)
<1>1. jobs'[h] = rest /\ js \in Seq(Job)
  BY DEF TypeOK, DownloadOK
<1>2. /\ DOMAIN rest \subseteq Nat
      /\ \A k \in DOMAIN rest : rest[k] = js[k + 1] /\ k + 1 \in DOMAIN js
  BY <1>1
<1> HIDE DEF rest
<1>3. NoTwoJobs(rest)
  <2>1. \A i, j \in DOMAIN js : js[i] = js[j] => i = j
    BY DEF OnceAt, NoTwoJobs
  <2> HIDE DEF js
  <2> QED  BY <1>2, <2>1 DEF NoTwoJobs
<1>4. Apart(walk[h].stack, walk[h].peer, rest)
  <2>1. Apart(walk[h].stack, walk[h].peer, js)
    BY DEF OnceAt
  <2>2. \A k \in DOMAIN rest : \E i \in DOMAIN js : rest[k] = js[i]
    BY <1>2
  <2> HIDE DEF js
  <2> QED  BY <2>1, <2>2, FewerApart
<1>5. \A k \in DOMAIN rest : /\ rest[k].from \in known[h]
                             /\ \A i \in DOMAIN seen[h] : seen[h][i] # rest[k].from
  BY <1>2 DEF OnceAt, PeersApart
<1>6. PeersApart(h)'
  BY <1>1, <1>5 DEF OnceAt, PeersApart
<1> QED  BY <1>1, <1>3, <1>4, <1>6 DEF OnceAt

\* A peer that was not announced before is new to the queues and the walk.
LEMMA AnnounceOnce ==
  ASSUME TypeOK, NEW h \in Hosts, OnceAt(h), NEW g \in Hosts, Announce(h, g)
  PROVE  OnceAt(h)'
<1> DEFINE sn == seen[h]
           new == Append(sn, g)
<1>1. /\ seen'[h] = new /\ known'[h] = known[h] \cup {g} /\ g \notin known[h]
      /\ UNCHANGED <<walk, jobs>> /\ sn \in Seq(Hosts)
  BY DEF Announce, TypeOK, WalkOK
<1>2. /\ Len(sn) \in Nat /\ DOMAIN sn = 1 .. Len(sn)
      /\ DOMAIN new = 1 .. Len(sn) + 1 /\ new[Len(sn) + 1] = g
      /\ \A i \in 1 .. Len(sn) : new[i] = sn[i]
  BY <1>1
<1> HIDE DEF new
<1>3. \A i \in DOMAIN new : new[i] \in known[h] \cup {g}
  BY <1>2 DEF OnceAt, PeersApart
<1>4. /\ \A i \in DOMAIN sn : sn[i] # g
      /\ \A i, j \in DOMAIN sn : sn[i] = sn[j] => i = j
  BY <1>1 DEF OnceAt, PeersApart
<1>5. \A i, j \in DOMAIN new : new[i] = new[j] => i = j
  BY <1>2, <1>4
<1>6. walk[h].stack # <<>> =>
        /\ walk[h].open /\ walk[h].peer \in known[h]
        /\ \A i \in DOMAIN new : new[i] # walk[h].peer
  BY <1>1, <1>2 DEF OnceAt, PeersApart
<1>7. \A k \in DOMAIN jobs[h] : /\ jobs[h][k].from \in known[h]
                                /\ \A i \in DOMAIN new : new[i] # jobs[h][k].from
  <2>1. \A k \in DOMAIN jobs[h] : /\ jobs[h][k].from \in known[h]
                                  /\ \A i \in DOMAIN sn : sn[i] # jobs[h][k].from
    BY DEF OnceAt, PeersApart
  <2> QED  BY <1>1, <1>2, <2>1
<1>8. PeersApart(h)'
  BY <1>1, <1>3, <1>5, <1>6, <1>7 DEF PeersApart
<1> QED  BY <1>1, <1>8 DEF OnceAt

LEMMA InitOnce == Init => OnceInv
<1> SUFFICES ASSUME Init PROVE OnceInv
  OBVIOUS
<1>1. ASSUME NEW h \in Hosts PROVE OnceAt(h)
  <2>1. seen[h] = <<>> /\ jobs[h] = <<>> /\ walk[h].stack = <<>>
    BY DEF Init, AtRest, NoWalk
  <2> QED  BY <2>1 DEF OnceAt, PeersApart, Apart, NoTwoJobs
<1> QED  BY <1>1, InitTyped DEF OnceInv, Init, AtRest

\* A step of host h leaves the queues and the walks of the others alone, and
\* the walk of h also when it is one of neither client.
LEMMA NextOnce == OnceInv /\ [Next]_vars => OnceInv'
<1> SUFFICES ASSUME OnceInv, [Next]_vars PROVE OnceInv'
  OBVIOUS
<1>0. TypeOK /\ TypeOK'
  BY NextTyped DEF OnceInv
<1> SUFFICES ASSUME ~trouble' PROVE up' = Hosts /\ \A h \in Hosts : OnceAt(h)'
  BY <1>0 DEF OnceInv
<1>1. ASSUME NEW h \in Hosts, CommandClient(h)
      PROVE  up' = Hosts /\ \A g \in Hosts : OnceAt(g)'
  <2>1. /\ UNCHANGED up /\ (trouble => trouble')
        /\ \A g \in Hosts \ {h} : /\ known'[g] = known[g] /\ seen'[g] = seen[g]
                                  /\ walk'[g] = walk[g] /\ jobs'[g] = jobs[g]
    BY <1>0, <1>1, CommandClientQuiet
  <2>2. up = Hosts /\ \A g \in Hosts : OnceAt(g)
    BY <2>1 DEF OnceInv
  <2>3. \A g \in Hosts \ {h} : OnceAt(g)'
    BY <2>1, <2>2, OnceSame
  <2> QED  BY <1>0, <1>1, <2>1, <2>2, <2>3, CommandClientOnce
<1>2. ASSUME NEW h \in Hosts, FileClient(h)
      PROVE  up' = Hosts /\ \A g \in Hosts : OnceAt(g)'
  <2>1. /\ UNCHANGED <<up, known, seen, walk>>
        /\ \A g \in Hosts \ {h} : jobs'[g] = jobs[g]
        /\ \/ UNCHANGED jobs
           \/ jobs[h] # <<>> /\ jobs' = [jobs EXCEPT ![h] = Tail(@)]
    BY <1>0, <1>2, FileClientQuiet DEF clientVars
  <2>2. trouble => trouble'
    <3>1. FetchStep(h) \/ Open(h) \/ Write(h)
      BY <1>2 DEF FileClient, FetchStep
    <3> QED  BY <1>0, <3>1, FetchQuiet DEF Open, Write, auxVars
  <2>3. up = Hosts /\ \A g \in Hosts : OnceAt(g)
    BY <2>2 DEF OnceInv
  <2>4. \A g \in Hosts \ {h} : OnceAt(g)'
    BY <2>1, <2>3, OnceSame
  <2>5. OnceAt(h)'
    BY <1>0, <2>1, <2>3, OnceSame, FetchOnce
  <2> QED  BY <2>1, <2>3, <2>4, <2>5
<1>3. ASSUME NEW h \in Hosts, NEW g \in Hosts, Announce(h, g)
      PROVE  up' = Hosts /\ \A x \in Hosts : OnceAt(x)'
  <2>1. UNCHANGED <<up, trouble>> /\ \A x \in Hosts \ {h} :
          known'[x] = known[x] /\ seen'[x] = seen[x] /\ jobs'[x] = jobs[x]
          /\ walk'[x] = walk[x]
    BY <1>0, <1>3 DEF Announce, TypeOK, WalkOK, DownloadOK, auxVars
  <2>2. up = Hosts /\ \A x \in Hosts : OnceAt(x)
    BY <2>1 DEF OnceInv
  <2>3. \A x \in Hosts \ {h} : OnceAt(x)'
    BY <2>1, <2>2, OnceSame
  <2> QED  BY <1>0, <1>3, <2>1, <2>2, <2>3, AnnounceOnce
<1>4. ASSUME UNCHANGED <<up, known, seen, walk, jobs, trouble>>
      PROVE  up' = Hosts /\ \A g \in Hosts : OnceAt(g)'
  BY <1>4, OnceSame DEF OnceInv
<1>5. CASE UNCHANGED vars
  BY <1>4, <1>5 DEF vars, clientVars, auxVars
<1>6. ASSUME NEW h \in Hosts,
             \/ \E p \in DOMAIN disk[h] : Delete(h, p)
             \/ \E p \in Paths : \E c \in Contents[p] : Make(h, p, c)
             \/ ServeNobody(h)
      PROVE  up' = Hosts /\ \A g \in Hosts : OnceAt(g)'
  BY <1>4, <1>6 DEF clientVars, auxVars, Delete, Make, ServeNobody
<1>7. ASSUME NEW h \in Hosts, Crash(h) \/ Start(h) PROVE FALSE
  BY <1>7 DEF Crash, Start, OnceInv, auxVars
<1> QED  BY <1>1, <1>2, <1>3, <1>5, <1>6, <1>7 DEF Next

\* As long as nobody goes down or is out of reach, a walk queues no file twice: also
\* where a confused server or client makes it read other entries, each is right below
\* the directory asked for, and no directory is asked for twice
\* (command_client.c:122-160).
THEOREM JobsOnceCorrect == Spec => []JobsOnce
<1>1. OnceInv => JobsOnce
  BY DEF OnceInv, OnceAt, NoTwoJobs, JobsOnce
<1> QED  BY <1>1, InitOnce, NextOnce, PTL DEF Spec

(***************************************************************************)
(* Downloaded, between two hosts.  What breaks it (run FileSyncTorn) is a  *)
(* host that passes on a file that it is still writing.  With two hosts    *)
(* the only other one has the file already and never asks for it.          *)
(***************************************************************************)

\* There are no three hosts.
TwoHosts == \A g, h, k \in Hosts : g = h \/ g = k \/ h = k

\* Host h has asked for the file at p, or will.
Requests(h, p) ==
  \/ \E i \in DOMAIN jobs[h] : jobs[h][i].path = p
  \/ dl[h].phase # "idle" /\ dl[h].path = p

\* No host asks itself, and the ones that are asked are not gone.
AsksOthers(h) ==
  /\ \A i \in DOMAIN seen[h] : seen[h][i] # h
  /\ walk[h].stack # <<>> => walk[h].peer # h
  /\ \A i \in DOMAIN jobs[h] : jobs[h][i].from # h
  /\ dl[h].phase # "idle" => dl[h].from # h /\ dl[h].phase # "broken"

\* What the download of h has got is as long as what the user made.
Got(h) == dl[h].phase \in {"reading", "received", "write"} /\ dl[h].path \notin changed =>
  /\ dl[h].path \in DOMAIN made
  /\ Len(made[dl[h].path]) = IF dl[h].phase = "reading" THEN dl[h].size ELSE Len(dl[h].data)

Calm ==
  /\ astray \subseteq changed /\ \A h \in Hosts : AsksOthers(h) /\ Got(h)
  /\ \A g, h \in Hosts : \A p : p \notin changed /\ Requests(g, p) /\ Requests(h, p) => g = h

AllThere == \A h \in Hosts : \A p \in DOMAIN disk[h] \ changed : Whole(h, p) \/ Writing(h, p)

CalmInv == IInv /\ (confused \/ trouble \/ (Calm /\ AllThere))

LEMMA InitCalm == Init => CalmInv
<1> SUFFICES ASSUME Init PROVE CalmInv
  OBVIOUS
<1>1. ASSUME NEW h \in Hosts PROVE AsksOthers(h) /\ Got(h) /\ \A p : ~Requests(h, p)
  <2>1. /\ seen[h] = <<>> /\ walk[h].stack = <<>> /\ jobs[h] = <<>>
        /\ dl[h].phase = "idle"
    BY DEF Init, AtRest, NoWalk, NoDownload
  <2> QED  BY <2>1 DEF AsksOthers, Got, Requests
<1>2. AllThere
  BY DEF Init, NoFiles, AllThere
<1> QED  BY <1>1, <1>2, InitSafe DEF CalmInv, Calm, Init, AtRest

\* A step of one host that asks for no path another host has asked for.
LEMMA CalmStep ==
  ASSUME Calm, Grows, NEW h \in Hosts, astray' \subseteq changed', AsksOthers(h)', Got(h)',
         \A g \in Hosts \ {h} : /\ seen'[g] = seen[g] /\ walk'[g] = walk[g]
                                /\ jobs'[g] = jobs[g] /\ dl'[g] = dl[g],
         \A p : p \notin changed /\ Requests(h, p)' =>
           Requests(h, p) \/ \A g \in Hosts \ {h} : ~Requests(g, p)
  PROVE  Calm'
<1>1. \A g \in Hosts \ {h} : AsksOthers(g)' /\ \A p : Requests(g, p)' = Requests(g, p)
  BY DEF Calm, AsksOthers, Requests
<1>2. ASSUME NEW g \in Hosts \ {h} PROVE Got(g)'
  <2>1. PICK r : r = dl[g]
    OBVIOUS
  <2>2. Got(g) /\ dl'[g] = r
    BY <2>1 DEF Calm
  <2>3. r.path \notin changed' => r.path \notin changed
    BY DEF Grows
  <2>4. r.path \in DOMAIN made => r.path \in DOMAIN made' /\ made'[r.path] = made[r.path]
    BY DEF Grows
  <2> QED  BY <2>1, <2>2, <2>3, <2>4 DEF Got
<1>3. \A g \in Hosts \ {h} : \A p : p \notin changed' => ~(Requests(g, p)' /\ Requests(h, p)')
  BY <1>1 DEF Calm, Grows
<1>4. \A g, k \in Hosts : \A p : p \notin changed' /\ Requests(g, p)' /\ Requests(k, p)' => g = k
  BY <1>1, <1>3 DEF Calm, Grows
<1> QED  BY <1>1, <1>2, <1>4 DEF Calm

\* The files stay, and who writes goes on.
LEMMA ThereStays ==
  ASSUME AllThere, UNCHANGED <<disk, made, changed>>,
         \A g \in Hosts : dl[g].phase = "write" => dl'[g] = dl[g]
  PROVE  AllThere'
BY DEF AllThere, Whole, Has, Writing

\* With two hosts, what one has asked for is there on the other one.
LEMMA AskedIsThere ==
  ASSUME TwoHosts, IInv, Calm, ~confused, NEW g \in Hosts, NEW h \in Hosts, g # h,
         NEW p, p \notin changed, Requests(g, p)
  PROVE  Has(h, p)
<1>1. CASE \E i \in DOMAIN jobs[g] : jobs[g][i].path = p
  <2>1. PICK i \in DOMAIN jobs[g] : jobs[g][i].path = p
    BY <1>1
  <2>2. jobs[g] \in Seq(Job)
    BY DEF IInv, TypeOK, DownloadOK
  <2>3. jobs[g][i] \in Job /\ jobs[g][i].from # g
    BY <2>1, <2>2 DEF Calm, AsksOthers
  <2>4. jobs[g][i].from = h
    BY <2>3 DEF TwoHosts, Job
  <2> QED  BY <2>1, <2>4 DEF IInv, Queued, There
<1>2. CASE dl[g].phase # "idle" /\ dl[g].path = p
  <2>1. dl[g] \in Download
    BY DEF IInv, TypeOK, DownloadOK
  <2>2. dl[g].from \in Hosts \ {g} /\ dl[g].phase \in Phases \ {"idle", "broken"}
    BY <1>2, <2>1 DEF Download, Calm, AsksOthers
  <2>3. dl[g].from = h
    BY <2>2 DEF TwoHosts
  <2>4. p \notin astray /\ Fetched(g)
    BY DEF Calm, IInv
  <2> QED  BY <1>2, <2>2, <2>3, <2>4 DEF Fetched, There, Reaches, Phases
<1> QED  BY <1>1, <1>2 DEF Requests

LEMMA OthersSeen ==
  ASSUME NEW h, NEW s \in Seq(Hosts), \A i \in DOMAIN s : s[i] # h
  PROVE  /\ s # <<>> => Head(s) # h /\ \A i \in DOMAIN Tail(s) : Tail(s)[i] # h
         /\ \A g \in Hosts \ {h} : \A i \in DOMAIN Append(s, g) : Append(s, g)[i] # h
<1>1. ASSUME s # <<>> PROVE Head(s) # h /\ \A i \in DOMAIN Tail(s) : Tail(s)[i] # h
  BY <1>1
<1>2. ASSUME NEW g \in Hosts \ {h}, NEW i \in DOMAIN Append(s, g)
      PROVE  Append(s, g)[i] # h
  BY <1>2
<1> QED  BY <1>1, <1>2

\* The stack of a walk changes, not the peer that it asks.
LEMMA SamePeer ==
  ASSUME TypeOK, NEW h \in Hosts, NEW st, walk' = [walk EXCEPT ![h].stack = st]
  PROVE  walk'[h].peer = walk[h].peer
BY DEF TypeOK, WalkOK, Walk

LEMMA CommandClientCalm ==
  ASSUME TwoHosts, IInv, Calm, AllThere, Grows, ~confused, NEW h \in Hosts, CommandClient(h)
  PROVE  Calm' /\ AllThere'
<1>0. /\ TypeOK /\ AsksOthers(h) /\ Got(h) /\ astray \subseteq changed
      /\ jobs \in [Hosts -> Seq(Job)] /\ seen \in [Hosts -> Seq(Hosts)]
      /\ walk \in [Hosts -> Walk]
  BY DEF IInv, TypeOK, WalkOK, DownloadOK, Calm
<1>1. /\ UNCHANGED <<disk, made, changed, astray, dl>>
      /\ \A g \in Hosts \ {h} : /\ seen'[g] = seen[g] /\ walk'[g] = walk[g]
                                /\ jobs'[g] = jobs[g] /\ dl'[g] = dl[g]
  BY <1>0, CommandClientQuiet
<1>2. AllThere' /\ Got(h)'
  BY <1>0, <1>1, ThereStays DEF Got
<1>3. ASSUME jobs'[h] = jobs[h], AsksOthers(h)' PROVE Calm'
  BY <1>0, <1>1, <1>2, <1>3, CalmStep DEF Requests
<1>4. CASE Connect(h)
  <2>1. Head(seen[h]) # h /\ \A i \in DOMAIN Tail(seen[h]) : Tail(seen[h])[i] # h
    BY <1>0, <1>4, OthersSeen DEF Connect, AsksOthers
  <2>2. seen'[h] = Tail(seen[h]) /\ walk'[h].peer = Head(seen[h]) /\ jobs' = jobs
    BY <1>0, <1>4 DEF Connect
  <2> QED  BY <1>0, <1>1, <1>2, <1>3, <2>1, <2>2 DEF AsksOthers
<1>5. CASE ConnectFails(h)
  <2>1. \A i \in DOMAIN Tail(seen[h]) : Tail(seen[h])[i] # h
    BY <1>0, <1>5, OthersSeen DEF ConnectFails, AsksOthers
  <2>2. seen'[h] = Tail(seen[h]) /\ walk' = walk /\ jobs' = jobs
    BY <1>0, <1>5 DEF ConnectFails
  <2> QED  BY <1>0, <1>1, <1>2, <1>3, <2>1, <2>2 DEF AsksOthers
<1>6. ASSUME UNCHANGED <<seen, jobs>>, walk[h].stack # <<>>,
             walk'[h].stack = <<>> \/ walk'[h].peer = walk[h].peer
      PROVE  Calm'
  <2>1. AsksOthers(h)'
    BY <1>0, <1>1, <1>6 DEF AsksOthers
  <2> QED  BY <1>3, <1>6, <2>1
<1>7. CASE SplitRequest(h)
  <2>1. PICK st : walk' = [walk EXCEPT ![h].stack = st]
    BY <1>7 DEF SplitRequest
  <2> QED  BY <1>0, <1>2, <1>6, <1>7, <2>1, SamePeer DEF SplitRequest, Waits
<1>8. CASE Answer(h) \/ NoAnswer(h)
  <2>1. PICK st : walk' = [walk EXCEPT ![h].stack = st]
    BY <1>8 DEF Answer, NoAnswer, Listed
  <2> QED  BY <1>0, <1>2, <1>6, <1>8, <2>1, SamePeer DEF Answer, NoAnswer, Waits
<1>9. CASE Return(h)
  <2>1. walk'[h].stack = <<>> \/ walk'[h].peer = walk[h].peer
    BY <1>0, <1>9 DEF Return, NoWalk, Walk
  <2> QED  BY <1>2, <1>6, <1>9, <2>1 DEF Return, Waits
<1>10. ASSUME NEW e, Descend(h, e) PROVE Calm'
  <2>1. PICK st : walk' = [walk EXCEPT ![h].stack = st]
    BY <1>10 DEF Descend
  <2> QED  BY <1>0, <1>6, <1>10, <2>1, SamePeer DEF Descend, Waits
<1>11. ASSUME NEW e, CheckFile(h, e) PROVE Calm'
  <2> DEFINE j == [from |-> walk[h].peer, path |-> e.path]
  <2>1. j.from # h /\ j.path = e.path
    BY <1>0, <1>11 DEF CheckFile, Waits, AsksOthers
  <2>2. jobs'[h] = jobs[h] \/ (jobs'[h] = Append(jobs[h], j) /\ ~Has(h, e.path))
    BY <1>0, <1>11 DEF CheckFile
  <2> HIDE DEF j
  <2>3. \A i \in DOMAIN jobs'[h] :
          \/ i \in DOMAIN jobs[h] /\ jobs'[h][i] = jobs[h][i]
          \/ jobs'[h][i] = j /\ ~Has(h, e.path)
    <3>1. CASE jobs'[h] = jobs[h]
      BY <3>1
    <3>2. CASE jobs'[h] = Append(jobs[h], j) /\ ~Has(h, e.path)
      <4>1. /\ DOMAIN jobs'[h] = 1 .. Len(jobs[h]) + 1 /\ jobs[h] \in Seq(Job)
            /\ jobs'[h][Len(jobs[h]) + 1] = j
            /\ \A i \in 1 .. Len(jobs[h]) : jobs'[h][i] = jobs[h][i]
        BY <1>0, <3>2
      <4> QED  BY <3>2, <4>1
    <3> QED  BY <2>2, <3>1, <3>2
  <2>4. walk'[h].peer = walk[h].peer
    <3>1. PICK st : walk' = [walk EXCEPT ![h].stack = st]
      BY <1>11 DEF CheckFile
    <3> QED  BY <1>0, <3>1, SamePeer
  <2>5. AsksOthers(h)'
    BY <1>0, <1>1, <1>11, <2>1, <2>3, <2>4 DEF CheckFile, Waits, AsksOthers
  <2>6. ASSUME NEW p, p \notin changed, Requests(h, p)', ~Requests(h, p)
        PROVE  \A g \in Hosts \ {h} : ~Requests(g, p)
    <3>1. p = e.path /\ ~Has(h, p)
      BY <1>1, <2>1, <2>3, <2>6 DEF Requests
    <3> QED  BY <2>6, <3>1, AskedIsThere
  <2> QED  BY <1>0, <1>1, <1>2, <2>5, <2>6, CalmStep
<1> QED
  BY <1>2, <1>4, <1>3, <1>5, <1>7, <1>8, <1>9, <1>10, <1>11 DEF CommandClient

\* A step of a file client whose download goes on, or is over, and which writes nothing.
LEMMA DownloadCalm ==
  ASSUME IInv, Calm, AllThere, Grows, NEW h \in Hosts, UNCHANGED <<disk, made, changed, jobs>>,
         FileClient(h), astray' \subseteq changed, dl[h].phase # "write", Got(h)',
         \/ dl'[h].phase = "idle"
         \/ /\ dl[h].phase # "idle" /\ dl'[h].phase # "broken"
            /\ dl'[h].from = dl[h].from /\ dl'[h].path = dl[h].path
  PROVE  Calm' /\ AllThere'
<1>0. TypeOK /\ AsksOthers(h)
  BY DEF IInv, Calm
<1>1. /\ UNCHANGED <<seen, walk>>
      /\ \A g \in Hosts \ {h} : dl'[g] = dl[g] /\ jobs'[g] = jobs[g]
  BY <1>0, FileClientQuiet DEF clientVars
<1>2. AsksOthers(h)'
  BY <1>0, <1>1 DEF AsksOthers
<1>3. \A p : Requests(h, p)' => Requests(h, p)
  BY DEF Requests
<1>4. Calm'
  BY <1>1, <1>2, <1>3, CalmStep
<1>5. \A g \in Hosts : dl[g].phase = "write" => dl'[g] = dl[g]
  BY <1>1
<1> QED  BY <1>4, <1>5, ThereStays

LEMMA FetchCalm ==
  ASSUME IInv, Calm, AllThere, Grows, NEW h \in Hosts, Fetch(h) \/ FetchFails(h)
  PROVE  Calm' /\ AllThere'
<1>0. /\ jobs \in [Hosts -> Seq(Job)] /\ dl \in [Hosts -> Download] /\ TypeOK
      /\ AsksOthers(h) /\ astray \subseteq changed
  BY DEF IInv, TypeOK, DownloadOK, Calm
<1>1. /\ jobs[h] # <<>> /\ dl[h].phase = "idle" /\ jobs' = [jobs EXCEPT ![h] = Tail(@)]
      /\ (dl' = [dl EXCEPT ![h] = Request(Head(jobs[h]))] \/ dl' = dl)
      /\ UNCHANGED <<disk, seen, walk, made, changed, astray>>
  BY DEF Fetch, FetchFails, clientVars, mixVars, auxVars
<1> DEFINE js == jobs[h]
<1>2. /\ \A i \in DOMAIN Tail(js) : i + 1 \in DOMAIN js /\ Tail(js)[i] = js[i + 1]
      /\ 1 \in DOMAIN js /\ Head(js) = js[1]
  BY <1>0, <1>1
<1>3. dl'[h] = Request(js[1]) \/ dl'[h] = dl[h]
  BY <1>0, <1>1, <1>2
<1>4. jobs'[h] = Tail(js)
  BY <1>0, <1>1
<1>5. AsksOthers(h)' /\ Got(h)'
  BY <1>0, <1>1, <1>2, <1>3, <1>4 DEF AsksOthers, Got, Request
<1>6. \A p : Requests(h, p)' => Requests(h, p)
  BY <1>1, <1>2, <1>3, <1>4 DEF Requests, Request
<1>7. \A g \in Hosts \ {h} : dl'[g] = dl[g] /\ jobs'[g] = jobs[g]
  BY <1>0, <1>1
<1>8. \A g \in Hosts : dl[g].phase = "write" => dl'[g] = dl[g]
  BY <1>1, <1>7
<1> QED  BY <1>0, <1>1, <1>5, <1>6, <1>7, <1>8, CalmStep, ThereStays

\* The size that a server takes is that of a whole file: it is not writing the file
\* itself, since then it would have asked for what the other one asks it for.
LEMMA StatCalm ==
  ASSUME IInv, Calm, AllThere, Grows, ~confused', NEW h \in Hosts, Stat(h)
  PROVE  Calm' /\ AllThere'
<1>1. PICK r \in Download, g \in Hosts, p \in Names : r = dl[h] /\ g = r.from /\ p = r.path
  <2>1. dl[h] \in Download
    BY DEF IInv, TypeOK, DownloadOK
  <2> QED  BY <2>1 DEF Download
<1>0. /\ r.phase = "parsing" /\ strtok[g] = "file" /\ Fetched(h) /\ AsksOthers(h)
      /\ UNCHANGED <<disk, made, changed, jobs>> /\ astray \subseteq changed /\ ~confused
  BY <1>1 DEF Stat, IInv, Calm, auxVars, Grows
<1>2. g # h
  BY <1>0, <1>1 DEF AsksOthers
<1>3. p \in changed \/ Has(g, p)
  BY <1>0, <1>1 DEF Fetched, There
<1>4. CASE Has(g, p)
  <2>1. /\ dl' = [dl EXCEPT ![h] = [@ EXCEPT !.phase = "reading", !.size = Len(disk[g][p])]]
        /\ astray' = astray
    BY <1>0, <1>1, <1>4 DEF Stat
  <2>2. /\ dl'[h].phase = "reading" /\ dl'[h].from = g /\ dl'[h].path = p
        /\ dl'[h].size = Len(disk[g][p])
    BY <1>1, <2>1 DEF Download, IInv, TypeOK, DownloadOK
  <2>3. ASSUME p \notin changed PROVE p \in DOMAIN made /\ Len(made[p]) = Len(disk[g][p])
    <3>1. Whole(g, p) \/ Writing(g, p)
      BY <1>4, <2>3 DEF AllThere, Has
    <3>2. ~Writing(g, p)
      <4>1. Requests(h, p)
        BY <1>0, <1>1 DEF Requests
      <4>2. ~Requests(g, p)
        BY <1>2, <2>3, <4>1 DEF Calm
      <4> QED  BY <4>2 DEF Writing, Requests
    <3> QED  BY <3>1, <3>2 DEF Whole
  <2>4. Got(h)'
    BY <1>0, <2>2, <2>3 DEF Got
  <2> QED
    BY <1>0, <1>1, <2>1, <2>2, <2>4, DownloadCalm DEF FileClient
<1>5. CASE ~Has(g, p)
  <2>1. /\ dl' = [dl EXCEPT ![h] = [@ EXCEPT !.phase = "received", !.data = <<Text>>]]
        /\ astray' = astray \cup {p}
    BY <1>0, <1>1, <1>5 DEF Stat
  <2>2. dl'[h].phase = "received" /\ dl'[h].from = g /\ dl'[h].path = p
    BY <1>1, <2>1 DEF Download, IInv, TypeOK, DownloadOK
  <2>3. Got(h)' /\ astray' \subseteq changed
    BY <1>0, <1>3, <1>5, <2>1, <2>2 DEF Got
  <2> QED
    BY <1>0, <1>1, <2>2, <2>3, DownloadCalm DEF FileClient
<1> QED  BY <1>4, <1>5

LEMMA ReadCalm ==
  ASSUME IInv, Calm, AllThere, Grows, ~trouble', NEW h \in Hosts, Read(h)
  PROVE  Calm' /\ AllThere'
<1>1. PICK r \in Download, g \in Hosts, p \in Names, n \in Nat :
        r = dl[h] /\ g = r.from /\ p = r.path /\ n = r.size
  <2>1. dl[h] \in Download
    BY DEF IInv, TypeOK, DownloadOK
  <2> QED  BY <2>1 DEF Download
<1>0. /\ r.phase = "reading" /\ Fetched(h) /\ Got(h) /\ TypeOK
      /\ UNCHANGED <<disk, made, changed, jobs>> /\ astray \subseteq changed
  BY <1>1 DEF Read, IInv, Calm
<1>2. p \notin changed => Reaches(g, p, n) /\ p \in DOMAIN made /\ Len(made[p]) = n
  BY <1>0, <1>1 DEF Fetched, Got
<1>3. PICK data : /\ dl' = [dl EXCEPT ![h] = [@ EXCEPT !.phase = "received", !.data = data]]
                  /\ \/ /\ data = SubSeq(disk[g][p], 1, n) /\ Reaches(g, p, n)
                        /\ astray' = astray
                     \/ ~Reaches(g, p, n) /\ astray' = astray \cup {p}
  BY <1>1 DEF Read, Reaches
<1>4. dl'[h].phase = "received" /\ dl'[h].from = g /\ dl'[h].path = p /\ dl'[h].data = data
  BY <1>1, <1>3 DEF Download, IInv, TypeOK, DownloadOK
<1>5. astray' \subseteq changed
  BY <1>0, <1>2, <1>3
<1>6. p \notin changed => Len(data) = n
  <2> SUFFICES ASSUME p \notin changed PROVE Len(data) = n
    OBVIOUS
  <2>1. disk[g][p] \in Seq(Blocks) /\ Len(disk[g][p]) >= n /\ data = SubSeq(disk[g][p], 1, n)
    BY <1>0, <1>2, <1>3 DEF Reaches, Has, TypeOK, DiskOK, IsFiles
  <2> QED  BY <2>1
<1>7. Got(h)'
  BY <1>0, <1>2, <1>4, <1>6 DEF Got
<1> QED
  BY <1>0, <1>1, <1>4, <1>5, <1>7, DownloadCalm DEF FileClient

LEMMA OpenCalm ==
  ASSUME IInv, Calm, AllThere, Grows, NEW h \in Hosts, Open(h)
  PROVE  Calm' /\ AllThere'
<1>1. PICK r \in Download, p \in Names : r = dl[h] /\ p = r.path
  <2>1. dl[h] \in Download
    BY DEF IInv, TypeOK, DownloadOK
  <2> QED  BY <2>1 DEF Download
<1>0. /\ r.phase = "received" /\ TypeOK /\ AsksOthers(h) /\ Got(h)
      /\ UNCHANGED <<walk, seen, jobs, made, changed, astray>> /\ astray \subseteq changed
  BY <1>1 DEF Open, IInv, Calm, clientVars, mixVars, auxVars
<1>2. /\ dl'[h].phase = "write" /\ dl'[h].path = p /\ dl'[h].from = r.from
      /\ dl'[h].data = r.data
  BY <1>1 DEF Open, Download, IInv, TypeOK, DownloadOK
<1>3. \A g \in Hosts \ {h} : dl'[g] = dl[g]
  BY <1>0, FileClientQuiet DEF FileClient
<1>4. Calm'
  <2>1. AsksOthers(h)' /\ Got(h)'
    BY <1>0, <1>1, <1>2 DEF AsksOthers, Got
  <2>2. \A q : Requests(h, q)' => Requests(h, q)
    BY <1>0, <1>1, <1>2 DEF Requests
  <2> QED  BY <1>0, <1>3, <2>1, <2>2, CalmStep
<1>5. AllThere'
  <2> SUFFICES ASSUME NEW g \in Hosts, NEW q \in DOMAIN disk'[g] \ changed
               PROVE  Whole(g, q)' \/ Writing(g, q)'
    BY <1>0 DEF AllThere
  <2>1. CASE g = h /\ q = p
    BY <1>2, <2>1 DEF Writing
  <2>2. CASE ~(g = h /\ q = p)
    <3>1. q \in DOMAIN disk[g] /\ disk'[g][q] = disk[g][q]
      BY <1>0, <1>1, <2>2, OpenGrows
    <3>2. Whole(g, q) \/ Writing(g, q)
      BY <3>1 DEF AllThere
    <3> QED  BY <1>0, <1>1, <1>3, <3>1, <3>2 DEF Whole, Has, Writing
  <2> QED  BY <2>1, <2>2
<1> QED  BY <1>4, <1>5

\* With the last block the file is as long as what the user made.
LEMMA WriteCalm ==
  ASSUME IInv, IInv', Calm, AllThere, Grows, NEW h \in Hosts, Write(h)
  PROVE  Calm' /\ AllThere'
<1>1. PICK r \in Download, p \in Names, i \in Nat \ {0} :
        r = dl[h] /\ p = r.path /\ i = r.pos + 1
  <2>1. dl[h] \in Download
    BY DEF IInv, TypeOK, DownloadOK
  <2> QED  BY <2>1 DEF Download
<1>0. /\ r.phase = "write" /\ TypeOK /\ AsksOthers(h) /\ Got(h) /\ Fetched(h)
      /\ UNCHANGED <<walk, seen, jobs, made, changed, astray>> /\ astray \subseteq changed
      /\ r.data \in Seq(Blocks)
  BY <1>1 DEF Write, IInv, Calm, clientVars, mixVars, auxVars, Download
<1>2. \/ i = Len(r.data) /\ dl'[h] = NoDownload(h)
      \/ dl'[h] = [r EXCEPT !.pos = i]
  BY <1>0, <1>1 DEF Write, TypeOK, DownloadOK
<1>3. \/ i = Len(r.data) /\ dl'[h].phase = "idle"
      \/ /\ dl'[h].phase = "write" /\ dl'[h].path = p /\ dl'[h].from = r.from
         /\ dl'[h].data = r.data
  BY <1>0, <1>1, <1>2 DEF NoDownload, Download
<1>4. \A g \in Hosts \ {h} : dl'[g] = dl[g]
  BY <1>0, FileClientQuiet DEF FileClient
<1>5. Calm'
  <2>1. AsksOthers(h)' /\ Got(h)'
    BY <1>0, <1>1, <1>3 DEF AsksOthers, Got
  <2>2. \A q : Requests(h, q)' => Requests(h, q)
    BY <1>0, <1>1, <1>3 DEF Requests
  <2> QED  BY <1>0, <1>4, <2>1, <2>2, CalmStep
<1>6. /\ DOMAIN disk'[h] = DOMAIN disk[h]
      /\ \A g \in Hosts : \A q : (g # h \/ q # p) /\ q \in DOMAIN disk'[g] =>
           q \in DOMAIN disk[g] /\ disk'[g][q] = disk[g][q]
      /\ p \in DOMAIN disk[h] => disk'[h][p] = Put(disk[h][p], i, r.data[i])
  BY <1>0, <1>1, WriteType DEF Has
<1>7. ASSUME p \in DOMAIN disk'[h] \ changed, i = Len(r.data) PROVE Whole(h, p)'
  <2>1. p \in DOMAIN made /\ Len(made[p]) = i /\ made[p] \in Seq(Blocks)
    BY <1>0, <1>1, <1>7 DEF Got, TypeOK, DiskOK, IsFiles
  <2>2. disk[h][p] \in Seq(Blocks) /\ Len(disk[h][p]) >= r.pos
    BY <1>0, <1>1, <1>6, <1>7 DEF Fetched, Reaches, TypeOK, DiskOK, IsFiles
  <2>3. i <= Len(disk[h][p]) + 1 /\ r.data[i] \in Blocks
    BY <1>0, <1>1, <1>7, <2>2 DEF Download
  <2>4. Len(disk'[h][p]) >= i
    <3>1. /\ i <= Len(disk[h][p]) => Len(Put(disk[h][p], i, r.data[i])) = Len(disk[h][p])
          /\ ~(i <= Len(disk[h][p])) =>
               Len(Put(disk[h][p], i, r.data[i])) = Len(disk[h][p]) + 1
      BY <2>2, <2>3 DEF Put
    <3> QED  BY <1>6, <1>7, <2>2, <2>3, <3>1
  <2>5. disk'[h][p] \in Seq(Blocks)
    BY <1>7 DEF IInv, TypeOK, DiskOK, IsFiles
  <2>6. \A k \in DOMAIN disk'[h][p] : k \in DOMAIN made[p] /\ disk'[h][p][k] = made[p][k]
    BY <1>0, <1>7 DEF IInv, Genuine
  <2>7. disk'[h][p] = made[p]
    BY <2>1, <2>4, <2>5, <2>6, SameFile
  <2> QED  BY <1>0, <1>7, <2>1, <2>7 DEF Whole, Has
<1>8. AllThere'
  <2> SUFFICES ASSUME NEW g \in Hosts, NEW q \in DOMAIN disk'[g] \ changed
               PROVE  Whole(g, q)' \/ Writing(g, q)'
    BY <1>0 DEF AllThere
  <2>1. CASE g = h /\ q = p
    BY <1>3, <1>7, <2>1 DEF Writing
  <2>2. CASE ~(g = h /\ q = p)
    <3>1. q \in DOMAIN disk[g] /\ disk'[g][q] = disk[g][q]
      BY <1>6, <2>2
    <3>2. Whole(g, q) \/ Writing(g, q)
      BY <3>1 DEF AllThere
    <3> QED  BY <1>0, <1>1, <1>4, <2>2, <3>1, <3>2 DEF Whole, Has, Writing
  <2> QED  BY <2>1, <2>2
<1> QED  BY <1>5, <1>8

LEMMA FileClientCalm ==
  ASSUME IInv, IInv', Calm, AllThere, Grows, ~confused', ~trouble',
         NEW h \in Hosts, FileClient(h)
  PROVE  Calm' /\ AllThere'
<1>0. /\ dl \in [Hosts -> Download] /\ astray \subseteq changed /\ Got(h) /\ dl[h] \in Download
  BY DEF IInv, TypeOK, DownloadOK, Calm
<1>1. CASE SplitFileRequest(h)
  <2>1. /\ dl'[h].phase = "parsing" /\ dl'[h].path = dl[h].path /\ dl'[h].from = dl[h].from
        /\ dl[h].phase = "asked" /\ UNCHANGED <<disk, made, changed, jobs, astray>>
    BY <1>0, <1>1 DEF SplitFileRequest, auxVars, Download
  <2> QED  BY <1>0, <2>1, DownloadCalm DEF Got
<1>2. CASE NoData(h) \/ OpenFails(h)
  <2>1. /\ dl'[h].phase = "idle" /\ dl[h].phase # "write"
        /\ UNCHANGED <<disk, made, changed, jobs, astray>>
    BY <1>0, <1>2 DEF NoData, OpenFails, auxVars, mixVars, NoDownload
  <2> QED  BY <1>0, <2>1, DownloadCalm DEF Got
<1>3. ~ShortWrite(h)
  BY DEF ShortWrite
<1> QED
  BY <1>1, <1>2, <1>3, FetchCalm, StatCalm, ReadCalm, OpenCalm, WriteCalm DEF FileClient

LEMMA MakeCalm ==
  ASSUME IInv, Calm, AllThere, NEW h \in Hosts, NEW p \in Paths, NEW c, Make(h, p, c)
  PROVE  Calm' /\ AllThere'
<1>0. /\ Grows /\ UNCHANGED <<walk, jobs, dl, astray>> /\ UNCHANGED seen
      /\ DOMAIN disk'[h] = DOMAIN disk[h] \cup {p} /\ disk'[h][p] = c
      /\ \A g \in Hosts : \A q : g # h \/ q # p =>
           /\ q \in DOMAIN disk'[g] <=> q \in DOMAIN disk[g]
           /\ q \in DOMAIN disk[g] => disk'[g][q] = disk[g][q]
      /\ p \in changed' \/ (/\ Free(p) /\ p \in DOMAIN made' /\ made'[p] = c
                            /\ changed' = changed)
  <2>1. TypeOK
    BY DEF IInv
  <2>2. UNCHANGED seen
    BY DEF Make, clientVars
  <2> QED  BY <2>1, <2>2, MakeGrows
<1>1. Calm'
  <2>1. astray' \subseteq changed' /\ AsksOthers(h)' /\ Got(h)'
    BY <1>0 DEF Calm, AsksOthers, Got, Grows
  <2> QED  BY <1>0, <2>1, CalmStep DEF Requests
<1>2. ASSUME NEW g \in Hosts, NEW q \in DOMAIN disk'[g] \ changed'
      PROVE  Whole(g, q)' \/ Writing(g, q)'
  <2>1. CASE g = h /\ q = p
    BY <1>0, <1>2, <2>1 DEF Whole, Has
  <2>2. CASE ~(g = h /\ q = p)
    <3>1. q \in DOMAIN disk[g] \ changed /\ disk'[g][q] = disk[g][q]
      BY <1>0, <1>2, <2>2 DEF Grows
    <3> QED  BY <1>0, <1>2, <3>1 DEF AllThere, Grows, Whole, Has, Writing
  <2> QED  BY <2>1, <2>2
<1> QED  BY <1>1, <1>2 DEF AllThere

LEMMA DeleteCalm ==
  ASSUME IInv, Calm, AllThere, NEW h \in Hosts, NEW p \in DOMAIN disk[h], Delete(h, p)
  PROVE  Calm' /\ AllThere'
<1>0. /\ Grows /\ p \in changed' /\ UNCHANGED <<walk, jobs, made, astray, seen>>
      /\ \A g \in Hosts : \A q \in DOMAIN disk'[g] :
           q \in DOMAIN disk[g] /\ disk'[g][q] = disk[g][q]
  BY DeleteGrows DEF IInv, Delete, clientVars
<1>1. /\ \A g \in Hosts \ {h} : dl'[g] = dl[g]
      /\ dl'[h] = dl[h] \/ (Writing(h, p) /\ dl'[h].phase = "idle")
  BY DEF Delete, IInv, TypeOK, DownloadOK, NoDownload
<1>2. Calm'
  <2>1. astray' \subseteq changed' /\ AsksOthers(h)' /\ Got(h)'
    BY <1>0, <1>1 DEF Calm, AsksOthers, Got, Grows
  <2>2. \A q : Requests(h, q)' => Requests(h, q)
    BY <1>0, <1>1 DEF Requests
  <2> QED  BY <1>0, <1>1, <2>1, <2>2, CalmStep
<1>3. ASSUME NEW g \in Hosts, NEW q \in DOMAIN disk'[g] \ changed'
      PROVE  Whole(g, q)' \/ Writing(g, q)'
  <2>1. q \in DOMAIN disk[g] \ changed /\ disk'[g][q] = disk[g][q] /\ q # p
    BY <1>0, <1>3 DEF Grows
  <2>2. Writing(g, q) => Writing(g, q)'
    BY <1>1, <2>1 DEF Writing
  <2> QED  BY <1>0, <2>1, <2>2 DEF AllThere, Whole, Has
<1> QED  BY <1>2, <1>3 DEF AllThere

LEMMA AnnounceCalm ==
  ASSUME IInv, Calm, AllThere, Grows, NEW h \in Hosts, NEW g \in Hosts, Announce(h, g)
  PROVE  Calm' /\ AllThere'
<1>0. /\ UNCHANGED <<walk, jobs, dl, astray, changed, disk, made>> /\ g # h
      /\ seen[h] \in Seq(Hosts) /\ seen' = [seen EXCEPT ![h] = Append(@, g)]
      /\ seen \in [Hosts -> Seq(Hosts)] /\ AsksOthers(h)
  BY DEF Announce, mixVars, auxVars, IInv, TypeOK, WalkOK, Calm
<1>1. \A i \in DOMAIN Append(seen[h], g) : Append(seen[h], g)[i] # h
  BY <1>0, OthersSeen DEF AsksOthers
<1>2. astray' \subseteq changed' /\ AsksOthers(h)' /\ Got(h)'
  BY <1>0, <1>1 DEF Calm, AsksOthers, Got
<1> QED  BY <1>0, <1>2, CalmStep, ThereStays DEF Requests

LEMMA NextCalm == ASSUME TwoHosts, CalmInv, [Next]_vars PROVE CalmInv'
<1>1. IInv /\ IInv' /\ Grows
  BY NextSafe DEF CalmInv
<1> SUFFICES ASSUME ~confused', ~trouble' PROVE Calm' /\ AllThere'
  BY <1>1 DEF CalmInv
<1>2. Calm /\ AllThere /\ ~confused /\ ~trouble
  BY <1>1 DEF CalmInv, Grows
<1>3. ASSUME UNCHANGED <<seen, walk, jobs, dl, astray, changed, disk, made>>
      PROVE  Calm' /\ AllThere'
  BY <1>2, <1>3 DEF Calm, AllThere, AsksOthers, Got, Requests, Whole, Has, Writing
<1>4. CASE UNCHANGED vars
  BY <1>3, <1>4 DEF vars, clientVars, mixVars, auxVars
<1>5. ASSUME NEW h \in Hosts, CommandClient(h) \/ FileClient(h) PROVE Calm' /\ AllThere'
  BY <1>1, <1>2, <1>5, CommandClientCalm, FileClientCalm
<1>6. ASSUME NEW h \in Hosts, NEW g \in Hosts, Announce(h, g) PROVE Calm' /\ AllThere'
  BY <1>1, <1>2, <1>6, AnnounceCalm
<1>7. ASSUME NEW h \in Hosts, NEW p \in DOMAIN disk[h], Delete(h, p) PROVE Calm' /\ AllThere'
  BY <1>1, <1>2, <1>7, DeleteCalm
<1>8. ASSUME NEW h \in Hosts, NEW p \in Paths, NEW c \in Contents[p], Make(h, p, c)
      PROVE  Calm' /\ AllThere'
  BY <1>1, <1>2, <1>8, MakeCalm
<1>9. ASSUME NEW h \in Hosts, Crash(h) \/ ServeNobody(h) PROVE FALSE
  BY <1>2, <1>9 DEF Crash, ServeNobody
<1>10. ASSUME NEW h \in Hosts, Start(h) PROVE Calm' /\ AllThere'
  BY <1>3, <1>10 DEF Start, mixVars, auxVars
<1> QED  BY <1>4, <1>5, <1>6, <1>7, <1>8, <1>9, <1>10 DEF Next

\* With two hosts, as long as no request got into another one's parse
\* (command_server.c:129, file_server.c:120) and nobody went down, what is in
\* sync_files is a file as the user made it or one that is just being written: the
\* disagreement of run FileSyncTorn with mainpage.dox:4 needs a third host.
THEOREM DownloadedByTwo == TwoHosts => (Spec => []Downloaded)
<1> SUFFICES ASSUME TwoHosts PROVE Spec => []Downloaded
  OBVIOUS
<1>1. Spec => []CalmInv
  <2>1. CalmInv /\ [Next]_vars => CalmInv'
    BY NextCalm
  <2> QED  BY InitCalm, <2>1, PTL DEF Spec
<1>2. CalmInv => Downloaded
  BY DEF CalmInv, AllThere, Downloaded
<1> QED  BY <1>1, <1>2, PTL
=============================================================================
