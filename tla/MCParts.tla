------------------------------ MODULE MCParts ------------------------------
(***************************************************************************)
(* Model checking of the parts of the program that share nothing with the  *)
(* rest: the pid file, the weekly schedule against the clock, the file     *)
(* monitor and the XML library, its documents, texts and files. Each       *)
(* behavior runs one of them (part), the others rest.                      *)
(***************************************************************************)
EXTENDS InstanceLock, Timetable, FileMonitor, MarkupTree, MarkupText, TextFile

VARIABLE part

---------------------------------------------------------------------------
(* Schedule: policies of seven days with the entries a reader would write  *)
(* and with such as are not well-formed; instants around the ends of spans.*)

AtTime(h, m, s) == <<h, Colon, m, Colon, s>>
FromTo(a, b) == a \o <<Dash>> \o b
Names == {DayNames[d] : d \in 1..7}

WorkWeek ==
  [n \in Names |->
     CASE n = "sun"     -> <<FromTo(AtTime(9, 0, 0), AtTime(18, 0, 0))>>
       [] n = "monday"  -> <<FromTo(AtTime(8, 30, 0), AtTime(9, 0, 0)),
                             FromTo(AtTime(9, 0, 0), AtTime(9, 0, 1))>>
       [] n = "tuesday" -> <<FromTo(<<9, Colon, 0>>, AtTime(18, 0, 0)), <<>>,
                             FromTo(AtTime(0, 0, 0), AtTime(24, 0, 0))>>
       [] n = "saturday" -> <<FromTo(AtTime(18, 0, 0), AtTime(9, 0, 0)),
                              FromTo(AtTime(23, 59, 0), AtTime(23, 59, 59))>>
       [] OTHER -> <<>>]
WrongName == [n \in (Names \ {"sun"}) \cup {"sunday"} |->
                <<FromTo(AtTime(0, 0, 0), AtTime(12, 0, 0))>>]
SixDays   == [n \in Names \ {"sun"} |-> <<>>]
NoNumber  == [n \in Names |-> <<FromTo(<<Other, Colon, 0, Colon, 0>>, AtTime(1, 0, 0))>>]
MCWeek == {WorkWeek, WrongName, SixDays, NoNumber}

On(d, h, m, s) == [wday |-> d, hour |-> h, minute |-> m, seconds |-> s]
MCInstant ==
  <<On(0, 8, 59, 59), On(0, 9, 0, 0), On(1, 8, 59, 59), On(1, 9, 0, 0), On(1, 9, 0, 1),
    On(2, 0, 0, 0), On(6, 23, 58, 0), On(6, 23, 59, 0), On(6, 23, 59, 59)>>

\* Bound: others fill localtime's buffer while it is read, with the instant after the
\* one that was asked for, and with that one again.
FilledWhileRead ==
  shown' # shown => \/ step = "clock" /\ step' = "read"
                    \/ step = "read" /\ shown' \in {asked, (asked % Len(Instant)) + 1}

MCRoot == <<"r">>

\* Bounds: a hidden file is made first, in the root, and stays; files are written to in
\* the first operation.
HiddenStays == LET hidden(fs) == {f \in fs : Last(f) \in Dot}
               IN \/ hidden(files') = hidden(files)
                  \/ ops = 0 /\ hidden(files') = {Append(Root, n) : n \in Dot}
WrittenFirst == ops' > 1 => \/ <<dirs, files>>' # <<dirs, files>> \/ ops' = ops

\* Bounds: the folder "e" is "d" under another name, never made beside it; the file that
\* ends the loop is made in the root, where nothing has been moved.
OnlyRenamed == LET d == Append(Root, "d")  e == Append(Root, "e")
               IN e \in dirs' \ dirs => d \in dirs \ dirs'
StopAlone == \A f \in files' : Last(f) = StopName => Parent(f) = Root /\ unheard' = {}

---------------------------------------------------------------------------
(* Documents: one with mixed content to edit, one with siblings to name.   *)

Mixed == <<Open("a"), Gt, Comment, Eol, Open("b"), Gt, Text, Close("b"), Gt,
           Text, Close("a"), Gt>>
Siblings == <<Open("a"), Gt, Open("b"), Slash, Gt, Open("b"), Slash, Gt, Close("a"), Gt>>
MCDocs == {Mixed, Siblings}
MCSubDocs == {<<Open("b"), Slash, Gt, Eol, Open("b"), Slash, Gt>>}
MCContents == {<<>>, <<Open("b"), Slash, Gt, Text>>}

\* Bounds: three edits of an empty document, two of the mixed one; names are saved,
\* restored and lost in the other one, as many as MaxEdits. Which name is which makes no
\* difference: they are first used in one order. Nor does the name of an element in the
\* document that grows: there are no others.
GrowNext ==
  \/ edits < 3 /\ Edits
  \/ FindElem(AnyName) \/ FindChildElem(AnyName) \/ FindNode(AnyName)
  \/ IntoElem \/ OutOfElem \/ ResetPos \/ ResetMainPos \/ ResetChildPos
MixedNext == \/ edits = 0 /\ doc = <<>> /\ SetDoc(Mixed)
             \/ doc # <<>> /\ edits < 2 /\ Edits
             \/ Moves
NameOrder == <<"p", "q", "r">>
Met(n) == \E k \in DOMAIN table : table[k].name = n
NamesNext ==
  \/ doc = <<>> /\ SetDoc(Siblings)
  \/ doc # <<>> /\ (RemoveElem \/ RemoveChildElem \/ SetElemContent(<<>>)
                 \/ \E k \in 1..3 : /\ \A j \in 1..k - 1 : Met(NameOrder[j])
                                   /\ SavePos(NameOrder[k]))
  \/ FindElem(AnyName) \/ FindChildElem(AnyName) \/ IntoElem
  \/ \E n \in PosName : RestorePos(n)

---------------------------------------------------------------------------
(* Texts: elements with and without attributes and data, with quotes of    *)
(* both kinds and with none, and values that look like markup.             *)

MCElements ==
  {<<"<", "e", "/", ">">>,
   <<"<", "e", " ", "b", "=", "x", "/", ">", " ", "x", "&", "lt", ";", "<", "/", "e", " ", ">">>,
   <<"<", "e", " ", "b", " ", "=", " ", "'", "\"", ">", "'", " ", "a", "=", "\"", "/", "\"",
     "/", ">">>}
MCValues ==
  {<<>>, <<"\"", "'", "/">>, <<"<", "x", ">">>, <<"&", "x", ";", "&", "lt", ";", "&">>,
   <<"&", "#60", ";">>, <<"]", "]", "]", "]", ">", ">", "]">>, <<"b", "=", "\"", "/", ">">>,
   <<" ", "x", " ", " ", "<", " ">>, <<"<", "!", "[", "CDATA", "[">>}

\* Files: code points of one to four bytes, nulls, and bytes that are no UTF-8 or make up
\* the mark of UTF-8 within a text.
MCChars == {0, 65, 233, 8364, 128512}
MCGarbage == {0, 65, 169, 187, 191, 195, 220, 239}

---------------------------------------------------------------------------
LockRests == LockInit /\ named = Nil
TimeRests ==
  /\ plan = [week |-> <<>>, demo |-> 1]
  /\ spans = [d \in WeekDays |-> {DemoSpan(Instant[1])}]
  /\ shown = 1 /\ step = "clock" /\ got = <<>> /\ record = FALSE
  /\ asked = 1 /\ kept = "yes"
MonitorRests ==
  /\ dirs = {Root} /\ files = {} /\ unheard = {} /\ live = <<>> /\ nextWd = 1 /\ queue = <<>>
  /\ monitorMap = <<>> /\ fileList = <<>> /\ frames = <<>> /\ buffer = <<>>
  /\ phase = "end" /\ bRun = FALSE /\ iter = 1 /\ seconds = 0 /\ ops = 0
TextRests ==
  /\ xml = <<"<", "e", "/", ">">> /\ tag = Parsed(xml)
  /\ space = "keep" /\ sets = 0 /\ told = [f \in AttrName \cup {"data"} |-> Untold]

MCInit ==
  /\ part \in {"lock", "schedule", "monitor", "grow", "mixed", "names", "text", "file"}
  /\ TreeInit /\ FileInit
  /\ IF part = "lock" THEN LockInit ELSE LockRests
  /\ IF part = "schedule" THEN TimetableInit ELSE TimeRests
  /\ IF part = "monitor"
       THEN /\ MonitorInit /\ Append(Root, "e") \notin dirs
            /\ \A f \in files : Last(f) \notin Dot
       ELSE MonitorRests
  /\ IF part = "text" THEN XmlInit ELSE TextRests

MCNext ==
  /\ UNCHANGED part
  /\ \/ part = "lock" /\ LockNext
        /\ UNCHANGED <<timeVars, monVars, treeVars, xmlVars, fileVars>>
     \/ part = "schedule" /\ TimetableNext /\ FilledWhileRead
        /\ UNCHANGED <<lockVars, monVars, treeVars, xmlVars, fileVars>>
     \/ part = "monitor" /\ MonitorNext
        /\ HiddenStays /\ WrittenFirst /\ OnlyRenamed /\ StopAlone
        /\ UNCHANGED <<lockVars, timeVars, treeVars, xmlVars, fileVars>>
     \/ /\ \/ part = "grow" /\ table' = table /\ GrowNext
           \/ part = "mixed" /\ table' = table /\ MixedNext
           \/ part = "names" /\ NamesNext
        /\ UNCHANGED <<lockVars, timeVars, monVars, xmlVars, fileVars>>
     \/ part = "text" /\ XmlNext
        /\ UNCHANGED <<lockVars, timeVars, monVars, treeVars, fileVars>>
     \/ part = "file" /\ FileNext
        /\ UNCHANGED <<lockVars, timeVars, monVars, treeVars, xmlVars>>

MCSpec ==
  MCInit /\ [][MCNext]_<<part, lockVars, timeVars, monVars, treeVars, xmlVars, fileVars>>

---------------------------------------------------------------------------
\* The type invariants of the parts: an inode is locked by a process, spans are whole,
\* the map of the monitor has every watch the kernel has, the current position of a
\* document is on an element that is there, a file is a sequence of bytes.
PartsTypeOK ==
  LockTypeOK /\ TimetableTypeOK /\ MonitorTypeOK /\ TreeTypeOK /\ FileTypeOK
=============================================================================
