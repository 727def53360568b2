------------------------------ MODULE MCParts ------------------------------
(* The parts that do not act on each other's state, for TLC: those of the     *)
(* user interface, of which nothing of one page survives into another but     *)
(* through the server and the route, the scheduler and its calendar, and the  *)
(* output slot of a chip.  They are checked side by side: Init opens one of   *)
(* them and Next works it.                                                    *)
EXTENDS MCCanvasEditor

\* What the parts know only by name: connections, datasets and drafts, tables and
\* recipes, files and folders, new ids, and single ones of the others.
CONSTANTS c1, c2, d1, d2, t1, t2, f1, f2, n1, n2, b1, b2, l1, s1, u1, x1

VARIABLES
  part,         \* the part that is open
  front, back,  \* the variables of a part that has one or two; None for the others
  \* HttpClient
  calls, pending, timer, visible, label, session, user, gate, submitting, begun,
  \* Notifications
  mounted, early, asked, settled, openCount, queue, shown, toasts, toastTimers,
  open, visibleDialogs, closeStack, opened

\* ndjson answers: a line break is 0, other characters are numbered.
TextsUpTo(k) == UNION {{t \in [1..n -> 0..n] : \A i \in 1..n : t[i] \in {0, i}} : n \in 0..k}

Client == INSTANCE HttpClient WITH
  busy <- submitting, Call <- {"r1", "r2"}, Texts <- TextsUpTo(2), MaxCalls <- 3
Notices == INSTANCE Notifications WITH
  PageDialog <- {"p"}, MaxToasts <- 2, MaxQuestions <- 2, MaxShown <- 3, MaxOpened <- 2
Query == INSTANCE QueryPage WITH query <- front, extractStatus <- back,
  Conn <- {c1}, Table <- {t1}, Extract <- {x1}, MaxClicks <- 6
Transforms == INSTANCE TransformPage WITH transform <- front, made <- back,
  Transform <- {t1, t2}, Known <- {t1}, Dataset <- {d1, d2}, ColumnsOnly <- {d2},
  Gone <- {}, MaxClicks <- 3
Steps == INSTANCE RecipeSteps WITH panel <- front,
  Name <- {"a", "b", "c"}, Base <- <<"a", "b">>, MaxSteps <- 2
Graph == INSTANCE CanvasGraph WITH canvas <- front,
  Chip <- {"x", "t", "l", "v"}, MaxInputs <- 2, MaxWires <- 4,
  Kinds <- {[x |-> "extract", t |-> "transform", l |-> "load", v |-> "validation"],
            [x |-> "extract", t |-> "script", l |-> "serve", v |-> "memo"]}
Manage == INSTANCE WorkspaceManage WITH manage <- front, tree <- back, homes <- shown,
  Folder <- {f1, f2, n1}, Known <- {f1, f2}, Draft <- {d1}, Work <- {w1, w2},
  Default <- w2, Name <- {"a", "b"}, MaxClicks <- 4, MaxFaults <- 1
Connections == INSTANCE ConnectionsPage WITH connect <- front, stored <- back,
  Conn <- {c1, c2}, Http <- {c2}, Table <- {t1}, Auth <- {u1}, MaxClicks <- 4
Scripts == INSTANCE ScriptPage WITH script <- front, made <- back,
  Dataset <- {d1, d2}, Fetched <- {d1}, File <- {"lib"},
  MaxInputs <- 2, MaxFiles <- 3, MaxClicks <- 4
Loads == INSTANCE LoadPage WITH load <- front, made <- back,
  Dataset <- {d1}, Conn <- {c1}, Table <- {t1, t2}, Load <- {l1}, MaxClicks <- 4
Validations == INSTANCE ValidationPage WITH valid <- front,
  Dataset <- {"d1", "d2"}, Column <- {"a", "b"}, ColumnsIn <- [d1 |-> {"a"}, d2 |-> {"b"}],
  Listed <- {"d2"}, MaxClicks <- 4
Api == INSTANCE ApiExtractPage WITH api <- front, extracts <- back,
  Conn <- {"c1", "c2"}, MaxExtracts <- 2, MaxClicks <- 5
Tables == INSTANCE Catalogs WITH table <- front, disk <- back,
  File <- 1..3, FolderOf <- <<"x", "x", "y">>, Readable <- {1, 2}, PageSize <- 2, MaxClicks <- 3
Uploads == INSTANCE FilesPage WITH upload <- front, server <- back,
  File <- {f1, f2}, Book <- {b1, b2}, Sheet <- {s1}, MaxClicks <- 4
Lists == INSTANCE Histories WITH history <- front, ran <- back,
  Run <- {"r1", "r2"}, MaxLoops <- 2, MaxClicks <- 3
Watch == INSTANCE RunWatch WITH watch <- front, runs <- back,
  Workspace <- {w1, w2}, MaxRuns <- 2, MaxClicks <- 2, MaxFaults <- 1
Gestures == INSTANCE CanvasSelection WITH grid <- front, stored <- back,
  Workspace <- {w1, w2}, Chip <- {a1, m}, Draft <- {d1}, Fresh <- {n1, n2},
  Wire <- {<<a1, m>>}, MaxClicks <- 3, MaxFaults <- 1
Memos == INSTANCE MemoNotes WITH memo <- front, note <- back,
  MaxText <- 1, MaxClicks <- 4, MaxFaults <- 1

Schedules == INSTANCE Scheduler WITH rows <- front, loop <- back, world <- shown,
  Row <- {"s1", "s2"}, Every <- {1, 2}, Limit <- 1, MaxTime <- 2, MaxTasks <- 2, MaxEvents <- 1
Slot == INSTANCE OutputSlot WITH disk <- front, slot <- back, runs <- shown,
  Run <- {1, 2, 3}, MaxDeletes <- 1, MaxRestarts <- 1, MaxFaults <- 1

\* The beginning, the end and the middle of months from November 2023, and schedules that
\* meet a leap year, a turn of the year and months that lack their day.
By(unit, every, at, day, month) ==
  [unit : {unit}, every : every, at : at, day : day, month : month]
Dates == INSTANCE Calendar WITH cal <- front,
  First <- 2023, Months <- 120, DayLength <- 2, MaxLate <- 2, MaxAsked <- 3,
  Schedule <- By("hour", {1, 3}, {0}, {1}, {1}) \cup By("day", {1, 3}, {0, 1}, {1}, {1})
    \cup By("month", {1, 2, 12}, {0, 1}, {1, 29, 31}, {1})
    \cup By("year", {1, 2}, {0, 1}, {29, 31}, {2, 12}),
  Start <- UNION {{2 * d - 1, 2 * d, 2 * d + 27} : d \in {304, 334, 365, 396, 425, 456, 699}}

-----------------------------------------------------------------------------
pair == <<front, back>>
client == <<calls, pending, timer, visible, label, session, user, gate, submitting, begun>>
notices == <<mounted, early, asked, settled, openCount, queue, shown, toasts, toastTimers,
             open, visibleDialogs, closeStack, opened>>
quiet == <<mounted, early, asked, settled, openCount, queue, toasts, toastTimers,
           open, visibleDialogs, closeStack, opened>>
parts == <<vars, part, pair, client, notices>>

NoPage == front = None /\ back = None
NoEditor ==
  /\ route = None /\ server = None /\ defs = None /\ canvas = None /\ saved = None
  /\ dirty = None /\ busy = FALSE /\ version = None /\ undo = None /\ redo = None
  /\ drag = None /\ dialog = None /\ load = None /\ refresh = None /\ save = None
  /\ carried = None /\ basis = None /\ edits = None /\ events = None
NoClient ==
  /\ calls = None /\ pending = None /\ timer = None /\ visible = None /\ label = None
  /\ session = None /\ user = None /\ gate = None /\ submitting = None /\ begun = None
NoNotices ==
  /\ mounted = None /\ early = None /\ asked = None /\ settled = None /\ openCount = None
  /\ queue = None /\ toasts = None /\ toastTimers = None
  /\ open = None /\ visibleDialogs = None /\ closeStack = None /\ opened = None

\* One part in one or two variables (the dialog of the folders uses a third).
Pages ==
  \/ part = "query" /\ Query!Init
  \/ part = "transform" /\ Transforms!Init
  \/ part = "steps" /\ Steps!Init /\ back = None
  \/ part = "graph" /\ Graph!Init /\ back = None
  \/ part = "connections" /\ Connections!Init
  \/ part = "script" /\ Scripts!Init
  \/ part = "load" /\ Loads!Init
  \/ part = "validation" /\ Validations!Init /\ back = None
  \/ part = "api" /\ Api!Init
  \/ part = "tables" /\ Tables!Init
  \/ part = "files" /\ Uploads!Init
  \/ part = "histories" /\ Lists!Init
  \/ part = "runs" /\ Watch!Init
  \/ part = "gestures" /\ Gestures!Init
  \/ part = "memo" /\ Memos!Init
  \/ part = "calendar" /\ Dates!Init /\ back = None

\* One part in three variables.
Others ==
  \/ part = "folders" /\ Manage!Init
  \/ part = "schedules" /\ Schedules!Init
  \/ part = "slot" /\ Slot!Init

PartsInit ==
  \/ part = "canvas" /\ Init /\ NoPage /\ NoClient /\ NoNotices /\ shown = None
  \/ part = "client" /\ Client!Init /\ NoPage /\ NoEditor /\ NoNotices /\ shown = None
  \/ part = "notices" /\ Notices!Init /\ NoPage /\ NoEditor /\ NoClient
  \/ Others /\ NoEditor /\ NoClient /\ NoNotices
  \/ Pages /\ NoEditor /\ NoClient /\ NoNotices /\ shown = None

PageStep ==
  \/ part = "query" /\ Query!Next
  \/ part = "transform" /\ Transforms!Next
  \/ part = "steps" /\ Steps!Next /\ UNCHANGED back
  \/ part = "graph" /\ Graph!Next /\ UNCHANGED back
  \/ part = "connections" /\ Connections!Next
  \/ part = "script" /\ Scripts!Next
  \/ part = "load" /\ Loads!Next
  \/ part = "validation" /\ Validations!Next /\ UNCHANGED back
  \/ part = "api" /\ Api!Next
  \/ part = "tables" /\ Tables!Next
  \/ part = "files" /\ Uploads!Next
  \/ part = "histories" /\ Lists!Next
  \/ part = "runs" /\ Watch!Next
  \/ part = "gestures" /\ Gestures!Next
  \/ part = "memo" /\ Memos!Next
  \/ part = "calendar" /\ Dates!Next /\ UNCHANGED back

OtherStep ==
  \/ part = "folders" /\ Manage!Next
  \/ part = "schedules" /\ Schedules!Next
  \/ part = "slot" /\ Slot!Next

PartsNext ==
  /\ UNCHANGED part
  /\ \/ part = "canvas" /\ Next /\ UNCHANGED <<pair, client, notices>>
     \/ part = "client" /\ Client!Next /\ UNCHANGED <<vars, pair, notices>>
     \/ part = "notices" /\ Notices!Next /\ UNCHANGED <<vars, pair, client>>
     \/ OtherStep /\ UNCHANGED <<vars, client, quiet>>
     \/ PageStep /\ UNCHANGED <<vars, client, notices>>

PartsSpec == PartsInit /\ [][PartsNext]_parts

-----------------------------------------------------------------------------
\* CanvasEditor has DirtyIsHonest, PutIsWhole and BusyHasSave; the other parts follow.

\* CanvasGraph: the rules of editor and server for the connections of a canvas.
RunnableCanvas == part = "graph" => Graph!CanvasStaysRunnable
AcceptedCanvas == part = "graph" => Graph!SavedCanvasIsAccepted

\* HttpClient: the overlay of waiting, and the lines of a streamed answer.
OwedOverlay == part = "client" => Client!OverlayIsOwed
WholeStream == part = "client" => Client!StreamIsWhole

\* Notifications: questions are settled once and in order, toasts go.
SettledQuestions == part = "notices" => Notices!QuestionsSettle
EndingToasts == part = "notices" => Notices!ToastsEnd

\* QueryPage: of overlapping runs the last one shows, an active extract is watched.
LatestRun == part = "query" => Query!LatestRunShown
WatchedExtract == part = "query" => Query!ExtractIsWatched

\* TransformPage: a failed registration is taken back.
TakenBackRecipe == part = "transform" => Transforms!FailedRegistrationLeavesNothing

\* RecipeSteps: the steps that are saved mean what the editor shows.
MeantSteps == part = "steps" => Steps!SavedStepsMean

\* What a page shows as current is current, in whatever order its answers come: the
\* recipe of a route, the destination of a load, the inputs of a script, the tree of folders, the columns of a
\* validation, the log under a title, a page of rows, a line that is being drawn, the
\* text of a memo, the report of a run, and an active run has its poll.
ShownIsCurrent ==
  /\ part = "transform" => Transforms!RouteShowsItsRecipe
  /\ part = "load" => Loads!DestinationIsCurrent
  /\ part = "script" => Scripts!WiredComeFirst
  /\ part = "folders" => Manage!SavedTreeIsShown
  /\ part = "validation" => Validations!ChoicesAreOfFiles
  /\ part = "histories" => Lists!LogIsOfItsRow /\ Lists!OneListLoop
  /\ part = "tables" => Tables!NoEmptyPage
  /\ part = "gestures" => Gestures!GesturesMatch
  /\ part = "memo" => Memos!OlderAnswersAreDropped
  /\ part = "runs" => Watch!ActiveIsWatched /\ Watch!ReportIsOfAnEnd

\* Nothing is left behind: a chip that was not placed, a definition without its chip, a
\* workbook that is off the page, a file that was stored before, a busy button.
NothingLeftBehind ==
  /\ part = "script" => Scripts!UnplacedIsTakenBack
  /\ part = "load" => Loads!FailedLoadLeavesNothing
  /\ part = "files" => Uploads!NoWorkbookForgotten /\ Uploads!QueueIsWhatIsLeft
  /\ part = "runs" => Watch!ButtonsAreOwed

\* The server is told to do what the user meant and no more: of folders and files only
\* those that were agreed to go are gone, a connection keeps its own authentication, and
\* one extract is at work at a time.
MeantIsDone ==
  /\ part = "folders" => Manage!OnlyRemovedIsGone
  /\ part = "tables" => Tables!OnlyAgreedIsDeleted
  /\ part = "connections" => Connections!AuthIsItsOwn
  /\ part = "api" => Api!OneExtractAtATime

-----------------------------------------------------------------------------
\* Scheduler and Calendar: a schedule that is due is started or skipped once, says
\* running only while it has a task, and always has a next time, which is the right one.
DueTimes ==
  /\ part = "schedules" => Schedules!DueIsAnswered
  /\ part = "calendar" => Dates!TimesAreRight

\* OutputSlot: what readers find in the slot of a chip, whoever still writes.
SoundSlot == part = "slot" => Slot!SlotIsSound
=============================================================================
