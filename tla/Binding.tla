------------------------------- MODULE Binding -------------------------------
(***************************************************************************)
(* The .NET binding (LevelDB.net): managed objects that own native ones      *)
(* through LevelDBHandle, disposed by the client or finalized by the garbage *)
(* collector, and the native arrays of GetRaw.                               *)
(*                                                                         *)
(* The client is one thread and finalizers run on another.  The options hold *)
(* the parts a database uses (its cache, comparator and logger).             *)
(***************************************************************************)
EXTENDS Integers, FiniteSets, Sequences, SequencesExt

CONSTANTS
  Dbs, Iters, Snaps, \* objects the client may make
  DbParts,             \* the parts of the options, in the order a database frees them
  Opts,              \* the Options object
  ChildLimit,        \* iterators and snapshots that are ever made
  Lengths,           \* bytes of a value that GetRaw returns
  ElementSizes,      \* sizeof_T of the element types
  DebugBuild,        \* Debug.Assert is compiled in
  MaxReads           \* calls on one native array

ASSUME BindingAssumption == 0 \notin ElementSizes /\ MaxReads \in Nat

VARIABLES
  managed,  \* per object, the managed half
  native,   \* per object, the native half: "none", "live" or "dead"
  parent,   \* the database of an iterator or snapshot
  cleared,  \* databases whose weak references are cleared
  todo,     \* per thread, the steps of Dispose left to do
  mishaps,  \* history: uses of a native object that is gone
  orderly,  \* history: the client has kept to the using-pattern
  array     \* a NativeArray<T> with its enumerator

handleVars == <<managed, native, parent, cleared, todo, mishaps, orderly>>
bindVars == <<handleVars, array>>

PartSet == Range(DbParts)
Children == Iters \cup Snaps
Managed == Dbs \cup Children \cup PartSet \cup {Opts}
Client == "client"
Finalizer == "finalizer"

-----------------------------------------------------------------------------
(* LevelDBHandle. *)

Unmade == [made |-> FALSE, held |-> FALSE, handle |-> FALSE, disposed |-> FALSE,
           suppressed |-> FALSE, queued |-> FALSE, finalized |-> FALSE]
Fresh == [Unmade EXCEPT !.made = TRUE, !.held = TRUE, !.handle = TRUE]

\* What a database does after leveldb_close: Dispose of every part.
PartsDisposed == FlattenSeq([i \in DOMAIN DbParts |-> <<<<"test", DbParts[i]>>, <<"suppress", DbParts[i]>>>>])

\* Mutant: the parts are disposed of before the database is closed.
FreePartsFirst(o) == IF o \in Dbs THEN PartsDisposed \o <<<<"free", o>>>> ELSE <<<<"free", o>>>>

FreeUnManagedObjects(o) == <<<<"free", o>>>> \o (IF o \in Dbs THEN PartsDisposed ELSE <<>>)

Freed(o) == FreeUnManagedObjects(o) \o <<<<"zero", o>>, <<"flag", o>>>>

\* The steps of Dispose(bool), as its tests find the object.
DisposeSteps(o) ==
  IF managed[o].disposed THEN <<>>
  ELSE IF managed[o].handle THEN Freed(o) ELSE <<<<"flag", o>>>>

BindInit ==
  /\ \E heldParts \in BOOLEAN :
       managed = [o \in Managed |-> IF o = Opts THEN Fresh
                                    ELSE IF o \in PartSet THEN [Fresh EXCEPT !.held = heldParts]
                                    ELSE Unmade]
  /\ native = [o \in Managed |-> IF o \in PartSet \cup {Opts} THEN "live" ELSE "none"]
  /\ parent = [c \in Children |-> CHOOSE d \in Dbs : TRUE]
  /\ cleared = {}
  /\ todo = [t \in {Client, Finalizer} |-> <<>>]
  /\ mishaps = {}
  /\ orderly = TRUE

ClientFree == todo[Client] = <<>>
OpenDbs == {d \in Dbs : native[d] = "live"}

-----------------------------------------------------------------------------
(* The client. *)

\* new DB(options, name): if leveldb_open fails, the constructor throws and
\* leaves an object without a handle that only the collector knows.
OpenDb(d, ok) ==
  /\ ClientFree /\ ~managed[d].made
  /\ managed[Opts].held /\ managed[Opts].handle
  /\ managed' = [managed EXCEPT ![d] = IF ok THEN Fresh ELSE [Unmade EXCEPT !.made = TRUE]]
  /\ native' = [native EXCEPT ![d] = IF ok THEN "live" ELSE "none"]
  /\ orderly' = (orderly /\ \A p \in PartSet : native[p] = "live"
                         /\ \A e \in Dbs : native[e] = "none")
  /\ UNCHANGED <<parent, cleared, todo, mishaps>>

\* CreateIterator, CreateSnapshot and, with both, GetEnumerator.
CreateChild(c, d) ==
  /\ ClientFree /\ ~managed[c].made
  /\ Cardinality({k \in Children : managed[k].made}) < ChildLimit
  /\ managed[d].held /\ managed[d].handle
  /\ managed' = [managed EXCEPT ![c] = Fresh]
  /\ native' = [native EXCEPT ![c] = "live"]
  /\ parent' = [parent EXCEPT ![c] = d]
  /\ UNCHANGED <<cleared, todo, mishaps, orderly>>

\* A database is closed after its children and parts are left to it.
InOrder(o) ==
  /\ o \in Dbs => \A c \in Children : parent[c] = o => native[c] # "live"
  /\ o \in PartSet => OpenDbs = {}

\* Dispose(), and DB.Close.
Dispose(o) ==
  /\ ClientFree /\ managed[o].held
  /\ todo' = [todo EXCEPT ![Client] = <<<<"test", o>>, <<"suppress", o>>>>]
  /\ orderly' = (orderly /\ InOrder(o))
  /\ UNCHANGED <<managed, native, parent, cleared, mishaps>>

DropReference(o) ==
  /\ ClientFree /\ managed[o].held
  /\ managed' = [managed EXCEPT ![o].held = FALSE]
  /\ UNCHANGED <<native, parent, cleared, todo, mishaps, orderly>>

-----------------------------------------------------------------------------
(* Steps of Dispose, on either thread. *)

When(condition, t, o, kind) ==
  IF condition THEN {[by |-> t, o |-> o, kind |-> kind]} ELSE {}

\* The call that destroys the native object: leveldb_close and the rest.
\* SnapShot asks its parent for the handle, if the weak reference still leads there.
Destroyed(o) ==
  IF o \in Snaps /\ parent[o] \in cleared THEN native[o] ELSE "dead"

Faulty(t, o) ==
  When(native[o] = "dead", t, o, "again")
    \cup When(o \in PartSet /\ OpenDbs # {}, t, o, "used by an open database")
    \cup When(o \in Iters /\ native[parent[o]] # "live", t, o, "database gone")
    \cup When(o \in Snaps /\ parent[o] \notin cleared /\ native[parent[o]] # "live", t, o, "database gone")

Then(t, steps) == todo' = [todo EXCEPT ![t] = steps \o Tail(@)]

DisposeStep(t) ==
  /\ todo[t] # <<>>
  /\ LET s == Head(todo[t])[1]
         o == Head(todo[t])[2]
     IN  \/ /\ s = "test" /\ Then(t, DisposeSteps(o))
            /\ UNCHANGED <<managed, native, mishaps>>
         \/ /\ s = "free" /\ Then(t, <<>>)
            /\ native' = [native EXCEPT ![o] = Destroyed(o)]
            /\ mishaps' = mishaps \cup Faulty(t, o)
            /\ UNCHANGED managed
         \/ /\ s \in {"zero", "flag", "suppress"} /\ Then(t, <<>>)
            /\ managed' = [managed EXCEPT ![o] =
                 CASE s = "zero" -> [@ EXCEPT !.handle = FALSE]
                   [] s = "flag" -> [@ EXCEPT !.disposed = TRUE]
                   [] s = "suppress" -> [@ EXCEPT !.suppressed = TRUE, !.queued = FALSE]]
            /\ UNCHANGED <<native, mishaps>>
  /\ UNCHANGED <<parent, cleared, orderly>>

-----------------------------------------------------------------------------
(* The garbage collector (external): what the client no longer reaches is      *)
(* queued for its finalizer, all at once, and weak references to it are         *)
(* cleared; finalizers run one at a time, in any order.                         *)

Reached ==
  LET roots == {o \in Managed : managed[o].held \/ managed[o].queued}
                 \cup UNION {{s[2] : s \in Range(todo[t])} : t \in DOMAIN todo}
  IN  roots \cup (IF roots \cap (Dbs \cup {Opts}) # {} THEN PartSet ELSE {})

Collect ==
  LET gone == {o \in Managed : managed[o].made /\ o \notin Reached}
      due == {o \in gone : ~managed[o].suppressed /\ ~managed[o].queued /\ ~managed[o].finalized}
  IN  /\ due # {} \/ ~(gone \cap Dbs \subseteq cleared)
      /\ managed' = [o \in Managed |-> IF o \in due THEN [managed[o] EXCEPT !.queued = TRUE] ELSE managed[o]]
      /\ cleared' = cleared \cup (gone \cap Dbs)
      /\ orderly' = (orderly /\ \A o \in due \cap (Dbs \cup Children) : ~managed[o].handle)
      /\ UNCHANGED <<native, parent, todo, mishaps>>

RunFinalizer(o) ==
  /\ todo[Finalizer] = <<>> /\ managed[o].queued
  /\ managed' = [managed EXCEPT ![o].queued = FALSE, ![o].finalized = TRUE]
  /\ todo' = [todo EXCEPT ![Finalizer] = <<<<"test", o>>>>]
  /\ UNCHANGED <<native, parent, cleared, mishaps, orderly>>

HandlesNext ==
  \/ \E d \in Dbs, ok \in BOOLEAN : OpenDb(d, ok)
  \/ \E c \in Children, d \in Dbs : CreateChild(c, d)
  \/ \E o \in Managed : Dispose(o) \/ DropReference(o) \/ RunFinalizer(o)
  \/ \E t \in {Client, Finalizer} : DisposeStep(t)
  \/ Collect

-----------------------------------------------------------------------------
(* NativeArray<T>: the value GetRaw returns, as elements of some bytes each,    *)
(* and its enumerator, which the client may call in any order.                  *)

NoArray == [length |-> 0, size |-> 1, count |-> 0, current |-> 0, state |-> 0,
            moved |-> 0, more |-> TRUE, reads |-> {}, calls |-> 0]

ArrayInit == array = NoArray

\* Mutant: a part of an element counts as one.
ElementCountUp(bytes, size) == (bytes + size - 1) \div size

\* NativePointer.Diff, of two pointers so many bytes apart.
ElementCount(bytes, size) == bytes \div size

Enumerate(a) == [a EXCEPT !.current = 0, !.state = 0, !.moved = 0, !.more = TRUE]

\* DB.GetRaw takes the whole elements and leaves the rest of the value out.
GetRaw(length, size) ==
  /\ array.calls = 0
  /\ array' = [NoArray EXCEPT !.length = length, !.size = size, !.calls = 1,
                              !.count = length \div size]

Call(a) == array.calls \in 1 .. MaxReads /\ array' = [a EXCEPT !.calls = @ + 1]

\* To a NativeArray of bytes and back to an array of another type; a debug build
\* does not survive a size that leaves a rest.
ConvertArray(size) ==
  /\ DebugBuild => (array.count * array.size) % size = 0
  /\ Call(Enumerate([array EXCEPT !.size = size, !.count = ElementCount(array.count * array.size, size)]))

GetEnumerator == Call(Enumerate(array))

\* The states of MoveNext: before the first element, within, after the last.  Of
\* an array without elements the first call returns false in state 1, and the next
\* goes on past the end.
Step(a) ==
  CASE a.state = 0 -> [a EXCEPT !.state = 1]
    [] a.state = 1 -> LET next == [a EXCEPT !.current = @ + a.size]
                      IN  IF next.current = a.count * a.size THEN [next EXCEPT !.state = 2] ELSE next
    [] OTHER -> a

MoveNext ==
  LET a == Step(array)
      more == a.state # 2 /\ a.current # a.count * a.size
  IN  Call([a EXCEPT !.more = more, !.moved = @ + IF more THEN 1 ELSE 0])

ReadAt(offset) == Call([array EXCEPT !.reads = @ \cup {offset .. offset + array.size - 1}])

\* Current throws unless the state is 1.
Current == array.state = 1 /\ ReadAt(array.current)

\* The indexer throws for an index that is not below the count.
ItemAt(i) == i < array.count /\ ReadAt(i * array.size)

ArrayNext ==
  \/ \E length \in Lengths, size \in ElementSizes : GetRaw(length, size)
  \/ \E size \in ElementSizes : ConvertArray(size)
  \/ GetEnumerator \/ MoveNext \/ Current
  \/ \E i \in 0 .. Max(Lengths) : ItemAt(i)

-----------------------------------------------------------------------------
(* No native database, iterator, snapshot or options object is destroyed       *)
(* twice, whatever is disposed of again, dropped or finalized, and although    *)
(* Dispose is not atomic (LevelDBHandle.Dispose, GC.SuppressFinalize).         *)
NeverFreedTwice == \A m \in mishaps : m.kind = "again" => m.o \in PartSet

(* A client that disposes of iterators and snapshots before their database,     *)
(* leaves the parts to it, opens one database with the options and leaves no    *)
(* database, iterator or snapshot to the collector never has a native object    *)
(* used after it is gone: DB.FreeUnManagedObjects closes the database "first".  *)
OrderlyIsSafe == orderly => mishaps = {}

(* What was disposed of or finalized has given up its native object; only a     *)
(* snapshot whose database the collector has claimed keeps it.                  *)
DisposedFreed ==
  \A o \in Managed :
    managed[o].disposed /\ native[o] = "live" => o \in Snaps /\ parent[o] \in cleared

(* Handles as a whole: freed, once, and not while in use.                       *)
HandlesSound == NeverFreedTwice /\ OrderlyIsSafe /\ DisposedFreed

(* While a database is open its cache, comparator and logger exist: "it's       *)
(* critical that the database be closed first, as the logger and cache may      *)
(* depend on it" (DB.cs:385).  Finalizers run in any order, and two databases   *)
(* opened with the same options share their parts: a finalizer breaks this.     *)
PartsOutliveDb ==
  \A m \in mishaps : m.by = Finalizer => m.kind # "used by an open database"

(* The elements that are read lie within the bytes of the value, in whatever     *)
(* order the client calls the enumerator and the indexer, also when the length   *)
(* is not a multiple of the element size and after a conversion to a type of     *)
(* another size (NativeArray<T>, DB.GetRaw).                                     *)
ArrayReadsInside == \A r \in array.reads : r \subseteq 0 .. array.length - 1

(* MoveNext returns true once for every element, however often it is called.    *)
EnumeratesAll ==
  /\ array.moved <= array.count
  /\ ~array.more => array.moved = array.count

(* Native arrays as a whole: each element is read, and nothing beyond them.  An   *)
(* array without elements is not read through its enumerator in this way: see     *)
(* EmptyArraySound.                                                              *)
ArraySound == array.count > 0 => ArrayReadsInside /\ EnumeratesAll

(* The same of an array that may be empty.  It does not hold: Current reads it    *)
(* after the first MoveNext, and a second MoveNext returns true.                  *)
EmptyArraySound == ArrayReadsInside /\ EnumeratesAll
=============================================================================
