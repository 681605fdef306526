------------------------------ MODULE Packages -------------------------------
(* The package table, memory accounting, reference counters and logging of    *)
(* sc.c and sc_refcount.c, with threads (--enable-pthread) or without.        *)
(* Packages are registered while no additional threads exist (sc.h).  The     *)
(* package -1 stands for memory used outside of any package.                  *)
EXTENDS Integers, FiniteSets, Sequences

CONSTANTS Names,      \* package names other than libsc
          Threads,
          MaxOps,     \* bound on the operations begun by threads
          MaxTable    \* bound on the calls that change the table

VARIABLES pthread,    \* the build has --enable-pthread
          table,      \* sc_packages: slot number -> package
          num,        \* sc_num_packages
          dflt,       \* the default counters, those of package -1
          mutex,      \* package -> thread holding its mutex, or NoThread
          where, op, tmp, \* threads: place, operation [kind, pkg, delta], count read
          live, refs, \* package -> blocks not yet freed, references active
          output,     \* lines written to the log: sequence of [pkg, thread]
          last,       \* outcome of the last change of the table
          ops, changes
vars == <<pthread, table, num, dflt, mutex, where, op, tmp, live, refs, output, last, ops, changes>>

NoThread == "none"
NoOp == [kind |-> "none", pkg |-> -1, delta |-> 0]
alloc == Cardinality(DOMAIN table)
Counters == [mc |-> 0, fc |-> 0, rc |-> 0, abort |-> TRUE]
Unused == [reg |-> FALSE, name |-> "", indent |-> 0, mc |-> 0, fc |-> 0, rc |-> 0, abort |-> FALSE]

sc_package_is_registered(p) == p \in DOMAIN table /\ table[p].reg
Registered == {p \in DOMAIN table : table[p].reg}
Usable == {-1} \cup Registered
counters(p) == IF p = -1 THEN dflt ELSE table[p]
NoPackage(v) == [p \in {-1} |-> v]
With(f, p, v) == [q \in {p} \cup DOMAIN f |-> IF q = p THEN v ELSE f[q]]
Idle == \A t \in Threads : where[t] = "idle"

(* sc_memory_check_noabort: what is wrong with the counters.                  *)
sc_memory_check_noabort(c) == (IF c.rc # 0 THEN 1 ELSE 0) + (IF c.mc # c.fc THEN 1 ELSE 0)

(* sc_query_doabort on a given table.                                         *)
sc_query_doabort(tab, p) ==
  IF p = -1 THEN dflt.abort ELSE IF p \in DOMAIN tab /\ tab[p].reg THEN tab[p].abort ELSE TRUE

-----------------------------------------------------------------------------
(* The first unused slot; a full table grows to twice its size plus one.      *)
Grown == [p \in 0 .. 2 * alloc |-> IF p \in DOMAIN table THEN table[p] ELSE Unused]
Registering(name) ==
  LET free == {p \in DOMAIN table : ~table[p].reg}
      id == IF free = {} THEN alloc ELSE CHOOSE p \in free : \A q \in free : p <= q
  IN [id |-> id, table |-> [(IF free = {} THEN Grown ELSE table)
                              EXCEPT ![id] = [Unused EXCEPT !.reg = TRUE, !.name = name, !.abort = TRUE]]]

Change(what) == /\ last.abort = FALSE /\ Idle /\ changes < MaxTable /\ changes' = changes + 1
                /\ last' = what /\ UNCHANGED <<pthread, where, op, tmp, output, ops>>
Outcome(call, p, errors, abort) == [call |-> call, pkg |-> p, errors |-> errors, abort |-> abort, asked |-> TRUE, leaked |-> FALSE]

(* A name that is registered already is refused with an abort; a new package  *)
(* starts with all counters at zero.                                          *)
sc_package_register(name) ==
  IF \E p \in Registered : table[p].name = name
  THEN Change(Outcome("register", -1, 0, TRUE)) /\ UNCHANGED <<table, num, dflt, mutex, live, refs>>
  ELSE LET r == Registering(name) IN
       /\ Change(Outcome("register", r.id, 0, FALSE))
       /\ table' = r.table /\ num' = num + 1
       /\ mutex' = With(mutex, r.id, NoThread)
       /\ live' = With(live, r.id, 0) /\ refs' = With(refs, r.id, 0) /\ UNCHANGED dflt

(* sc_init registers libsc itself.                                            *)
sc_init == num = 0 /\ sc_package_register("libsc")

sc_package_set_abort_alloc_mismatch(p, b) ==
  /\ Change(Outcome("set_abort", p, 0, FALSE))
  /\ IF p = -1 THEN dflt' = [dflt EXCEPT !.abort = b] /\ UNCHANGED table
     ELSE table' = [table EXCEPT ![p].abort = b] /\ UNCHANGED dflt
  /\ UNCHANGED <<num, mutex, live, refs>>

(* sc_package_unregister_noabort.                                             *)
Unregistered(tab, p) == [tab EXCEPT ![p].reg = FALSE, ![p].mc = 0, ![p].fc = 0, ![p].rc = 0, ![p].name = ""]
Leaked(p) == live[p] # 0 \/ refs[p] # 0

(* sc_package_unregister decides on the abort after unregistering.            *)
sc_package_unregister(p) ==
  LET errors == sc_memory_check_noabort(table[p])
      after == Unregistered(table, p)
  IN /\ Change([Outcome("unregister", p, errors, errors > 0 /\ sc_query_doabort(after, p))
                  EXCEPT !.asked = table[p].abort, !.leaked = Leaked(p)])
     /\ table' = after /\ num' = num - 1
     /\ mutex' = [mutex EXCEPT ![p] = NoThread]
     /\ live' = [live EXCEPT ![p] = 0] /\ refs' = [refs EXCEPT ![p] = 0] /\ UNCHANGED dflt

(* sc_finalize unregisters what is left, checks the default counters, which   *)
(* it does not reset, and frees the table.                                    *)
sc_finalize ==
  LET bad == {p \in Registered : sc_memory_check_noabort(table[p]) > 0}
      errors == Cardinality(bad) + sc_memory_check_noabort(dflt)
  IN /\ num > 0
     /\ Change([Outcome("finalize", -1, errors, errors > 0 /\ dflt.abort)
                  EXCEPT !.asked = dflt.abort, !.leaked = \E p \in Usable : Leaked(p)])
     /\ table' = <<>> /\ num' = 0 /\ UNCHANGED dflt
     /\ mutex' = NoPackage(NoThread) /\ live' = NoPackage(live[-1]) /\ refs' = NoPackage(refs[-1])

(* sc_memory_check; sc_query_doabort is asked while the package is there.     *)
sc_memory_check(p) ==
  LET errors == sc_memory_check_noabort(counters(p))
  IN /\ Change([Outcome("check", p, errors, errors > 0 /\ sc_query_doabort(table, p))
                  EXCEPT !.asked = counters(p).abort, !.leaked = Leaked(p)])
     /\ UNCHANGED <<table, num, dflt, mutex, live, refs>>

(* Indentation is kept in builds without threads only.                        *)
sc_log_indent_push_count(p, count) ==
  /\ ~pthread /\ Change(Outcome("push", p, 0, FALSE))
  /\ table' = [table EXCEPT ![p].indent = @ + (IF count > 0 THEN count ELSE 0)]
  /\ UNCHANGED <<num, dflt, mutex, live, refs>>
sc_log_indent_pop_count(p, count) ==
  LET new == table[p].indent - (IF count > 0 THEN count ELSE 0) IN
  /\ ~pthread /\ Change(Outcome("pop", p, 0, FALSE))
  /\ table' = [table EXCEPT ![p].indent = IF new > 0 THEN new ELSE 0]
  /\ UNCHANGED <<num, dflt, mutex, live, refs>>

-----------------------------------------------------------------------------
(* Operations of threads.  Without pthread there is one thread at a time.     *)
Pending(p, kind) == Cardinality({t \in Threads : op[t].kind = kind /\ op[t].pkg = p /\ op[t].delta = 1})

Begin(t, kind, p, delta) ==
  /\ where[t] = "idle" /\ last.abort = FALSE /\ num > 0 /\ ops < MaxOps /\ ops' = ops + 1
  /\ pthread \/ Idle
  /\ op' = [op EXCEPT ![t] = [kind |-> kind, pkg |-> p, delta |-> delta]]
  /\ where' = [where EXCEPT ![t] = "lock"]
  /\ UNCHANGED <<pthread, table, num, dflt, mutex, tmp, output, last, changes>>

(* sc_malloc and sc_calloc allocate first and count then.  Memory of size     *)
(* zero may be NULL, which is not counted; a string has size one at least.    *)
sc_malloc(t, p) == \E delta \in 0 .. 1 : /\ Begin(t, "malloc", p, delta)
                                         /\ live' = [live EXCEPT ![p] = @ + delta] /\ UNCHANGED refs
sc_calloc(t, p) == sc_malloc(t, p)
sc_strdup(t, p) == Begin(t, "malloc", p, 1) /\ live' = [live EXCEPT ![p] = @ + 1] /\ UNCHANGED refs

(* sc_free counts first; freeing NULL returns right away.                     *)
sc_free(t, p) == /\ live[p] > Pending(p, "malloc") + Pending(p, "free")
                 /\ Begin(t, "free", p, 1) /\ UNCHANGED <<live, refs>>

(* sc_realloc of NULL allocates, to size zero frees, and counts nothing else. *)
sc_realloc(t, p) == sc_malloc(t, p) \/ sc_free(t, p)

(* sc_refcount_init and the sc_refcount_unref that drops the last reference.  *)
sc_refcount_init(t, p) == Begin(t, "init", p, 1) /\ refs' = [refs EXCEPT ![p] = @ + 1] /\ UNCHANGED live
sc_refcount_unref(t, p) == /\ refs[p] > Pending(p, "init")
                           /\ Begin(t, "unref", p, 1) /\ refs' = [refs EXCEPT ![p] = @ - 1] /\ UNCHANGED live

(* sc_log under the package's mutex, one part of the line after the other.    *)
sc_log(t, p) == Begin(t, "log", p, 1) /\ UNCHANGED <<live, refs>>

At(t, from, to) == /\ where[t] = from /\ where' = [where EXCEPT ![t] = to]
                   /\ UNCHANGED <<pthread, num, refs, last, ops, changes>>

(* Faulty variants: the mutex is taken for messages or for counters only.     *)
LockToLog(t) == /\ At(t, "lock", "read")
                /\ IF pthread /\ op[t].kind = "log"
                   THEN mutex[op[t].pkg] = NoThread /\ mutex' = [mutex EXCEPT ![op[t].pkg] = t]
                   ELSE UNCHANGED mutex
                /\ UNCHANGED <<table, dflt, op, tmp, live, output>>
LockToCount(t) == /\ At(t, "lock", "read")
                  /\ IF pthread /\ op[t].kind # "log"
                     THEN mutex[op[t].pkg] = NoThread /\ mutex' = [mutex EXCEPT ![op[t].pkg] = t]
                     ELSE UNCHANGED mutex
                  /\ UNCHANGED <<table, dflt, op, tmp, live, output>>

sc_package_lock(t) == /\ At(t, "lock", "read")
                      /\ IF pthread THEN mutex[op[t].pkg] = NoThread /\ mutex' = [mutex EXCEPT ![op[t].pkg] = t]
                         ELSE UNCHANGED mutex
                      /\ UNCHANGED <<table, dflt, op, tmp, live, output>>

(* The increment under the mutex, as a read and a write.                      *)
Field(kind) == CASE kind = "malloc" -> "mc" [] kind = "free" -> "fc" [] OTHER -> "rc"
Fetch(t) == /\ op[t].kind # "log" /\ At(t, "read", "write")
            /\ tmp' = [tmp EXCEPT ![t] = counters(op[t].pkg)[Field(op[t].kind)]]
            /\ UNCHANGED <<table, dflt, mutex, op, live, output>>
sc_package_rc_count_add(t) ==
  LET o == op[t]
      f == Field(o.kind)
      v == tmp[t] + (IF o.kind = "unref" THEN -1 ELSE o.delta)
  IN /\ o.kind # "log" /\ At(t, "write", "unlock")
     /\ IF o.pkg = -1 THEN dflt' = [dflt EXCEPT ![f] = v] /\ UNCHANGED table
        ELSE table' = [table EXCEPT ![o.pkg][f] = v] /\ UNCHANGED dflt
     /\ UNCHANGED <<mutex, op, tmp, live, output>>

(* sc_log_handler writes the beginning of the line and then the message.      *)
LogPart(t, from, to) == /\ op[t].kind = "log" /\ At(t, from, to)
                        /\ output' = Append(output, [pkg |-> op[t].pkg, thread |-> t])
                        /\ UNCHANGED <<table, dflt, mutex, op, tmp, live>>
sc_log_handler(t) == LogPart(t, "read", "write") \/ LogPart(t, "write", "unlock")

(* Faulty variant: the mutex is not released after a message.                 *)
UnlockCountOnly(t) ==
  /\ At(t, "unlock", "idle")
  /\ mutex' = IF pthread /\ op[t].kind # "log" THEN [mutex EXCEPT ![op[t].pkg] = NoThread] ELSE mutex
  /\ live' = IF op[t].kind = "free" THEN [live EXCEPT ![op[t].pkg] = @ - 1] ELSE live
  /\ tmp' = [tmp EXCEPT ![t] = 0] /\ op' = [op EXCEPT ![t] = NoOp] /\ UNCHANGED <<table, dflt, output>>

(* sc_package_unlock, and the end of the operation: sc_free frees last.       *)
sc_package_unlock(t) ==
  /\ At(t, "unlock", "idle")
  /\ mutex' = IF pthread THEN [mutex EXCEPT ![op[t].pkg] = NoThread] ELSE mutex
  /\ live' = IF op[t].kind = "free" THEN [live EXCEPT ![op[t].pkg] = @ - 1] ELSE live
  /\ tmp' = [tmp EXCEPT ![t] = 0] /\ op' = [op EXCEPT ![t] = NoOp] /\ UNCHANGED <<table, dflt, output>>

-----------------------------------------------------------------------------
Init == /\ pthread \in BOOLEAN /\ table = <<>> /\ num = 0 /\ dflt = Counters
        /\ mutex = NoPackage(NoThread) /\ live = NoPackage(0) /\ refs = NoPackage(0)
        /\ where = [t \in Threads |-> "idle"] /\ op = [t \in Threads |-> NoOp] /\ tmp = [t \in Threads |-> 0]
        /\ output = <<>> /\ last = Outcome("none", -1, 0, FALSE) /\ ops = 0 /\ changes = 0

Operation(t, p) == \/ sc_malloc(t, p) \/ sc_calloc(t, p) \/ sc_strdup(t, p) \/ sc_realloc(t, p)
                   \/ sc_free(t, p) \/ sc_refcount_init(t, p)
                   \/ sc_refcount_unref(t, p) \/ sc_log(t, p)
Step(t) == sc_package_lock(t) \/ Fetch(t) \/ sc_package_rc_count_add(t) \/ sc_log_handler(t) \/ sc_package_unlock(t)
TableChange == \/ sc_init \/ sc_finalize
               \/ num > 0 /\ \E n \in Names : sc_package_register(n)
               \/ \E p \in Registered : \/ sc_package_unregister(p)
                                        \/ sc_log_indent_push_count(p, 1) \/ sc_log_indent_pop_count(p, 2)
               \/ \E p \in Usable : sc_package_set_abort_alloc_mismatch(p, FALSE) \/ sc_memory_check(p)
Done == Idle /\ UNCHANGED vars

Next == \/ TableChange \/ Done
        \/ \E t \in Threads : Step(t) \/ \E p \in Usable : Operation(t, p)
Spec == Init /\ [][Next]_vars

-----------------------------------------------------------------------------
(* A counter differs from what is really in use only by the operations that   *)
(* have not counted yet: no increment is lost between threads.                *)
CountsAreExact ==
  \A p \in Usable :
    LET late(kind) == Cardinality({t \in Threads : op[t].kind = kind /\ op[t].pkg = p /\ op[t].delta = 1
                                                   /\ where[t] \in {"lock", "read", "write"}})
        freeing == Cardinality({t \in Threads : op[t].kind = "free" /\ op[t].pkg = p /\ where[t] = "unlock"})
    IN /\ counters(p).mc - counters(p).fc = live[p] - late("malloc") - freeing
       /\ counters(p).rc = refs[p] - late("init") + late("unref")

(* Checking, unregistering and finalizing report an error exactly if memory   *)
(* or a reference is left over, however often the slot was used before.       *)
LeaksAreReported == last.call \in {"check", "unregister", "finalize"} => (last.errors > 0) = last.leaked

(* The table has no package twice, counts its packages, and gave out no slot  *)
(* beyond their number (the assertions at the end of sc_package_register).    *)
TableIsSound == /\ num = Cardinality(Registered)
                /\ \A p, q \in Registered : table[p].name = table[q].name => p = q
                /\ last.call = "register" /\ ~last.abort => last.pkg < num

(* The lines of one package are not torn apart by another thread: its parts   *)
(* come in pairs, the beginning and the message, of one thread.               *)
PartsUpTo(out, p, i) == {k \in 1 .. i : out[k].pkg = p}
Paired(out) ==
  \A i, j \in 1 .. Len(out) :
    (/\ i < j /\ out[j].pkg = out[i].pkg /\ \A k \in i + 1 .. j - 1 : out[k].pkg # out[i].pkg
     /\ Cardinality(PartsUpTo(out, out[i].pkg, i)) % 2 = 1) => out[i].thread = out[j].thread
LinesAreWhole == Paired(output)

(* sc_package_unregister aborts on a mismatch only if it was asked to         *)
(* (sc_package_set_abort_alloc_mismatch in sc.h).                             *)
AbortsAsAsked == last.call \in {"unregister", "finalize"} /\ last.abort => last.asked

(* The assertion of sc_log_indent_push_count and sc_log_indent_pop_count.     *)
IndentAssertion == \A p \in Registered : p < num
=============================================================================
