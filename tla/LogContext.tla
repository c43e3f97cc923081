------------------------------- MODULE LogContext ------------------------------
(***************************************************************************)
(* The configuration of the log: log::context saves it and replaces it,    *)
(* its destructor restores what it saved, log::write_message uses what is  *)
(* there. A configuration stands for the writer it refers to, None for the *)
(* default one, whose writer does nothing. The writer of a context is an   *)
(* object of the thread, created before the context and destroyed after    *)
(* it, as in main() of the client and in the tests of the log.             *)
(***************************************************************************)
EXTENDS Naturals, Sequences, SequencesExt

CONSTANTS
    Threads, Writers, None,
    Nested    \* contexts end in the reverse order of their beginning, across
              \* all threads; within a thread they do, as automatic objects

ASSUME ConfigAssumption == None \notin Threads \cup Writers /\ Nested \in BOOLEAN

VARIABLES
    log_cfg,    \* the writer of the global configuration
    lock,       \* the thread that holds log_mutex to write a message, or None
    using,      \* the writer it is writing to
    scopes,     \* for each thread its writers, in the order of their creation
    order       \* the open contexts of all threads, in the order of opening

vars == <<log_cfg, lock, using, scopes, order>>

Configs == Writers \cup {None}
Scope == [writer : Writers, m_old_cfg : Configs, state : {"created", "open", "closed"}]

TypeOK == /\ log_cfg \in Configs /\ using \in Configs
          /\ lock \in Threads \cup {None}
          /\ lock = None => using = None
          /\ scopes \in [Threads -> Seq(Scope)]
          /\ order \in Seq(Writers)

Init == /\ log_cfg = None /\ lock = None /\ using = None
        /\ scopes = [t \in Threads |-> <<>>] /\ order = <<>>

InScope(t) == {scopes[t][i].writer : i \in DOMAIN scopes[t]}
Alive == UNION {InScope(t) : t \in Threads}
Open == {order[i] : i \in DOMAIN order}
Top(t) == Last(scopes[t])
Position(w) == CHOOSE n \in DOMAIN order : order[n] = w
SetTop(t, scope) == scopes' = [scopes EXCEPT ![t][Len(scopes[t])] = scope]

\* The thread does something else than to write a message; a thread that waits
\* for log_mutex has not begun the step yet.
Free(t) == lock # t

--------------------------------------------------------------------------------
\* A new object may get the address of one that was destroyed.
CreateWriter(t) == /\ Free(t)
                   /\ scopes[t] # <<>> => Top(t).state = "open"
                   /\ \E w \in Writers \ Alive :
                         scopes' = [scopes EXCEPT ![t] =
                             Append(@, [writer |-> w, m_old_cfg |-> None, state |-> "created"])]
                   /\ UNCHANGED <<log_cfg, lock, using, order>>

\* context::context: configure() exchanges the configuration under the lock.
OpenContext(t) == /\ lock = None
                  /\ scopes[t] # <<>> /\ Top(t).state = "created"
                  /\ SetTop(t, [Top(t) EXCEPT !.m_old_cfg = log_cfg, !.state = "open"])
                  /\ log_cfg' = Top(t).writer
                  /\ order' = Append(order, Top(t).writer)
                  /\ UNCHANGED <<lock, using>>

\* Mutated form of CloseContext: the mutex is not taken.
CloseContext_NoLock(t) == /\ Free(t)
                          /\ scopes[t] # <<>> /\ Top(t).state = "open"
                          /\ Nested => Last(order) = Top(t).writer
                          /\ SetTop(t, [Top(t) EXCEPT !.state = "closed"])
                          /\ log_cfg' = Top(t).m_old_cfg
                          /\ order' = RemoveAt(order, Position(Top(t).writer))
                          /\ UNCHANGED <<lock, using>>

\* Mutated form of CloseContext: the default configuration is restored.
CloseContext_Default(t) == /\ lock = None
                           /\ scopes[t] # <<>> /\ Top(t).state = "open"
                           /\ Nested => Last(order) = Top(t).writer
                           /\ SetTop(t, [Top(t) EXCEPT !.state = "closed"])
                           /\ log_cfg' = None
                           /\ order' = RemoveAt(order, Position(Top(t).writer))
                           /\ UNCHANGED <<lock, using>>

\* context::~context.
CloseContext(t) == /\ lock = None
                   /\ scopes[t] # <<>> /\ Top(t).state = "open"
                   /\ Nested => Last(order) = Top(t).writer
                   /\ SetTop(t, [Top(t) EXCEPT !.state = "closed"])
                   /\ log_cfg' = Top(t).m_old_cfg
                   /\ order' = RemoveAt(order, Position(Top(t).writer))
                   /\ UNCHANGED <<lock, using>>

DestroyWriter(t) == /\ Free(t)
                    /\ scopes[t] # <<>> /\ Top(t).state = "closed"
                    /\ scopes' = [scopes EXCEPT ![t] = Front(@)]
                    /\ UNCHANGED <<log_cfg, lock, using, order>>

\* write_message locks, calls the writer, and unlocks.
BeginWrite(t) == /\ lock = None
                 /\ lock' = t /\ using' = log_cfg
                 /\ UNCHANGED <<log_cfg, scopes, order>>

\* Mutated form of EndWrite: it goes on using the writer.
EndWrite_KeepsWriter(t) == /\ lock = t
                           /\ lock' = None
                           /\ UNCHANGED <<log_cfg, using, scopes, order>>

EndWrite(t) == /\ lock = t
               /\ lock' = None /\ using' = None
               /\ UNCHANGED <<log_cfg, scopes, order>>

Step(t) == \/ CreateWriter(t) \/ OpenContext(t) \/ CloseContext(t)
           \/ DestroyWriter(t) \/ BeginWrite(t) \/ EndWrite(t)

Next == \E t \in Threads : Step(t)

Spec == Init /\ [][Next]_vars

--------------------------------------------------------------------------------
\* A message goes to a writer whose context is open, or to nobody: not to one
\* that was created but not installed, and not to one after its context, which
\* its thread may destroy at any moment.
WriterIsOpen == lock # None => using \in Open \cup {None}

\* The configuration in force is that of the innermost open context, and each
\* open context restores that of the one around it.
ConfigIsInnermost ==
    /\ log_cfg = (IF order = <<>> THEN None ELSE Last(order))
    /\ \A t \in Threads : \A i \in DOMAIN scopes[t] :
          scopes[t][i].state = "open" =>
              LET n == Position(scopes[t][i].writer)
              IN  scopes[t][i].m_old_cfg = (IF n = 1 THEN None ELSE order[n - 1])
================================================================================
