----------------------------- MODULE ContextStore -----------------------------
(***************************************************************************)
(* The builder contexts in ~/.switchboard and the commands that change     *)
(* them: context add, set, use, dns set and dns clear.  Every command      *)
(* loads the store once to choose its context and once more to change it,  *)
(* and writes the whole file back; nothing locks it.  `add` asks its       *)
(* questions in between.                                                   *)
(*                                                                         *)
(* A field of a context is named by the command that set it, so that a     *)
(* change that is lost shows.                                              *)
(***************************************************************************)
EXTENDS FileContents, Naturals, FiniteSets

CONSTANTS
    CtxCmds,   \* the commands
    Names      \* names of contexts

\* SwitchboardContextStore: a name for the current context, and the contexts.
Stores == [current : Names \cup {Absent},
           contexts : UNION {[known -> SUBSET CtxCmds] : known \in SUBSET Names}]

ASSUME NoStoreOK == {Absent, Torn} \cap Stores = {}

VARIABLES
    store,     \* the file: [current, contexts], Absent or Torn
    cmds       \* each command: where it is, its arguments, what it read and writes

ctxVars == <<store, cmds>>

CtxKinds == {"add", "set", "use", "dnsSet", "dnsClear"}

NewCmd == [at |-> "idle", kind |-> "use", name |-> Absent, use |-> FALSE,
           first |-> Absent, out |-> Absent, alone |-> TRUE]

EmptyStore == [current |-> Absent, contexts |-> [n \in {} |-> {}]]

\* readContextStore: a file that is not there is a store without contexts.
Parsed(file) == IF file = Absent THEN EmptyStore ELSE file

CtxInit ==
    /\ store = Absent
    /\ cmds = [c \in CtxCmds |-> NewCmd]

\* Between the second read of a command and the end of its write.
InWindow(c) == cmds[c].at \in {"decided", "writing"}

Knows(s, n) == n \in DOMAIN s.contexts

\* The context a command is about: the one it names, which must exist unless the
\* command may create it, the one the environment names, or the current one.
Target(kind, s, named, env) ==
    IF named # Absent THEN named
    ELSE IF env # Absent THEN env
    ELSE s.current

Allowed(kind, s, named) ==
    named = Absent \/ Knows(s, named) \/ kind \in {"add", "set", "use"}

\* loadCliRuntime, and the first look of `add` at the name it is given.  A command
\* that is refused here has done nothing.
Load(c) ==
    /\ cmds[c].at = "idle"
    /\ store # Torn
    /\ \E k \in CtxKinds, named \in Names \cup {Absent}, env \in Names \cup {Absent}, u \in BOOLEAN :
        LET s == Parsed(store)
            t == Target(k, s, named, env)
        IN  /\ named = Absent \/ env = Absent
            /\ k = "add" => named # Absent /\ ~Knows(s, named)
            /\ k \in {"add", "set"} \/ ~u
            /\ t # Absent /\ Allowed(k, s, named)
            /\ cmds' = [cmds EXCEPT ![c].kind = k, ![c].name = t, ![c].use = u,
                                    ![c].first = IF k = "add" THEN s ELSE Absent,
                                    ![c].at = "loaded"]
    /\ UNCHANGED store

With(s, n, value) == [m \in DOMAIN s.contexts \cup {n} |-> IF m = n THEN value ELSE s.contexts[m]]

Fields(s, n) == IF Knows(s, n) THEN s.contexts[n] ELSE {}

\* The fields only `dns set` writes, one of which a context has at most.
Token(fields) == {f \in fields : cmds[f].kind = "dnsSet"}

ChosenCurrent(c, s) == IF cmds[c].use \/ s.current = Absent THEN cmds[c].name ELSE s.current

\* The store with the change of a command: add and set give fields to the
\* context and may make it current.
ChangedStore(c, s) ==
    LET n == cmds[c].name
        f == Fields(s, n)
    IN
    CASE cmds[c].kind = "use"      -> [s EXCEPT !.current = n]
      [] cmds[c].kind = "dnsSet"   -> [s EXCEPT !.contexts = With(s, n, (f \ Token(f)) \cup {c})]
      [] cmds[c].kind = "dnsClear" -> [s EXCEPT !.contexts = With(s, n, f \ Token(f))]
      [] OTHER -> [current |-> ChosenCurrent(c, s), contexts |-> With(s, n, f \cup {c})]

\* The context a command needs is not there, or the one it adds is.
Misses(c, s) ==
    \/ cmds[c].kind \in {"use", "dnsClear"} /\ ~Knows(s, cmds[c].name)
    \/ cmds[c].kind = "add" /\ Knows(s, cmds[c].name)

EntersWindow(c, out) ==
    cmds' = [d \in CtxCmds |->
        IF d = c
        THEN [cmds[c] EXCEPT !.at = "decided", !.first = Absent, !.out = out,
                             !.alone = \A x \in CtxCmds : ~InWindow(x)]
        ELSE [cmds[d] EXCEPT !.alone = @ /\ ~InWindow(d)]]

\* Of a command that ended without a write only that is kept.
Ends(c, at) == cmds' = [cmds EXCEPT ![c] = [NewCmd EXCEPT !.at = at, !.kind = cmds[c].kind]]

\* `add` saves the store it read before it asked.
DecideOnFirst(c) ==
    /\ cmds[c].at = "loaded"
    /\ store # Torn
    /\ LET s == IF cmds[c].kind = "add" THEN cmds[c].first ELSE Parsed(store) IN
        IF Misses(c, s) THEN Ends(c, "refused")
        ELSE EntersWindow(c, ChangedStore(c, s))
    /\ UNCHANGED store

\* Reads the store again and makes the change in memory.
Decide(c) ==
    /\ cmds[c].at = "loaded"
    /\ store # Torn
    /\ LET s == Parsed(store) IN
        IF Misses(c, s) THEN Ends(c, "refused")
        ELSE EntersWindow(c, ChangedStore(c, s))
    /\ UNCHANGED store

\* A part of a store does not parse: the command throws, at its first read or its second.
Unreadable(c) ==
    /\ cmds[c].at \in {"idle", "loaded"}
    /\ store = Torn
    /\ Ends(c, "refused")
    /\ UNCHANGED store

StartWriteStore(c) ==
    /\ cmds[c].at = "decided"
    /\ store' = Torn
    /\ cmds' = [cmds EXCEPT ![c].at = "writing"]

EndWriteStore(c) ==
    /\ cmds[c].at = "writing"
    /\ store' = cmds[c].out
    /\ cmds' = [cmds EXCEPT ![c].at = "done", ![c].out = Absent]

\* Cancelled at a question of `add`, or killed: a write is left half done.
Stop(c) ==
    /\ cmds[c].at \in {"loaded", "decided", "writing"}
    /\ Ends(c, IF cmds[c].at = "writing" THEN "tore" ELSE "died")
    /\ UNCHANGED store

CtxNext ==
    \E c \in CtxCmds :
        Load(c) \/ Decide(c) \/ Unreadable(c) \/ StartWriteStore(c) \/ EndWriteStore(c) \/ Stop(c)

CtxSpec == CtxInit /\ [][CtxNext]_ctxVars

\* A context has only fields that commands on it gave it, and one token.
CtxTypeOK ==
    /\ \A c \in CtxCmds :
        /\ cmds[c].at \in {"idle", "loaded", "decided", "writing", "done", "refused", "died", "tore"}
        /\ cmds[c].kind \in CtxKinds
    /\ store \notin {Absent, Torn} =>
        /\ store.current \in Names \cup {Absent}
        /\ \A n \in DOMAIN store.contexts :
            /\ store.contexts[n] \subseteq {c \in CtxCmds : cmds[c].at = "done" /\ cmds[c].name = n}
            /\ Cardinality(Token(store.contexts[n])) <= 1

(***************************************************************************)
(* Properties                                                              *)
(***************************************************************************)

\* Whatever commands overlap, a store that can be read has the context it calls
\* current: every command writes one whole store in which that holds.
CurrentIsThere ==
    store \notin {Absent, Torn} /\ store.current # Absent => Knows(store, store.current)

\* What add, set or dns set put into a context stays there unless another
\* command was between its read and the end of its write at the same time; how
\* long the questions of `add` took does not matter.  A later dns command may
\* replace the token.
ContextChangeIsKept ==
    \A c \in CtxCmds :
        (/\ cmds[c].at = "done" /\ cmds[c].alone /\ cmds[c].kind \in {"add", "set"}
         /\ store # Torn)
            => c \in Fields(Parsed(store), cmds[c].name)

\* Whatever commands share contexts.json, the current context is one of it,
\* and a change that nobody overlapped is kept.
ContextSafe == CtxTypeOK /\ CurrentIsThere /\ ContextChangeIsKept
===============================================================================
