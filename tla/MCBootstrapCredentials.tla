----------------------- MODULE MCBootstrapCredentials -----------------------
(* One- and two-item documents: lawful items, and items wrong in one field. *)
EXTENDS BootstrapCredentials

MCWords == {"a", "b", "*"}

Odd == {[word |-> "a", form |-> f] : f \in Forms \ {"clean"}} \cup {None}

Fields(list, items) == [list |-> list, items |-> items]

Grant == [shape |-> "ok", action |-> Plain("a"), ws |-> Plain("b"), intents |-> None]

LawfulGrants ==
    [shape: {"ok"}, action: {Plain("a")}, ws: {Plain("b"), AnyText},
     intents: {None} \cup {Fields(TRUE, s) : s \in SUBSET {Plain("a"), Plain("b"), AnyText}}]

OddGrants ==
    {[Grant EXCEPT !.shape = x] : x \in Shapes \ {"ok"}}
    \cup {[Grant EXCEPT !.action = x] : x \in Odd}
    \cup {[Grant EXCEPT !.ws = x] : x \in Odd}
    \cup {[Grant EXCEPT !.intents = Fields(TRUE, {x})] : x \in Odd \ {None}}
    \cup {[Grant EXCEPT !.intents = Fields(FALSE, {})]}

Base == [shape |-> "ok", subject |-> Plain("a"), token |-> Plain("a"), grants |-> None]

Items ==
    {[Base EXCEPT !.token = x] : x \in {Plain("b")} \cup Odd}
    \cup {[Base EXCEPT !.subject = x] : x \in Odd}
    \cup {[Base EXCEPT !.shape = x] : x \in Shapes}
    \cup {[Base EXCEPT !.grants = Fields(FALSE, {})]}
    \cup {[Base EXCEPT !.grants = Fields(TRUE, {g})] : g \in LawfulGrants \cup OddGrants}
    \cup {[Base EXCEPT !.grants = Fields(TRUE, {g, h})] : g, h \in LawfulGrants}

Others == {Base, [Base EXCEPT !.token = Plain("b")],
           [Base EXCEPT !.token = [word |-> "b", form |-> "padded"]],
           [Base EXCEPT !.token = [word |-> "b", form |-> "accented"]]}

Documents ==
    {<<>>} \cup {<<i>> : i \in Items}
    \cup {<<i, o>> : i \in Items, o \in Others} \cup {<<o, i>> : i \in Items, o \in Others}

MCEnvironments ==
    [file: {"named"}, readable: {TRUE}, development: {None}, list: {TRUE}, items: Documents]
    \cup [file: {None, "empty", "named"}, readable: BOOLEAN,
          development: {None, "empty", "json"}, list: BOOLEAN, items: {<<>>, <<Base>>}]
=============================================================================
