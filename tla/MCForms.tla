------------------------------ MODULE MCForms ------------------------------
(***************************************************************************)
(* The bodies Forms is checked with.                                         *)
(***************************************************************************)
EXTENDS Forms, Naturals

\* A member is null, of the column's type or of none.
Sent(types, c) == {None, Bad} \cup types[c]
Members(names, values(_)) ==
  {b \in [names -> UNION {values(n) : n \in names}] : \A n \in names : b[n] \in values(n)}

\* For a thread, bodies of at most two members of any names; one that no form knows.
ColumnsNamed(n) == {c \in T!ThreadColumns : n \in T!ThreadNames(c)}
ThreadValues(n) == UNION {Sent(T!ThreadTypes, c) : c \in ColumnsNamed(n)}
ThreadNames     == UNION {T!ThreadNames(c) : c \in T!ThreadColumns}
Pairs           == {S \in SUBSET ThreadNames : Cardinality(S) <= 2}
MCThreadBodies  == UNION {Members(S, ThreadValues) : S \in Pairs}
                   \cup {[channel |-> "sms", status |-> "open", id |-> Bad]}

\* For a message, bodies with one column, under either name or both, alone and beside
\* what a POST requires.
OfColumn(c)     == UNION {[S -> Sent(M!MessageTypes, c)] : S \in SUBSET M!MessageNames(c)}
Alone           == UNION {OfColumn(c) : c \in M!MessageColumns}
Least           == [threadId |-> CHOOSE u \in Uuids : TRUE, direction |-> "inbound",
                    channel |-> "email", body |-> CHOOSE t \in Texts : TRUE]
Beside(b)       == [n \in DOMAIN b \cup DOMAIN Least |-> IF n \in DOMAIN b THEN b[n] ELSE Least[n]]
MCMessageBodies == Alone \cup {Beside(b) : b \in Alone}
=============================================================================
