--------------------------- MODULE MCSubscribers ----------------------------
(* Instances of Subscribers for TLC.                                       *)
EXTENDS Subscribers

CONSTANTS a1, a2, x1, x2, x3

MCAccounts == {a1, a2}
MCConns == {x1, x2, x3}

\* One account with a single connection, one with two.
MCLimit == (a1 :> 1) @@ (a2 :> 2)

Ok(a) == [account |-> a, banned |-> FALSE]
Ban(a) == [account |-> a, banned |-> TRUE]
Garbled == [account |-> NoAccount, banned |-> FALSE]

\* Nobody, everybody, one of them, a banned user, users that are listed twice,
\* with and without something that does not parse.
MCLists ==
    {<<>>, <<Ok(a1), Ok(a2)>>, <<Garbled, Ok(a2)>>, <<Ok(a1), Ban(a2)>>,
     <<Ban(a1), Garbled, Ok(a1)>>, <<Ok(a2), Ban(a2), Ok(a1)>>}

\* Connections are interchangeable; the accounts differ by their limits.
MCSymmetry == Permutations(MCConns)
=============================================================================
