------------------------ MODULE MCFormatterComments ------------------------
(* Documents that have every kind of part the layout visits or declines.   *)
EXTENDS FormatterComments

List(items) == [list |-> TRUE, items |-> items]
One(item) == [list |-> FALSE, items |-> <<item>>]

Q(ctes, body, order, limit, exotic) ==
    [ctes |-> ctes, body |-> body, order |-> order, limit |-> limit, exotic |-> exotic]
Plain(body) == Q(<<>>, body, 0, FALSE, FALSE)
Flat == <<"flat">>

\* SELECT item; SELECT item, item FROM t WHERE item.
Short(item) == <<"select", <<List(<<item>>)>>>>
Long(item) == <<"select", <<List(<<item, <<>>>>), One(item)>>>>

\* An item without a subquery, with one that stays inline, with one that is
\* laid out, and with one that is declined after its SELECT list.
Items == {<<>>, <<Plain(Short(<<>>))>>, <<Plain(Long(<<>>))>>,
          <<Plain(<<"setop", Short(<<>>), Flat>>)>>}

Bodies ==
    {Flat} \cup {Short(i) : i \in Items} \cup {Long(i) : i \in Items}
        \cup {<<"setop", a, b>> : a \in {Short(<<>>), Flat}, b \in {Short(<<>>), Long(<<>>), Flat}}
        \cup {<<"nested", Q(<<>>, b, 1, FALSE, FALSE)>> : b \in {Short(<<>>), Flat}}

WithLists == {<<>>} \cup {<<[plain |-> p, query |-> Plain(b)]>> : p \in BOOLEAN, b \in {Short(<<>>), Flat}}

Queries ==
    {Q(<<>>, b, o, l, FALSE) : b \in Bodies, o \in {0, 2}, l \in BOOLEAN}
        \cup {Q(w, b, 0, FALSE, e) : w \in WithLists, b \in {Short(<<>>), <<"setop", Short(<<>>), Flat>>},
                                    e \in BOOLEAN}
        \cup {Q(<<[plain |-> TRUE, query |-> Plain(Short(<<>>))],
                  [plain |-> p, query |-> Plain(Flat)]>>, Short(<<>>), 0, FALSE, FALSE) : p \in BOOLEAN}

MCDocuments ==
    {<<>>, <<<<"other">>>>, <<<<"other">>, <<"query", Plain(Long(<<>>))>>>>}
        \cup {<<<<"query", q>>>> : q \in Queries}
        \cup {<<<<"query", Plain(b)>>, s>> :
                 b \in {Short(<<>>), Long(<<>>), Flat, <<"setop", Short(<<>>), Flat>>},
                 s \in {<<"other">>, <<"query", Plain(Short(<<>>))>>}}
=============================================================================
