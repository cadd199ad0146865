----------------------------- MODULE MCReplies -----------------------------
\* Instance of Replies: bytes of four values, pages of two.
EXTENDS Replies

MCWeights == <<1, 2>>
MCBaseAttrs == << <<1, 3>>, <<2, 1>>, <<13, 7>> >>
MCScore == [item \in Items |-> item]
MCTypes == <<1, 2>>
\* The second tier adds less than the first.
MCShowAttr == << << << <<1, 3>>, <<13, 5>> >>, << <<1, 1>> >> >>, << <<>>, << <<2, 1>> >> >> >>
MCQualityAttr == << << <<1, 1>> >>, <<>> >>
MCAttireBoards == [weapon_ranking |-> 1]
MCSpelling == [fight_ranking |-> <<1>>, level_ranking |-> <<1, 2, 3>>,
               weapon_ranking |-> <<2, 2, 2, 2>>, arena_ranking |-> <<2, 1>>,
               pet_ranking |-> <<3, 1>>, charm_ranking |-> <<3, 2>>, kaifu_recharge_ranking |-> <<3>>,
               guildscore_ranking |-> <<1, 1>>, guildkill_ranking |-> <<1, 3>>]
MCNames == {[i \in 1..15 |-> i % 4]}
\* Accounts 1 and 2 create in turn.
Few(n) == [i \in 1..n |->
    LET half == (n + 1) \div 2
        first == i <= half
    IN  [NewRow(IF first THEN (2 * i) - 1 ELSE 2 * (i - half), IF first THEN 1 ELSE 2,
                IF i = 2 THEN <<1>> ELSE <<1, 2, 3>>)
            EXCEPT !.level = (i % 3) + 1]]
MCStores == {<<>>, Few(3), Few(8)}
MCPlayersInfo == << <<"pid", u64>>, <<"level", u16>>, <<"sex", u8>>, <<"profession", u8>>,
                    <<"camp", u8>>, <<"nickname", str>>, <<"status", u8>> >>
MCFactories == {MCPlayersInfo, << <<"figure", u32>> >> \o MCPlayersInfo,
                << <<"pid", u64>>, <<"nickname", str>> >>}
MCTokens == {<<>>, <<62>>, <<126, 63, 62>>, <<195, 191>>, <<65, 66, 67, 68>>}
=============================================================================
