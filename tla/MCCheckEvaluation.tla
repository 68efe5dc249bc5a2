-------------------------- MODULE MCCheckEvaluation --------------------------
(* Instances of CheckEvaluation for TLC. *)
EXTENDS CheckEvaluation, TLC

Written(whole, fraction, digits) ==
    [whole |-> whole, fraction |-> fraction, digits |-> digits]

MCNumeral ==
    "31.9" :> Written(31, <<9>>, <<>>) @@ "31.90" :> Written(31, <<9, 0>>, <<>>)
 @@ "28" :> Written(28, <<>>, <<2, 8>>) @@ "6" :> Written(6, <<>>, <<6>>)
 @@ "42" :> Written(42, <<>>, <<4, 2>>) @@ "250" :> Written(250, <<>>, <<2, 5, 0>>)

Number(whole, fraction) == [whole |-> whole, fraction |-> fraction]

MCAmounts == {Number(31, <<9>>), Number(28, <<0, 5>>), Number(105000, <<>>),
              Number(42, <<>>), Number(219, <<>>)}

MCLexicon == [EMAIL |-> {"ann@x.com", "anne@x.com", "joe@x.com"},
              IDENTIFIER |-> {"6102123456", "6102123457"},
              DATE |-> {"1985-03-12", "1985-03-13"}]

MCLikeness == <<"ann@x.com", "anne@x.com">> :> 95
           @@ <<"6102123456", "6102123457">> :> 90
           @@ <<"rose_street_12", "rose_street_21">> :> 88

States == {"VIC", "NSW", "SA", "QLD", "TAS", ""}

SaleIn(fuel, state) ==
    [fuel |-> fuel, customer |-> "RESIDENTIAL", state |-> state, campaign |-> ""]

MCSale == {SaleIn(fuel, state) : fuel \in {"ELECTRICITY", "GAS", "DUAL"},
                                 state \in States}

MCFollowedSale == SaleIn("DUAL", "VIC")

---------------------------------------------------------------------------
(* Calls *)

Turn(id, start, end, role, text) ==
    [id |-> id, start |-> start, end |-> end, role |-> role, text |-> text,
     label |-> CASE role = "AGENT" -> "SPEAKER_00"
                 [] role = "CUSTOMER" -> "SPEAKER_01"
                 [] OTHER -> "SPEAKER_02"]

\* Three turns of a role; the second begins within the windows of the first,
\* the third outside them.
Slot == <<[start |-> 0, end |-> 5000], [start |-> 20000, end |-> 25000],
          [start |-> 60000, end |-> 65000]>>

Taken(texts) == SelectSeq(<<1, 2, 3>>, LAMBDA i : texts[i] # <<>>)

CallOf(role, texts) ==
    LET taken == Taken(texts)
    IN  [n \in DOMAIN taken |->
            Turn(taken[n], Slot[taken[n]].start, Slot[taken[n]].end, role,
                    texts[taken[n]])]

Calls(role, phrases) ==
    {CallOf(role, texts) : texts \in [1..3 -> phrases \cup {<<>>}]}

\* A late segment is stored first.
Reversed(calls) == {Reverse(call) : call \in calls}

\* An agent's question, a remark of somebody, an answer within the window and
\* one outside it.
Dialogues(question, answers) ==
    {SelectSeq(<<Turn(1, 0, 5000, "AGENT", q), Turn(2, 6000, 7000, who, a),
                 Turn(3, 30000, 31000, "CUSTOMER", b),
                 Turn(4, 50000, 51000, "CUSTOMER", c)>>,
               LAMBDA s : s.text # <<>>) :
        q \in {question, <<"ok">>}, who \in {"AGENT", "CUSTOMER"},
        a \in answers, b \in answers, c \in answers}

PeakPhrases == {
    <<"peak", "is", "thirty", "one", "point", "nine", "cents">>,
    <<"peak", "28", "point", "6", "sorry", "31.9">>,
    <<"peak", "31.90", "actually", "twenty", "eight", "point", "zero", "five">>,
    <<"actually", "31.9">>, <<"peak", "28", "point", "six">>}

GiftPhrases == {
    <<"a", "two", "hundred", "and", "nineteen", "dollar", "voucher">>,
    <<"credit", "of", "one", "hundred", "and", "five", "thousand">>,
    <<"bonus", "250", "sorry", "two", "hundred", "and", "nineteen">>}

PromoPhrases == {
    <<"forty", "two", "dollars", "first", "month">>,
    <<"month", "42", "rather", "28">>, <<"first", "250", "month", "six">>}

EmailPhrases == {<<"email", "ann@x.com">>, <<"email", "anne@x.com">>,
                 <<"email", "joe@x.com", "sorry", "ann@x.com">>}

MeterPhrases == {<<"nmi", "6102123456">>, <<"meter", "6102123457">>,
                 <<"nmi", "6102123457", "actually", "6102123456">>}

AddressPhrases == {<<"address", "rose_street_12">>, <<"supply", "rose_street_21">>,
                   <<"street", "sorry">>}

SupplyPhrases == {<<"daily", "one", "hundred", "and", "five", "point", "two">>,
                  <<"supply", "is", "oh", "sorry", "28">>}

CoolingPhrases == {<<"cooling_off", "ten", "days">>, <<"business_day", "6">>}

NamePhrases == {<<"name", "rose_street_12">>, <<"speaking">>, <<"well">>}

MovePhrases == {<<"moving", "1985-03-12", "1985-03-13">>, <<"start_date", "actually">>,
                <<"moving", "actually", "1985-03-12">>}

DisclosurePhrases == {
    <<"this", "call", "is", "being", "recorded">>, <<"this", "call", "is">>,
    <<"being", "recorded">>, <<"call", "again", "later", "today", "or", "else">>}

TelcoPhrases == {<<"call", "recorded", "quality", "training">>,
                 <<"quality", "call">>, <<"recorded", "training">>}

ConsentPhrases == {
    <<"do", "you", "provide", "consent", "to", "proceed">>,
    <<"do", "you", "provide">>, <<"consent", "to", "proceed">>}

MonthPhrases == {<<"for", "the", "first", "six", "months">>,
                 <<"each", "month", "for", "months">>, <<"per", "month">>}

\* No check looks at how late in a call its disclosure comes.
Late(calls) ==
    {[i \in DOMAIN call |-> [call[i] EXCEPT !.start = 4 * @, !.end = 4 * @]] :
        call \in calls}

Words(n) == [i \in 1..n |-> "well"]

\* Speech of both sides, apart, touching, nested and overlapping.
Talk == {
    Turn(1, 0, 20000, "CUSTOMER", <<"too", "expensive">>),
    Turn(2, 1000, 21000, "CUSTOMER", Words(20)),
    Turn(3, 5000, 10000, "AGENT", Words(12)),
    Turn(4, 12000, 17000, "AGENT", <<"i", "understand">>),
    Turn(5, 12200, 12400, "AGENT", Words(1)),
    Turn(6, 52000, 57000, "AGENT", <<"i", "appreciate">> \o Words(12)),
    Turn(7, 100000, 110000, "CUSTOMER", <<"no", "thanks">>),
    Turn(8, 110000, 110500, "UNKNOWN", Words(1)),
    Turn(9, 200, 30000, "AGENT", Words(40)),
    Turn(10, 300, 30000, "AGENT", Words(40)),
    Turn(11, 2000, 8000, "CUSTOMER", Words(4))}

Talks == {SetToSeq(talk) : talk \in kSubset(2, Talk) \cup kSubset(3, Talk)
                                        \cup kSubset(4, Talk)
                                        \cup kSubset(5, Talk)} \cup {<<>>}

MCCallsOf ==
    LET peak == Calls("AGENT", PeakPhrases)
        disclosures == Calls("AGENT", DisclosurePhrases)
    IN  "peak_rate" :> (peak \cup Reversed(peak))
     @@ "gift_card" :> Calls("AGENT", GiftPhrases)
     @@ "telco_promo_price" :> Calls("AGENT", PromoPhrases)
     @@ "email" :> Calls("AGENT", EmailPhrases)
     @@ "nmi" :> Calls("AGENT", MeterPhrases)
     @@ "supply_address" :> Calls("AGENT", AddressPhrases)
     @@ "supply_charge" :> Calls("AGENT", SupplyPhrases)
     @@ "cooling_off_days" :> Calls("AGENT", CoolingPhrases)
     @@ "customer_name" :> Calls("CUSTOMER", NamePhrases)
     @@ "move_in_date" :> Calls("CUSTOMER", MovePhrases)
     @@ "dob" :> Dialogues(<<"when", "born">>,
            {<<>>, <<"1985-03-12">>, <<"1985-03-13", "sorry", "1985-03-12">>})
     @@ "life_support_flag" :> Dialogues(<<"any", "life_support">>,
            {<<>>, <<"no", "sure">>, <<"yes">>, <<"well">>})
     @@ "recording_disclaimer" :> (disclosures \cup Late(disclosures)
            \cup Calls("CUSTOMER", {<<"this", "call", "is", "being", "recorded">>}))
     @@ "telco_recording_disclosure" :> Late(Calls("AGENT", TelcoPhrases))
     @@ "explicit_consent" :> Calls("AGENT", ConsentPhrases)
     @@ "telco_script_accuracy" :> Calls("AGENT", MonthPhrases)
     @@ [check \in FollowedConduct |-> Talks]

NoFields == [path \in {} |-> None]

On(path, value) == [sale |-> path :> value, lead |-> NoFields]

Nothing == [sale |-> NoFields, lead |-> NoFields]

MCRecordsOf ==
    "peak_rate" :> {On(Detail("tariff_peak_c_kwh"), Number(31, <<9>>)), Nothing}
 @@ "gift_card" :> {On(Field("gift_card_value"), Number(219, <<>>))}
 @@ "telco_promo_price" :> {On(Detail("promo_price"), Number(42, <<>>))}
 @@ "email" :> {On(Detail("email"), "ann@x.com"),
                [sale |-> NoFields, lead |-> Field("email") :> "ann@x.com"],
                [sale |-> Detail("email") :> "joe@x.com",
                 lead |-> Field("customer_email") :> "ann@x.com"]}
 @@ "nmi" :> {On(Detail("nmi"), "6102123456")}
 @@ "supply_address" :> {On(Detail("supply_address"), "rose_street_12")}
 @@ "supply_charge" :> {On(Detail("daily_supply_charge_cents"), Number(105, <<2>>))}
 @@ "cooling_off_days" :> {On(Detail("cooling_off_days"), Number(10, <<>>))}
 @@ "customer_name" :> {On(Field("customer_name"), "rose_street_12")}
 @@ "move_in_date" :> {On(Field("move_in_date"), "1985-03-12")}
 @@ "dob" :> {On(Detail("date_of_birth"), "1985-03-12")}
 @@ "life_support_flag" :> {On(Detail("life_support"), "no"),
                            On(Detail("life_support"), "yes")}
 @@ [check \in Followed \ FollowedFactual |-> {Nothing}]

=============================================================================
