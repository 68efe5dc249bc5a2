------------------------------- MODULE Checklist -------------------------------
(***************************************************************************)
(* The two catalogues of checks (packages/evaluation/checklists) and what  *)
(* build_check_library makes of them.  A check is named by its id without  *)
(* "chk-".  Parameters are given for the checks whose evaluation is        *)
(* followed: words stand for the phrases of their lists, and defaults of   *)
(* the evaluators are written out.                                         *)
(***************************************************************************)
EXTENDS CheckLibrary

CONSTANT None

EffectiveFrom == 1  \* DEFAULT_EFFECTIVE_FROM; instant 0 lies before it

---------------------------------------------------------------------------
(* Weights and applicability *)

ScriptWeight == [
    recording_disclaimer |-> 10, agent_identification |-> 8,
    account_holder |-> 10, vdo_comparison |-> 10, dmo_comparison |-> 10,
    explicit_consent |-> 10, cooling_off |-> 10, terms_conditions |-> 8,
    life_support_enquiry |-> 10, right_to_end_call |-> 4]

FactualWeight == [
    peak_rate |-> 10, supply_charge |-> 10, email |-> 10, customer_name |-> 8,
    dob |-> 8, supply_address |-> 10, nmi |-> 8, mirn |-> 8, fuel_type |-> 6,
    concession |-> 6, life_support_flag |-> 10, move_in_date |-> 6,
    gift_card |-> 8, cooling_off_days |-> 8, plan_name |-> 4]

ConductWeight == [
    dead_air |-> 4, interruptions |-> 3, talk_ratio |-> 3,
    objection_handling |-> 3, speech_rate |-> 3]

TelcoScriptWeight == [
    telco_recording_disclosure |-> 10, telco_eic_otp |-> 15,
    telco_script_accuracy |-> 5]

TelcoFactualWeight == [
    telco_nbn_speeds |-> 12, telco_promo_price |-> 12,
    telco_regular_price |-> 10, telco_minimum_total_cost |-> 10,
    telco_hardware_modem |-> 5]

TelcoConductWeight == [telco_pci_mute |-> 12]

EnergyCheck == DOMAIN ScriptWeight \cup DOMAIN FactualWeight \cup DOMAIN ConductWeight

TelcoCheck == DOMAIN TelcoScriptWeight \cup DOMAIN TelcoFactualWeight
                  \cup DOMAIN TelcoConductWeight

Weight(check) ==
    CASE check \in DOMAIN ScriptWeight       -> ScriptWeight[check]
      [] check \in DOMAIN FactualWeight      -> FactualWeight[check]
      [] check \in DOMAIN ConductWeight      -> ConductWeight[check]
      [] check \in DOMAIN TelcoScriptWeight  -> TelcoScriptWeight[check]
      [] check \in DOMAIN TelcoFactualWeight -> TelcoFactualWeight[check]
      [] check \in DOMAIN TelcoConductWeight -> TelcoConductWeight[check]

TypeOf(check) ==
    CASE check \in DOMAIN ScriptWeight \cup DOMAIN TelcoScriptWeight -> "VERBATIM"
      [] check \in DOMAIN FactualWeight \cup DOMAIN TelcoFactualWeight ->
            "FACTUAL_MATCH"
      [] OTHER -> "BEHAVIOUR"

NonCritical == {"right_to_end_call", "plan_name", "telco_hardware_modem",
                "telco_script_accuracy"} \cup DOMAIN ConductWeight

Everywhere == [d \in Dimension |-> Unrestricted]

\* Mutant: the default market offer of the other states is read in Victoria.
ApplicabilityOverlapping(check) ==
    CASE check = "vdo_comparison" -> [Everywhere EXCEPT !.state = {"VIC"}]
      [] check = "dmo_comparison" ->
            [Everywhere EXCEPT !.state = {"VIC", "NSW", "SA", "QLD"}]
      [] check = "nmi" -> [Everywhere EXCEPT !.fuel = {"ELECTRICITY", "DUAL"}]
      [] check = "mirn" -> [Everywhere EXCEPT !.fuel = {"GAS", "DUAL"}]
      [] OTHER -> Everywhere

Applicability(check) ==
    CASE check = "vdo_comparison" -> [Everywhere EXCEPT !.state = {"VIC"}]
      [] check = "dmo_comparison" ->
            [Everywhere EXCEPT !.state = {"NSW", "SA", "QLD"}]
      [] check = "nmi" -> [Everywhere EXCEPT !.fuel = {"ELECTRICITY", "DUAL"}]
      [] check = "mirn" -> [Everywhere EXCEPT !.fuel = {"GAS", "DUAL"}]
      [] OTHER -> Everywhere

\* build_check_library: one version of every check, without an end.
BuildLibrary(checks) ==
    [check \in checks |-> <<[from |-> EffectiveFrom, to |-> Forever,
                             applicability |-> Applicability(check)]>>]

---------------------------------------------------------------------------
(* Parameters *)

Field(name)  == [details |-> FALSE, field |-> name]
Detail(name) == [details |-> TRUE, field |-> name]

\* What an evaluator reads: what the check declares, otherwise its default.
Completed(declared, defaults) ==
    [name \in DOMAIN defaults |->
        IF name \in DOMAIN declared THEN declared[name] ELSE defaults[name]]

\* Defaults of the factual evaluator; times in milliseconds, amounts in
\* thousandths, similarities in percent.
FactualDefaults == [
    comparator |-> None, literal |-> None, paths |-> <<>>, speaker |-> "AGENT",
    keywords |-> {}, questions |-> {}, answerer |-> "CUSTOMER",
    window |-> 30000, correctionWindow |-> 30000, tolerance |-> 0,
    nearMiss |-> 85, nearMissOutcome |-> None, min |-> 0, max |-> 10000000]

FollowedFactual == {"peak_rate", "gift_card", "telco_promo_price", "email",
                    "nmi", "supply_address", "supply_charge",
                    "cooling_off_days", "customer_name", "move_in_date", "dob",
                    "life_support_flag"}

FactualDeclared(check) ==
    CASE check = "peak_rate" -> [
        comparator |-> "DECIMAL", paths |-> <<Detail("tariff_peak_c_kwh")>>,
        keywords |-> {"peak"}, min |-> 5000, max |-> 200000]
      [] check = "gift_card" -> [
        comparator |-> "MONEY",
        paths |-> <<Detail("gift_card_value"), Field("gift_card_value")>>,
        keywords |-> {"voucher", "credit", "bonus"}, min |-> 5000, max |-> 1000000]
      [] check = "telco_promo_price" -> [
        comparator |-> "DECIMAL", paths |-> <<Detail("promo_price")>>,
        keywords |-> {"dollars", "forty", "42", "first", "month"},
        min |-> 1000, max |-> 500000, tolerance |-> 50]
      [] check = "email" -> [
        comparator |-> "EMAIL", paths |-> <<Field("customer_email"), Field("email")>>,
        keywords |-> {"email", "confirmation"}]
      [] check = "nmi" -> [
        comparator |-> "IDENTIFIER", paths |-> <<Detail("nmi")>>,
        keywords |-> {"nmi", "meter"}]
      [] check = "supply_address" -> [
        comparator |-> "TEXT",
        paths |-> <<Field("supply_address"), Detail("supply_address")>>,
        keywords |-> {"address", "street", "supply"}, nearMiss |-> 80]
      [] check = "supply_charge" -> [
        comparator |-> "DECIMAL", paths |-> <<Detail("daily_supply_charge_cents")>>,
        keywords |-> {"supply", "daily"}, min |-> 20000, max |-> 400000]
      [] check = "cooling_off_days" -> [
        comparator |-> "DECIMAL", paths |-> <<Detail("cooling_off_days")>>,
        keywords |-> {"cooling_off", "business_day"}, min |-> 1000, max |-> 30000]
      [] check = "customer_name" -> [
        comparator |-> "TEXT", paths |-> <<Field("customer_name")>>,
        keywords |-> {"name", "speaking", "confirm"}, speaker |-> "ANY",
        nearMiss |-> 80]
      [] check = "move_in_date" -> [
        comparator |-> "DATE",
        paths |-> <<Detail("move_in_date"), Field("move_in_date")>>,
        keywords |-> {"moving", "start_date"}, speaker |-> "ANY"]
      [] check = "dob" -> [
        comparator |-> "DATE",
        paths |-> <<Field("date_of_birth"), Detail("date_of_birth")>>,
        questions |-> {"born", "dob"}]
      [] check = "life_support_flag" -> [
        comparator |-> "BOOLEAN", paths |-> <<Detail("life_support")>>,
        questions |-> {"life_support"}]

FactualParams(check) == Completed(FactualDeclared(check), FactualDefaults)

\* Thresholds of disclosures in hundredths of a percent.
ScriptDefaults == [
    anchors |-> {}, phrases |-> {}, threshold |-> 8000, ambiguous |-> 7000,
    reviewFloor |-> 5500, speaker |-> "AGENT"]

\* must_occur_before_ms is left out: checks carry it and nothing reads it.
FollowedScript == {"recording_disclaimer", "explicit_consent",
                   "telco_script_accuracy", "telco_recording_disclosure"}

ScriptDeclared(check) ==
    CASE check = "recording_disclaimer" -> [
        anchors |-> {"call", "recorded"},
        phrases |-> {<<"this", "call", "is", "being", "recorded">>}]
      [] check = "explicit_consent" -> [
        anchors |-> {"consent"},
        phrases |-> {<<"do", "you", "provide", "consent", "to", "proceed">>}]
      [] check = "telco_script_accuracy" -> [
        anchors |-> {"month", "months"},
        phrases |-> {<<"for", "the", "first", "six", "months">>},
        threshold |-> 6000, ambiguous |-> 4000]
      [] check = "telco_recording_disclosure" -> [
        anchors |-> {"recorded", "quality"},
        phrases |-> {<<"call", "recorded", "quality", "training">>},
        threshold |-> 6500, ambiguous |-> 5500]

ScriptParams(check) == Completed(ScriptDeclared(check), ScriptDefaults)

\* Defaults of the behaviour evaluator; ratios in percent, rates per minute.
ConductDefaults == [
    metric |-> "", maxSilence |-> 45000, maxInterruptions |-> 3,
    overlapTolerance |-> 300, minRatio |-> 35, maxRatio |-> 85,
    minRate |-> 110, maxRate |-> 200, objections |-> {},
    acknowledgements |-> {}, responseWindow |-> 30000]

\* telco_pci_mute declares a "behaviour" and no metric.
FollowedConduct == {"dead_air", "interruptions", "talk_ratio",
                    "objection_handling", "speech_rate", "telco_pci_mute"}

ConductDeclared(check) ==
    CASE check = "dead_air" -> [metric |-> "DEAD_AIR", maxSilence |-> 30000]
      [] check = "interruptions" -> [metric |-> "INTERRUPTIONS"]
      [] check = "talk_ratio" -> [metric |-> "TALK_RATIO", minRatio |-> 30, maxRatio |-> 90]
      [] check = "objection_handling" -> [
        metric |-> "OBJECTION_HANDLING", objections |-> {"expensive", "thanks"},
        acknowledgements |-> {"understand", "appreciate"}]
      [] check = "speech_rate" -> [metric |-> "SPEECH_RATE"]
      [] check = "telco_pci_mute" -> [metric |-> ""]

ConductParams(check) == Completed(ConductDeclared(check), ConductDefaults)

\* The hints a code contains, for the checks that declare nothing.
CodeOf(check) ==
    IF check = "telco_pci_mute" THEN {"TELCO", "BEHAVIOUR", "PCI_MUTE"} ELSE {}

Followed == FollowedFactual \cup FollowedScript \cup FollowedConduct

ParamsOf(check) ==
    CASE TypeOf(check) = "FACTUAL_MATCH" -> FactualParams(check)
      [] TypeOf(check) = "VERBATIM" -> ScriptParams(check)
      [] OTHER -> ConductParams(check)

=============================================================================
