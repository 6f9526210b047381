---------------------------- MODULE SettingData ----------------------------
(* The default-site setting: what nginx shows to an unknown host (Value),  *)
(* and the page of the value "html", which is stored in the meta column.   *)
CONSTANTS Value, Html, Page,
    None,   \* a meta without a page; a file that does not exist
    Keep    \* a column the payload leaves out

ASSUME HtmlAssumption == Html \in Value
ASSUME MarksAssumption == None \notin Value \cup Page /\ Keep \notin Value \cup Page \cup {None}

Setting == [value : Value, page : Page \cup {None}]

\* What passes schema validation: not empty, no html with a meta that has no page.
Payload == {p \in [value : Value \cup {Keep}, page : Page \cup {None, Keep}] :
               /\ p.value # Keep \/ p.page # Keep
               /\ ~(p.value = Html /\ p.page = None)}

ASSUME NoneIsNoPayload == None \notin Payload

Merged(s, p) == [value |-> IF p.value = Keep THEN s.value ELSE p.value,
                 page  |-> IF p.page = Keep THEN s.page ELSE p.page]
=============================================================================
