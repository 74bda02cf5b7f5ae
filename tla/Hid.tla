--------------------------------- MODULE Hid ---------------------------------
(***************************************************************************)
(* The hid service: parseReportDescriptor turns a report descriptor into   *)
(* groups of fields, and hidListening compares the fields of every report  *)
(* with the last one and calls the keyboard and mouse services.            *)
(*                                                                         *)
(* A device comes with its descriptor (a sequence of items) and with what  *)
(* that descriptor means: the fields of a report. A report is the sequence *)
(* of their bits. The device is external.                                  *)
(***************************************************************************)
EXTENDS Integers, Sequences, SequencesExt

CONSTANTS
    Devices,            \* [items, fields] of the devices
    Keys,               \* usages an array field can hold
    Word,               \* bits in a word of a report (32)
    Byte,               \* bits in a byte (8)
    Junk,               \* what malloc may leave in a block, not the usage of a key
    MaxReports          \* bound

VARIABLES
    device,
    groups,             \* inputGroups
    sent,               \* values of the fields in the last report
    down,               \* usages for which the last call said "pressed"
    repeated,           \* ghost: a call that told nothing new
    x,                  \* of the mouse service
    moved,              \* ghost: sum of the movements reported
    reports

vars == <<device, groups, sent, down, repeated, x, moved, reports>>

Desktop == 1
Keyboard == 7
Button == 9
X == 48

-----------------------------------------------------------------------------
\* parseReportDescriptor: the state of the parser, and one item of each kind.

Parser == [page |-> 0, usages |-> <<>>, usageMin |-> 0, usageMax |-> 0, logicalMin |-> 0,
           logicalMax |-> 0, reportSize |-> 0, reportCount |-> 0, groups |-> <<>>]

getUsagePage(id) == IF id >= 15 THEN 0 ELSE id

\* The usages of the readers of a group.
Usages(s) ==
    [i \in 1 .. s.reportCount |->
        CASE Len(s.usages) = 1 -> s.usages[1]
          [] Len(s.usages) # 1 /\ Len(s.usages) = s.reportCount -> s.usages[i]
          [] s.usages = <<>> /\ s.usageMax - s.usageMin + 1 = s.reportCount -> s.usageMin + i - 1
          [] OTHER -> i - 1]

\* Neither the readers' previous states nor an array's old states are set.
input(s, flags) ==
    LET unset == [i \in 1 .. s.reportCount |-> 0]
        group == [isSigned |-> s.logicalMin > s.logicalMax, size |-> s.reportSize,
                  page |-> s.page, discard |-> "constant" \in flags,
                  array |-> "variable" \notin flags, relative |-> "relative" \in flags,
                  usages |-> Usages(s), states |-> unset]
    IN  [s EXCEPT !.groups = Append(@, group), !.usages = <<>>]

Item(s, item) ==
    CASE item[1] = "page" -> [s EXCEPT !.page = getUsagePage(item[2])]
      [] item[1] = "usage" -> [s EXCEPT !.usages = Append(@, item[2])]
      [] item[1] = "input" -> input(s, item[2])
      [] item[1] \in {"collection", "endCollection"} -> [s EXCEPT !.usages = <<>>]
      [] OTHER -> [s EXCEPT ![item[1]] = item[2]]

parseReportDescriptor(items) == FoldLeft(Item, Parser, items).groups

Init ==
    /\ device \in Devices
    /\ \E content \in {0, Junk} :
        groups = [n \in DOMAIN parseReportDescriptor(device.items) |->
                    LET g == parseReportDescriptor(device.items)[n] IN
                    [g EXCEPT !.states = [i \in DOMAIN @ |-> content]]]
    /\ sent = <<>> /\ down = {} /\ repeated = FALSE
    /\ x = 0 /\ moved = 0 /\ reports = 0

-----------------------------------------------------------------------------
\* The device: its fields in order, constant ones as zeros, negative numbers in
\* two's complement. A usage stands in an array at most once.

Values(field) ==
    CASE field.kind = "array" -> {0} \cup Keys
      [] field.kind = "flag" -> {0, 1}
      [] field.kind = "move" -> {-1, 0, 1}
      [] OTHER -> {0}

Reports ==
    {values \in FoldLeft(LAMBDA all, field :
                            {Append(v, value) : v \in all, value \in Values(field)},
                         {<<>>}, device.fields) :
        \A e, f \in DOMAIN values :
            device.fields[e].kind = "array" /\ device.fields[f].kind = "array"
                /\ values[e] = values[f] => e = f \/ values[e] = 0}

Bits(size, value) == [b \in 1 .. size |-> ((value % 2 ^ size) \div 2 ^ (b - 1)) % 2]
Report(values) ==
    FlattenSeq([f \in DOMAIN values |-> Bits(device.fields[f].size, values[f])])

\* What is pressed on the device, and how far it has moved.
Pressed(values) ==
    LET pressed == {f \in DOMAIN values : values[f] # 0} IN
    {<<device.fields[f].page, IF device.fields[f].kind = "array" THEN values[f]
                              ELSE device.fields[f].usage>> :
        f \in {f \in pressed : device.fields[f].kind \in {"array", "flag"}}}
Movement(values) ==
    FoldFunctionOnSet(+, 0, values, {f \in DOMAIN values : device.fields[f].kind = "move"})

-----------------------------------------------------------------------------
\* The service. A position is the word and the bit that come next.

\* The mask ends with the word; the bytes behind a report are zero.
consumeBits(report, position, count) ==
    LET at == IF position.bit >= Word
              THEN [word |-> position.word + 1, bit |-> position.bit - Word] ELSE position
        bit(b) == IF at.bit + b >= Word \/ at.word * Word + at.bit + b >= Len(report) THEN 0
                  ELSE report[at.word * Word + at.bit + b + 1] * 2 ^ b
    IN  [value |-> FoldFunction(+, 0, [b \in 0 .. count - 1 |-> bit(b)]),
         position |-> [at EXCEPT !.bit = @ + count]]

\* getValue: signed numbers of one and of two bytes are extended.
Signed(group, raw) ==
    IF group.isSigned /\ group.size \in {Byte, 2 * Byte} /\ raw >= 2 ^ (group.size - 1)
    THEN raw - 2 ^ group.size ELSE raw

\* The values of a group's fields, and the position behind them.
Read(report, group, position) ==
    LET step[i \in 0 .. Len(group.usages)] ==
            IF i = 0 THEN [values |-> <<>>, position |-> position]
            ELSE LET before == step[i - 1]
                     field == consumeBits(report, before.position, group.size) IN
                 [values |-> Append(before.values, Signed(group, field.value)),
                  position |-> field.position]
    IN  step[Len(group.usages)]

Call(group, usage, data) == [page |-> group.page, usage |-> usage, data |-> data]
Missing(these, those) == SelectSeq(these, LAMBDA v : v # 0 /\ ~Contains(those, v))

\* Mutant: what is in the old report already is reported as well.
ArrayReportsAll(group, values) ==
    LET ups == Missing(group.states, values)
        downs == Missing(values, <<>>) IN
    [i \in DOMAIN downs |-> Call(group, downs[i], 1)]
    \o [i \in DOMAIN ups |-> Call(group, ups[i], 0)]

\* Usages that are new, then usages that are gone.
handleArrayGroup(group, values) ==
    LET downs == Missing(values, group.states)
        ups == Missing(group.states, values) IN
    [i \in DOMAIN downs |-> Call(group, downs[i], 1)]
    \o [i \in DOMAIN ups |-> Call(group, ups[i], 0)]

Variables(group, values) ==
    LET changed(i) == values[i] # group.states[i] \/ group.relative
        all == [i \in DOMAIN values |-> [call |-> Call(group, group.usages[i], values[i]),
                                         tell |-> changed(i)]]
        told == SelectSeq(all, LAMBDA c : c.tell)
    IN  [i \in DOMAIN told |-> told[i].call]

\* A constant group consumes no bits.
handleGroup(report, group, position) ==
    LET read == Read(report, group, position) IN
    IF group.discard THEN [group |-> group, position |-> position, calls |-> <<>>]
    ELSE [group |-> [group EXCEPT !.states = read.values], position |-> read.position,
          calls |-> IF group.array THEN handleArrayGroup(group, read.values)
                    ELSE Variables(group, read.values)]

\* handleUsage: the keyboard's and the buttons' pages have a handler for all
\* usages, the desktop's page handles X (and Y in the same way).
Tells(call) == call.page = Keyboard \/ (call.page = Button /\ call.usage \in 1 .. 5)
handleUsage(s, call) ==
    CASE Tells(call) ->
            [s EXCEPT !.down = IF call.data # 0 THEN @ \cup {<<call.page, call.usage>>}
                               ELSE @ \ {<<call.page, call.usage>>},
                      !.repeated = @ \/ ((<<call.page, call.usage>> \in s.down) = (call.data # 0))]
      [] call.page = Desktop /\ call.usage = X -> [s EXCEPT !.x = @ + call.data]
      [] OTHER -> s

\* A round of hidListening: a report arrives and its groups are handled.
hidListening(values) ==
    LET report == Report(values)
        step[n \in 0 .. Len(groups)] ==
            IF n = 0 THEN [position |-> [word |-> 0, bit |-> 0], groups |-> <<>>, calls |-> <<>>]
            ELSE LET before == step[n - 1]
                     h == handleGroup(report, groups[n], before.position) IN
                 [position |-> h.position, groups |-> Append(before.groups, h.group),
                  calls |-> before.calls \o h.calls]
        done == step[Len(groups)]
        told == FoldLeft(handleUsage, [down |-> down, repeated |-> FALSE, x |-> x], done.calls)
    IN  /\ reports < MaxReports
        /\ reports' = reports + 1 /\ sent' = values /\ groups' = done.groups
        /\ down' = told.down /\ x' = told.x
        /\ repeated' = (repeated \/ (reports > 0 /\ told.repeated))
        /\ moved' = moved + Movement(values)
        /\ UNCHANGED device

Next == \E values \in Reports : hidListening(values)
Spec == Init /\ [][Next]_vars

-----------------------------------------------------------------------------
\* For devices whose constant fields come last and whose fields stay within a
\* word: after every report the other services take exactly the keys and
\* buttons to be pressed that are, whatever the old states held at first.
KeysFollow == reports > 0 => down = Pressed(sent)

\* Behind the first report, which may release keys that never were pressed, a
\* key is reported once when it goes down and once when it comes up.
OncePerChange == ~repeated

\* The pointer is where the movements that were reported add up to.
PointerFollows == x = moved

=============================================================================
