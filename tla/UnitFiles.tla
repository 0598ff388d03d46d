------------------------------ MODULE UnitFiles ------------------------------
(***************************************************************************)
(* From files to units (libsystemd/src/serviceapi.c): a units directory    *)
(* and a rules directory are walked, every unit file is merged with its    *)
(* template, expanded and turned into a service, and the devices reported  *)
(* afterwards start what the rules name, which may be an instance made of  *)
(* a template there and then.  The directories are those the systemd       *)
(* program is given, or the ones on a mount point (which then is the first *)
(* device reported).                                                       *)
(*                                                                         *)
(* All of this is sequential: what is modelled is what the code computes.  *)
(* Which services of several directories a registry ends up with, and in   *)
(* which order, is ConfigDirs; who starts what when is Devices.            *)
(*                                                                         *)
(* Names, paths and values are texts; an extension, and each of the words  *)
(* the code compares as a whole, is one symbol.                            *)
(***************************************************************************)
EXTENDS Expansion, Lists, Integers, FiniteSets

CONSTANTS
    NONE,     \* a NULL pointer
    Inputs,   \* what the behaviours start from: records as in Init
    Numbers   \* the numbers dmini_get_int() reads in texts; in any other it
              \* reads none, which is the default

\* The keys the code reads; a `%` is expanded in each of them.
KeyOrder == <<"exec", "args", "type", "restart", "requires", "after",
              "stdin", "stdout", "stderr", "stdlog", "stop_timeout_ms">>

Entries  == [name : Text \ {<<>>}, dir : BOOLEAN]
Section  == [name : Text, start : Text \cup {NONE}, remove : Text \cup {NONE}]

\* A report of a device; a removal has a second half, when its units are stopped.
\* The value of a removal is the one the registry remembers of the device.
Device   == [class : Text, name : Text, value : Text \cup {NONE},
             what : {"added", "removed", "cleaning"}]

\* A function from keys to texts.
IsContext(ctx) ==
    /\ ctx = [k \in DOMAIN ctx |-> ctx[k]]
    /\ DOMAIN ctx \subseteq ToSet(KeyOrder)
    /\ \A k \in DOMAIN ctx : ctx[k] \in Text

\* The symbols the code itself puts into texts or gives a meaning.
ASSUME CharAssumption ==
    {"%", "i", "I", "p", "n", "v", "m", "name", "@", "/", "_", ".ini", "units", "rules",
     "cfg", "services", "mount", "root", "simple", "no"} \subseteq Char

ASSUME NoneAssumption == NONE \notin Text

ASSUME NumbersAssumption == \A text \in DOMAIN Numbers : Numbers[text] \in Int

\* No entry is without a name, and there are finitely many directories.
ASSUME InputsAssumption ==
    \A in \in Inputs :
        /\ in.source \in Text \cup {NONE} /\ in.scanned \in BOOLEAN
        /\ DOMAIN in.tree \subseteq Text /\ IsFiniteSet(DOMAIN in.tree)
        /\ \A dir \in DOMAIN in.tree : in.tree[dir] \in Seq(Entries)
        /\ \A file \in DOMAIN in.files : in.files[file] # NONE => IsContext(in.files[file])
        /\ \A file \in DOMAIN in.sections :
             in.sections[file] # NONE => in.sections[file] \in Seq(Section)
        /\ in.reports \in Seq(Device)

VARIABLES
    input,      \* source: the mount point, or NONE for the systemd program;
                \* scanned: the registry has been scanned before the mount;
                \* tree: the entries of each readable directory, in order;
                \* files: the keys dmini reads from each unit file, or NONE;
                \* sections: those it reads from each rules file, or NONE;
                \* reports: the devices reported, in order
    stage,      \* "start", "units", "scanned", "rules", "mounted",
                \* "ready" or "failed"
    stack,      \* the directories being walked, the innermost first, each
                \* with what is left of it
    unit,       \* the unit file being parsed, or NoUnit
    services, templates, rules,
    reports,    \* the devices still to report
    event,      \* the report in hand, or NoReport
    pending,    \* targets of its rules still to expand
    targets,    \* units it still has to start
    started     \* history: the targets started or stopped, each with its
                \* service, if any, and whether that was found active

treeVars   == <<stage, stack>>
parsedVars == <<services, templates, rules>>
eventVars  == <<reports, event, pending, targets, started>>
vars == <<expVars, input, treeVars, unit, parsedVars, eventVars>>

NoUnit   == [name |-> NONE]
NoReport == [name |-> NONE]

Idle == unit = NoUnit /\ pass = "idle"

-----------------------------------------------------------------------------
(* Names and paths                                                         *)

JoinPath(dir, name) ==
    dir \o (IF dir # <<>> /\ Last(dir) # "/" THEN <<"/">> ELSE <<>>) \o name

ConfigDirPath(at, sub) == JoinPath(JoinPath(at, <<"cfg">>), sub)

UnitsRoot(in) == IF in.source = NONE THEN <<"units">> ELSE ConfigDirPath(in.source, <<"services">>)
RulesRoot(in) == IF in.source = NONE THEN <<"rules">> ELSE ConfigDirPath(in.source, <<"rules">>)

\* A name that is nothing but the extension has none.
HasIni(name)   == Len(name) > 1 /\ Last(name) = ".ini"
HasRules(name) == HasIni(name) \/ (Len(name) > 1 /\ Last(name) = ".rules")

MakeUnitName(name) == Front(name)

Ats(name) == {p \in DOMAIN name : name[p] = "@"}

Before(name, p) == SubSeq(name, 1, p - 1)
Behind(name, p) == SubSeq(name, p + 1, Len(name))

\* The first @ separates the template from the instance.
Split(name) ==
    IF Ats(name) = {} THEN [prefix |-> NONE, instance |-> NONE]
    ELSE [prefix |-> Before(name, Min(Ats(name))), instance |-> Behind(name, Min(Ats(name)))]

Kind(file) ==
    LET s == Split(MakeUnitName(file)) IN
    IF s.prefix = NONE THEN "plain" ELSE IF s.instance = <<>> THEN "template" ELSE "instance"

\* libsystemd_split_instance_name(): neither part may be empty.
IsInstanceName(name) == Split(name).prefix \notin {NONE, <<>>} /\ Split(name).instance # <<>>

TemplatePath(dir, prefix) == JoinPath(dir, prefix \o <<"@", ".ini">>)

UnitName(prefix, instance) == prefix \o <<"@">> \o instance

MountLength(source) == Max({0} \cup {p \in DOMAIN source : source[p] # "/"})

MountPoint(source) == IF source = NONE THEN <<>> ELSE SubSeq(source, 1, MountLength(source))

\* The name a mount point is reported under.
MountDeviceName(source) ==
    LET named == {p \in DOMAIN source : source[p] # "/"} IN
    IF named = {} THEN <<"root">>
    ELSE [p \in 1 .. Max(named) - Min(named) + 1 |->
            LET c == source[p + Min(named) - 1] IN IF c = "/" THEN "_" ELSE c]

-----------------------------------------------------------------------------
(* What placeholders stand for                                             *)

Specifiers(prefix, instance, value, source) ==
    [c \in {"i", "I", "p", "n", "v", "m", "%"} |->
        CASE c \in {"i", "I"} -> instance
          [] c = "p" -> prefix
          [] c = "n" -> UnitName(prefix, instance)
          [] c = "v" -> IF value = NONE THEN <<>> ELSE value
          [] c = "m" -> MountPoint(source)
          [] c = "%" -> <<"%">>]

MountSpecifier(source) == [c \in {"m"} |-> MountPoint(source)]

DeviceName(name) == [c \in {"name"} |-> name]

-----------------------------------------------------------------------------
(* From keys to a service                                                  *)

Blank == {" ", "tab"}

\* The first position from p on that is, or is not, in seps; one past the end
\* if there is none.
SkipOver(t, p, seps) == Min({Len(t) + 1} \cup {q \in p .. Len(t) : t[q] \notin seps})
SkipTo(t, p, seps)   == Min({Len(t) + 1} \cup {q \in p .. Len(t) : t[q] \in seps})

\* The first loop of libsystemd_build_argv().
TokenCount(t, seps) ==
    LET count[p \in 1 .. Len(t) + 1] ==
          LET s == SkipOver(t, p, seps) IN
          IF s > Len(t) THEN 0 ELSE 1 + count[SkipTo(t, s, seps)]
    IN count[1]

\* The second one, and that of libsystemd_parse_name_list(): the separator that
\* ends a token is overwritten and passed.
Tokens(t, seps) ==
    LET rest[p \in 1 .. Len(t) + 1] ==
          LET s == SkipOver(t, p, seps)
              e == SkipTo(t, s, seps)
          IN IF s > Len(t) THEN <<>>
             ELSE <<SubSeq(t, s, e - 1)>> \o rest[IF e > Len(t) THEN e ELSE e + 1]
    IN rest[1]

Get(ctx, key, default) == IF key \in DOMAIN ctx THEN ctx[key] ELSE default

OneOf(value, known, default) == IF value \in known THEN value ELSE default

ServiceType(ctx)   == OneOf(Get(ctx, "type", <<"simple">>), {<<"simple">>, <<"oneshot">>, <<"library">>}, <<"simple">>)
RestartPolicy(ctx) == OneOf(Get(ctx, "restart", <<"no">>), {<<"no">>, <<"always">>, <<"on-failure">>}, <<"no">>)

DefaultTimeout == 3000

StopTimeout(ctx) ==
    LET text  == Get(ctx, "stop_timeout_ms", <<>>)
        value == Get(Numbers, text, DefaultTimeout) IN
    IF value < 0 THEN DefaultTimeout ELSE value

Streams(ctx) ==
    LET given == SelectSeq(<<"stdin", "stdout", "stderr", "stdlog">>, LAMBDA k : k \in DOMAIN ctx) IN
    [i \in DOMAIN given |-> [handle |-> given[i], path |-> ctx[given[i]]]]

NameList(ctx, key) == Tokens(Get(ctx, key, <<>>), Blank \cup {","})

Service(source, ctx, name, from_template) ==
    LET args == Get(ctx, "args", <<>>) IN
    [name            |-> name,
     source          |-> source,
     from_template   |-> from_template,
     type            |-> ServiceType(ctx),
     restart_policy  |-> RestartPolicy(ctx),
     stop_timeout_ms |-> StopTimeout(ctx),
     argc            |-> 1 + TokenCount(args, Blank),
     argv            |-> <<ctx["exec"]>> \o Tokens(args, Blank),
     streams         |-> Streams(ctx),
     required        |-> NameList(ctx, "requires"),
     after           |-> NameList(ctx, "after")]

-----------------------------------------------------------------------------
(* Walking a directory                                                     *)

Init ==
    /\ ExpInit
    /\ input \in Inputs
    /\ stage = "start"
    /\ stack = <<>>
    /\ unit = NoUnit
    /\ services = <<>> /\ templates = <<>> /\ rules = <<>>
    /\ reports = input.reports
    /\ event = NoReport
    /\ pending = <<>> /\ targets = <<>> /\ started = <<>>

Top   == Head(stack)
Entry == Head(Top.rest)
Path  == JoinPath(Top.dir, Entry.name)

Readable(in, dir) == dir \in DOMAIN in.tree
Opened(in, dir)   == [dir |-> dir, rest |-> in.tree[dir]]

\* dmini reads what a file says, or fails.
Parses(in, file)   == file \in DOMAIN in.files /\ in.files[file] # NONE
Sections(in, file) == IF file \in DOMAIN in.sections /\ in.sections[file] # NONE
                        THEN in.sections[file] ELSE <<>>

\* "." and ".." are passed over, and so is a directory that cannot be read.
Enters(in, dir, entry) ==
    /\ entry.name \notin {<<".">>, <<".", ".">>}
    /\ Readable(in, JoinPath(dir, entry.name))

\* The entry is dealt with.
Advanced == <<[dir |-> Top.dir, rest |-> Tail(Top.rest)]>> \o Tail(stack)

Walk ==
    /\ Idle /\ stack # <<>> /\ Top.rest # <<>>
    /\ Entry.dir
    /\ stack' = IF Enters(input, Top.dir, Entry) THEN <<Opened(input, Path)>> \o Advanced
                                                ELSE Advanced
    /\ UNCHANGED <<expVars, input, stage, unit, parsedVars, eventVars>>

Leave(next) ==
    /\ Idle /\ stack # <<>> /\ Top.rest = <<>>
    /\ stack' = Tail(stack)
    /\ stage' = IF Len(stack) = 1 THEN next ELSE stage
    /\ UNCHANGED <<expVars, input, unit, parsedVars, eventVars>>

\* The entry is a file the walk looks at.
AtFile(in, wanted) ==
    /\ Idle /\ stage = in /\ stack # <<>> /\ Top.rest # <<>>
    /\ ~Entry.dir
    /\ wanted

-----------------------------------------------------------------------------
(* The units directory                                                     *)

\* A scan of a directory that cannot be read fails; a mount point need not have
\* one.
OpenUnits ==
    /\ stage = "start"
    /\ IF Readable(input, UnitsRoot(input))
         THEN stage' = "units" /\ stack' = <<Opened(input, UnitsRoot(input))>>
         ELSE /\ stage' = IF input.source = NONE THEN "failed" ELSE "scanned"
              /\ UNCHANGED stack
    /\ UNCHANGED <<expVars, input, unit, parsedVars, eventVars>>

UnitsWalk == stage = "units" /\ (Walk \/ Leave("scanned"))

SkipUnit ==
    /\ AtFile("units", ~HasIni(Entry.name))
    /\ stack' = Advanced
    /\ UNCHANGED <<expVars, input, stage, unit, parsedVars, eventVars>>

FoundTemplate ==
    /\ AtFile("units", HasIni(Entry.name) /\ Kind(Entry.name) = "template")
    /\ stack' = Advanced
    /\ templates' = Append(templates, [prefix |-> Split(MakeUnitName(Entry.name)).prefix,
                                       dir |-> Top.dir, source |-> input.source])
    /\ UNCHANGED <<expVars, input, stage, unit, services, rules, eventVars>>

Override(f, g) == [k \in DOMAIN f \cup DOMAIN g |-> IF k \in DOMAIN f THEN f[k] ELSE g[k]]

\* Mutant: the template has the last word.
MergedBackwards(in, file, template) ==
    IF Parses(in, template) THEN Override(in.files[template], in.files[file])
                            ELSE in.files[file]

\* What an instance file does not say, the template of the same directory does.
Merged(in, file, template) ==
    IF Parses(in, template) THEN Override(in.files[file], in.files[template])
                            ELSE in.files[file]

\* The keys whose value contains a `%`.
ToExpand(ctx) == Keep(KeyOrder, {k \in DOMAIN ctx : Contains(ctx[k], "%")})

Parse(name, ctx, with, demand) ==
    unit' = [name |-> name, ctx |-> ctx, with |-> with, todo |-> ToExpand(ctx), demand |-> demand]

FoundUnit ==
    LET name == MakeUnitName(Entry.name)
        s    == Split(name) IN
    /\ AtFile("units", HasIni(Entry.name) /\ Kind(Entry.name) # "template")
    /\ stack' = Advanced
    /\ IF ~Parses(input, Path) THEN UNCHANGED unit
       ELSE IF Kind(Entry.name) = "instance"
         THEN Parse(name, Merged(input, Path, TemplatePath(Top.dir, s.prefix)),
                    Specifiers(s.prefix, s.instance, NONE, input.source), FALSE)
         ELSE Parse(name, input.files[Path], MountSpecifier(input.source), FALSE)
    /\ UNCHANGED <<expVars, input, stage, parsedVars, eventVars>>

\* libsystemd_apply_specifiers(), key by key.
ExpandKey ==
    /\ unit # NoUnit /\ unit.todo # <<>>
    /\ Begin([text |-> unit.ctx[Head(unit.todo)], with |-> unit.with])
    /\ UNCHANGED <<input, treeVars, unit, parsedVars, eventVars>>

Expanded ==
    /\ unit # NoUnit
    /\ Take
    /\ unit' = [unit EXCEPT !.ctx[Head(unit.todo)] = out, !.todo = Tail(@)]
    /\ UNCHANGED <<input, treeVars, parsedVars, eventVars>>

AllExpanded == unit # NoUnit /\ unit.todo = <<>> /\ pass = "idle"

Known(name) == \E i \in DOMAIN services : services[i].name = name

\* The first in the list is the one a name finds.
Place(name) == Min({i \in DOMAIN services : services[i].name = name})

ServiceOf(name) == services[Place(name)]

Done(name, service, active) == [target |-> name, service |-> service, active |-> active]

\* A unit without exec is dropped; a target that was to be made of it is not
\* started.
BuildFails ==
    /\ AllExpanded
    /\ "exec" \notin DOMAIN unit.ctx
    /\ unit' = NoUnit
    /\ started' = IF unit.demand THEN Append(started, Done(unit.name, <<>>, FALSE)) ELSE started
    /\ UNCHANGED <<expVars, input, treeVars, parsedVars, reports, event, pending, targets>>

\* The service goes to the end of the registry, or takes the place of the one it
\* is made again for.
Build ==
    LET service == Service(input.source, unit.ctx, unit.name, unit.demand) IN
    /\ AllExpanded
    /\ "exec" \in DOMAIN unit.ctx
    /\ unit' = NoUnit
    /\ services' = IF unit.demand /\ Known(unit.name)
                     THEN [services EXCEPT ![Place(unit.name)] = service]
                     ELSE Append(services, service)
    /\ started' = IF unit.demand THEN Append(started, Done(unit.name, <<service>>, FALSE)) ELSE started
    /\ UNCHANGED <<expVars, input, treeVars, templates, rules, reports, event, pending, targets>>

-----------------------------------------------------------------------------
(* The rules directory                                                     *)

Loaded == IF input.source = NONE THEN "ready" ELSE "mounted"

\* The systemd program ends with an error if there are no rules to read; the
\* registry is there nevertheless.
OpenRules ==
    /\ stage = "scanned"
    /\ IF Readable(input, RulesRoot(input))
         THEN stage' = "rules" /\ stack' = <<Opened(input, RulesRoot(input))>>
         ELSE stage' = Loaded /\ UNCHANGED stack
    /\ UNCHANGED <<expVars, input, unit, parsedVars, eventVars>>

RulesWalk == stage = "rules" /\ (Walk \/ Leave(Loaded))

\* A section "class=<class>" with at least one target is a rule.
IsRule(section) ==
    /\ Len(section.name) > 1 /\ Head(section.name) = "class="
    /\ section.start # NONE \/ section.remove # NONE

RuleOf(section) ==
    IF IsRule(section) THEN <<[class |-> Tail(section.name), start |-> section.start,
                               remove |-> section.remove]>>
                       ELSE <<>>

RulesIn(sections) == FlattenSeq([i \in DOMAIN sections |-> RuleOf(sections[i])])

ReadRules ==
    /\ AtFile("rules", TRUE)
    /\ stack' = Advanced
    /\ rules' = IF HasRules(Entry.name) THEN rules \o RulesIn(Sections(input, Path)) ELSE rules
    /\ UNCHANGED <<expVars, input, stage, unit, services, templates, eventVars>>

-----------------------------------------------------------------------------
(* Devices                                                                 *)

\* A removal stops what the rules start, and then starts what they name for it.
Field(r, rule) == IF r.what = "cleaning" THEN rule.remove ELSE rule.start

\* The target a rule names for the report, if it does.
Matching(r, rule) ==
    IF rule.class = r.class /\ Field(r, rule) # NONE THEN <<Field(r, rule)>> ELSE <<>>

Handles(r) ==
    /\ event' = r
    /\ pending' = FlattenSeq([i \in DOMAIN rules |-> Matching(r, rules[i])])
    /\ UNCHANGED <<expVars, input, stack, unit, parsedVars, targets, started>>

MountReport(source) ==
    [class |-> <<"mount">>, name |-> MountDeviceName(source), value |-> source, what |-> "added"]

\* _mount_changed(): the mount point is a device of its own.
ReportMount ==
    /\ stage = "mounted" /\ stage' = "ready"
    /\ Handles(MountReport(input.source))
    /\ UNCHANGED reports

SecondHalf(r) == IF r.what = "removed" THEN <<[r EXCEPT !.what = "cleaning"]>> ELSE <<>>

Report ==
    /\ stage = "ready" /\ event = NoReport /\ reports # <<>>
    /\ reports' = SecondHalf(Head(reports)) \o Tail(reports)
    /\ Handles(Head(reports))
    /\ UNCHANGED stage

\* libsystemd_resolve_device_targets(): all targets are expanded first.
ExpandTarget ==
    /\ event # NoReport /\ pending # <<>>
    /\ Begin([text |-> Head(pending), with |-> DeviceName(event.name)])
    /\ UNCHANGED <<input, treeVars, unit, parsedVars, eventVars>>

Resolved ==
    /\ event # NoReport /\ unit = NoUnit
    /\ Take
    /\ pending' = Tail(pending)
    /\ targets' = Append(targets, out)
    /\ UNCHANGED <<input, treeVars, unit, parsedVars, reports, event, started>>

AtTarget == Idle /\ event # NoReport /\ pending = <<>> /\ targets # <<>>

\* Nothing is made to be stopped.
StopTarget ==
    LET name == Head(targets) IN
    /\ AtTarget /\ event.what = "removed"
    /\ targets' = Tail(targets)
    /\ started' = Append(started, Done(name, IF Known(name) THEN <<ServiceOf(name)>> ELSE <<>>, FALSE))
    /\ UNCHANGED <<expVars, input, treeVars, unit, parsedVars, reports, event, pending>>

MayStart == AtTarget /\ event.what # "removed"

\* A library may have been started, or be enabled without the functions that
\* start it: it is left alone then.
Actives(service) == IF service.type = <<"library">> THEN BOOLEAN ELSE {FALSE}

\* Mutant: what was made once is never made again.
NeverRefreshed(service, active) == FALSE

\* libsystemd_refresh_library_instance(): the instance is made again, with the
\* value the device has now.
Refreshed(service, active) ==
    /\ service.from_template /\ service.type = <<"library">>
    /\ event.value # NONE /\ ~active

StartKnown ==
    LET name == Head(targets) IN
    /\ MayStart /\ Known(name)
    /\ \E active \in Actives(ServiceOf(name)) :
         /\ ~Refreshed(ServiceOf(name), active)
         /\ started' = Append(started, Done(name, <<ServiceOf(name)>>, active))
    /\ targets' = Tail(targets)
    /\ UNCHANGED <<expVars, input, treeVars, unit, parsedVars, reports, event, pending>>

\* The name has no service, or one that is to be made again.
Wanted(name) == Known(name) => Refreshed(ServiceOf(name), FALSE)

\* g_units_dir is set.
HasUnitsDir(in) == in.source = NONE \/ in.scanned

\* No instance is made without a units directory, so there is none to be made
\* again without one either.
HasTemplate(name) ==
    /\ HasUnitsDir(input)
    /\ IsInstanceName(name)
    /\ \E i \in DOMAIN templates : templates[i].prefix = Split(name).prefix

TemplateOf(name) == templates[Min({i \in DOMAIN templates : templates[i].prefix = Split(name).prefix})]

TemplateFile(name) == TemplatePath(TemplateOf(name).dir, TemplateOf(name).prefix)

StartUnknown ==
    LET name == Head(targets) IN
    /\ MayStart /\ Wanted(name)
    /\ HasTemplate(name) => ~Parses(input, TemplateFile(name))
    /\ targets' = Tail(targets)
    /\ started' = Append(started, Done(name, <<>>, FALSE))
    /\ UNCHANGED <<expVars, input, treeVars, unit, parsedVars, reports, event, pending>>

StartInstance ==
    LET name == Head(targets)
        s    == Split(name) IN
    /\ MayStart /\ Wanted(name)
    /\ HasTemplate(name) /\ Parses(input, TemplateFile(name))
    /\ targets' = Tail(targets)
    /\ Parse(UnitName(s.prefix, s.instance), input.files[TemplateFile(name)],
             Specifiers(s.prefix, s.instance, event.value, TemplateOf(name).source), TRUE)
    /\ UNCHANGED <<expVars, input, treeVars, parsedVars, reports, event, pending, started>>

Handled ==
    /\ Idle /\ event # NoReport /\ pending = <<>> /\ targets = <<>>
    /\ event' = NoReport
    /\ UNCHANGED <<expVars, input, treeVars, unit, parsedVars, reports, pending, targets, started>>

-----------------------------------------------------------------------------
Expanding == ExpStep /\ UNCHANGED <<input, treeVars, unit, parsedVars, eventVars>>

Next ==
    \/ OpenUnits \/ UnitsWalk \/ SkipUnit \/ FoundTemplate \/ FoundUnit
    \/ ExpandKey \/ Expanding \/ Expanded \/ BuildFails \/ Build
    \/ OpenRules \/ RulesWalk \/ ReadRules
    \/ ReportMount \/ Report \/ ExpandTarget \/ Resolved
    \/ StopTarget \/ StartKnown \/ StartUnknown \/ StartInstance \/ Handled

Spec == Init /\ [][Next]_vars

-----------------------------------------------------------------------------
(* What the files mean: the same, said of each file as a whole and without  *)
(* the order in which the code goes about it.                              *)

\* The longest stretches without a separator, each where it begins.
WordAt(text, seps, p) ==
    LET lasts == {q \in p .. Len(text) : q = Len(text) \/ text[q + 1] \in seps} IN
    IF text[p] \notin seps /\ (p = 1 \/ text[p - 1] \in seps)
      THEN <<SubSeq(text, p, Min(lasts))>> ELSE <<>>

Words(text, seps) == FlattenSeq([p \in DOMAIN text |-> WordAt(text, seps, p)])

\* The files under a directory that can be reached, in order.
Under(in, root) ==
    LET under[dir \in DOMAIN in.tree] ==
          FlattenSeq([i \in DOMAIN in.tree[dir] |->
            LET entry == in.tree[dir][i] IN
            IF ~entry.dir THEN <<[dir |-> dir, name |-> entry.name]>>
            ELSE IF Enters(in, dir, entry) THEN under[JoinPath(dir, entry.name)] ELSE <<>>])
    IN IF Readable(in, root) THEN under[root] ELSE <<>>

\* The unit the keys make, if they make one.
UnitOf(in, ctx, name, with, demand) ==
    LET says == [k \in DOMAIN ctx |-> Meaning(ctx[k], with)]
        args == Words(Get(says, "args", <<>>), Blank)
        list(k) == Words(Get(says, k, <<>>), Blank \cup {","})
    IN IF "exec" \notin DOMAIN ctx THEN <<>>
       ELSE <<[Service(in.source, says, name, demand) EXCEPT
                 !.argc = 1 + Len(args), !.argv = <<says["exec"]>> \o args,
                 !.required = list("requires"), !.after = list("after")]>>

\* The unit a name that is not a template's stands for: its own file's keys
\* come before those of a template in the same directory.
InstanceOf(in, dir, name, own, value, demand) ==
    LET at == Min(Ats(name))
        template == TemplatePath(dir, Before(name, at))
        says(k) == IF k \in DOMAIN own THEN own[k] ELSE in.files[template][k]
        keys == DOMAIN own \cup (IF Parses(in, template) THEN DOMAIN in.files[template] ELSE {})
    IN UnitOf(in, [k \in keys |-> says(k)], name,
              Specifiers(Before(name, at), Behind(name, at), value, in.source), demand)

\* The template, or the unit, a file of the units directory holds, if any.
IsTemplate(file) == HasIni(file) /\ Ats(file) = {Len(file) - 1}

TemplateIn(in, f) ==
    IF IsTemplate(f.name)
      THEN <<[prefix |-> Before(f.name, Len(f.name) - 1), dir |-> f.dir, source |-> in.source]>>
      ELSE <<>>

UnitIn(in, f) ==
    LET name == Front(f.name)
        file == JoinPath(f.dir, f.name) IN
    IF ~HasIni(f.name) \/ IsTemplate(f.name) \/ ~Parses(in, file) THEN <<>>
    ELSE IF Ats(name) # {} THEN InstanceOf(in, f.dir, name, in.files[file], NONE, FALSE)
    ELSE UnitOf(in, in.files[file], name, MountSpecifier(in.source), FALSE)

\* The services, and the templates, the units directory holds.
UnitsMeant(in) ==
    LET files == Under(in, UnitsRoot(in)) IN FlattenSeq([i \in DOMAIN files |-> UnitIn(in, files[i])])

TemplatesMeant(in) ==
    LET files == Under(in, UnitsRoot(in)) IN FlattenSeq([i \in DOMAIN files |-> TemplateIn(in, files[i])])

\* The sections of the rules files.
SectionsIn(in, f) == IF HasRules(f.name) THEN Sections(in, JoinPath(f.dir, f.name)) ELSE <<>>

SectionsMeant(in) ==
    LET files == Under(in, RulesRoot(in)) IN FlattenSeq([i \in DOMAIN files |-> SectionsIn(in, files[i])])

\* The target a section names for a report, if it does, and what it stands for.
TargetIn(r, section) ==
    IF r.class # <<>> /\ section.name = <<"class=">> \o r.class /\ Field(r, section) # NONE
      THEN <<[target |-> Meaning(Field(r, section), DeviceName(r.name)), value |-> r.value,
             stop |-> r.what = "removed"]>>
      ELSE <<>>

TargetsMeant(in, r) ==
    LET sections == SectionsMeant(in) IN
    FlattenSeq([i \in DOMAIN sections |-> TargetIn(r, sections[i])])

\* Reports, a removal in its two halves.
Halves(all) == FlattenSeq([i \in DOMAIN all |-> <<all[i]>> \o SecondHalf(all[i])])

Reported(in) == (IF in.source = NONE THEN <<>> ELSE <<MountReport(in.source)>>) \o Halves(in.reports)

\* All the targets that are to be started or stopped.
Meant(in) ==
    LET all == Reported(in) IN FlattenSeq([i \in DOMAIN all |-> TargetsMeant(in, all[i])])

\* An instance made on demand is the one an empty file of its name, beside the
\* first template of its prefix, would have made, but for its value; none is made
\* before a units directory was scanned.
MadeOf(in, name, value) ==
    LET at == Min(Ats(name))
        found == {i \in DOMAIN TemplatesMeant(in) : TemplatesMeant(in)[i].prefix = Before(name, at)}
        dir == TemplatesMeant(in)[Min(found)].dir IN
    IF ~HasUnitsDir(in) \/ Ats(name) = {} \/ at = 1 \/ at = Len(name) \/ found = {} THEN <<>>
    ELSE IF ~Parses(in, TemplatePath(dir, Before(name, at))) THEN <<>>
    ELSE InstanceOf(in, dir, name, [k \in {} |-> <<>>], value, TRUE)

-----------------------------------------------------------------------------
(* Properties                                                              *)

\* The units directory becomes exactly the services its files stand for, in the
\* order they are found, whatever the nesting, the templates, the placeholders
\* and the blanks in them; no argument is lost, empty or left unset.  In a unit
\* that is not an instance only `%m` stands for something, also behind a `%`.
UnitsRight ==
    stage \notin {"start", "units", "failed"} =>
        LET meant == UnitsMeant(input) IN
        /\ SubSeq(services, 1, Len(meant)) = meant
        /\ \A i \in Len(meant) + 1 .. Len(services) : services[i].from_template

\* What the documentation says of `%%` in a unit that is not an instance: it is
\* copied as it is, whatever follows it (libsystemd_substitute_mount_specifier()).
\* UnitsRight says what the code does: the second `%` may begin a `%m`.
PercentKept ==
    (pass = "done" /\ job.with = MountSpecifier(input.source)) =>
        out = Meaning(job.text, [c \in {"m", "%"} |->
                                   IF c = "m" THEN MountPoint(input.source) ELSE <<"%", "%">>])

\* An instance made before is to be made again: an inactive library's, for a
\* value.
Renewed(service, m, active) == service.type = <<"library">> /\ m.value # NONE /\ ~active

\* What the target m is to come to after the first n: a unit of the units
\* directory, the instance last made on demand, or a new one; nothing is made to
\* be stopped.
Expected(in, n, m, active) ==
    LET disk == {i \in DOMAIN UnitsMeant(in) : UnitsMeant(in)[i].name = m.target}
        made == {i \in 1 .. n : started[i].target = m.target /\ started[i].service # <<>>}
        last == started[Max(made)].service IN
    IF disk # {} THEN <<UnitsMeant(in)[Min(disk)]>>
    ELSE IF made # {} /\ (m.stop \/ ~Renewed(last[1], m, active)) THEN last
    ELSE IF m.stop THEN <<>> ELSE MadeOf(in, m.target, m.value)

\* A device starts exactly the units the rules of its class name, with its own
\* name in them, once, also if the name holds an `@` or a `%`; its removal stops
\* them before it starts those named for it.  An instance made for a device is
\* what a file would have made; the next report finds it again, but an inactive
\* library's, which is made again with the value of the report.
ReportsRight ==
    (stage = "ready" /\ event = NoReport /\ reports = <<>>) =>
        LET meant == Meant(input) IN
        /\ Len(started) = Len(meant)
        /\ \A i \in DOMAIN started :
             /\ started[i].target = meant[i].target
             /\ started[i].service = Expected(input, i - 1, meant[i], started[i].active)
=============================================================================
