------------------------------- MODULE Launch -------------------------------
(***************************************************************************)
(* From the start of the proxy to a Minecraft that it can reach: the       *)
(* ports and the java command of Config::runtime, the rewrite of           *)
(* server.properties that action/start.rs does once, and every Minecraft   *)
(* that is run afterwards, which loads and stores the same file.           *)
(***************************************************************************)
EXTENDS ServerProperties

CONSTANTS
    ServerPorts, \* what SERVER_PORT may hold, as a number, or None
    ArgLists,    \* some lists of arguments, for java or for its jar, of plain
                 \* words: nothing of PlexPaper's own, and no jar
    Files,       \* the contents the operator may give the file
    Rcon,        \* rcon.enabled: a build for Windows
    MaxStarts    \* bounds how often the proxy is started

Port     == "server-port"
Password == "rcon.password"
Managed  == IF Rcon THEN {Port, Password} ELSE {Port}

U16 == 0 .. 65535

\* No arguments, wherever they stand: java_args takes them for its own command.
Dropped == {"", "start", "run"}

ASSUME FlagTyped        == Rcon \in BOOLEAN
ASSUME MaxStartsTyped   == MaxStarts \in Nat
ASSUME ServerPortsTyped == ServerPorts \subseteq Nat \cup {None}
ASSUME ArgListsTyped    == \A args \in ArgLists : args \in Seq(STRING)
ASSUME ArgListsPlain    ==
    \A args \in ArgLists : \A i \in DOMAIN args : args[i] \notin Dropped \cup {"-jar"}
ASSUME FilesTyped       == \A f \in Files : f \in Seq(Lines)
ASSUME PortsAreValues   == U16 \cup 1 .. MaxStarts \subseteq Values
ASSUME CutIsNoSetting   == Cut \notin U16 \cup 1 .. MaxStarts
ASSUME ManagedAreKeys   == {Port, Password} \subseteq Keys

PUBLIC_PORT_DEFAULT    == 25565
INTERNAL_PORT_PRIMARY  == 25566
INTERNAL_PORT_FALLBACK == 25567

-----------------------------------------------------------------------------
(* Config::runtime.                                                        *)

\* Mutant of EnvU16: a number too large for sixteen bits is taken as it is.
EnvU16Wide(v) == v

\* env_u16: not set, not a number, or too large for sixteen bits is None.
EnvU16(v) == IF v \in U16 THEN v ELSE None

PublicPort(v) == IF EnvU16(v) = None THEN PUBLIC_PORT_DEFAULT ELSE EnvU16(v)

\* Mutant of InternalPort: the primary port even if the proxy listens on it.
InternalPortFixed(listening) == INTERNAL_PORT_PRIMARY

InternalPort(listening) ==
    IF listening = INTERNAL_PORT_PRIMARY THEN INTERNAL_PORT_FALLBACK
    ELSE INTERNAL_PORT_PRIMARY

Has(args, arg) == \E i \in DOMAIN args : args[i] = arg

\* java_args of main.rs, and the blank arguments that build_command drops.
JavaArgs(args) ==
    LET kept[n \in 0 .. Len(args)] ==
            IF n = 0 THEN <<>>
            ELSE IF args[n] \in Dropped THEN kept[n - 1]
            ELSE Append(kept[n - 1], args[n])
    IN  kept[Len(args)]

\* JAVA_ARGS_DEFAULT, whose options do not matter one by one.
JAVA_ARGS_DEFAULT == <<"-Xms128M", "-jar">>

JarFile == "server.jar"

OrDefault(args)   == IF args = <<>> THEN JAVA_ARGS_DEFAULT ELSE args
WithJarFlag(args) == IF Has(args, "-jar") THEN args ELSE Append(args, "-jar")

\* Mutant of WithJar: the jar is added behind whatever comes last.
WithJarAnyway(args) == Append(args, JarFile)

WithJar(args)   == IF args[Len(args)] = "-jar" THEN Append(args, JarFile) ELSE args
WithNoGui(args) == IF Has(args, "--nogui") THEN args ELSE Append(args, "--nogui")

\* build_command; quoting keeps the arguments apart and is left out.
BuildCommand(args) ==
    <<"java">> \o WithNoGui(WithJar(WithJarFlag(OrDefault(JavaArgs(args)))))

-----------------------------------------------------------------------------
VARIABLES
    exists,   \* there is a server.properties
    lines,    \* what it holds
    proxy,    \* off, rewrite (before service), serve
    starts,   \* how often the proxy was started: its RCON passwords differ
    public,   \* the port the proxy listens on
    settings, \* the changes of rewrite_server_properties
    written,  \* the rewrite of this start went well
    minecraft, \* whether it runs, and what it was last run with
    sure      \* history: the file was in order when it was rewritten, and
              \* nobody but Minecraft has written to it since

fileVars  == <<exists, lines>>
proxyVars == <<proxy, starts, public, settings, written>>
vars == <<fileVars, proxyVars, minecraft, sure>>

NoMinecraft == [up |-> FALSE, port |-> None, password |-> None, sure |-> FALSE]

Init ==
    /\ \/ exists = FALSE /\ lines = <<>>
       \/ exists = TRUE /\ lines \in Files
    /\ proxy = "off" /\ starts = 0 /\ written = FALSE
    /\ public = None /\ settings = [k \in Managed |-> None]
    /\ minecraft = NoMinecraft /\ sure = FALSE

\* action::start::invoke: Config::runtime and prepare_rcon.
Start ==
    /\ proxy = "off" /\ starts < MaxStarts
    /\ proxy' = "rewrite" /\ starts' = starts + 1
    /\ \E v \in ServerPorts :
          /\ public' = PublicPort(v)
          /\ settings' = [k \in Managed |->
                            IF k = Port THEN InternalPort(public') ELSE starts']
    /\ written' = FALSE /\ sure' = FALSE
    /\ minecraft' = NoMinecraft
    /\ UNCHANGED fileVars

-----------------------------------------------------------------------------
(* rewrite_server_properties, and on to service.                           *)

Rewriting ==
    /\ proxy = "rewrite"
    /\ UNCHANGED <<exists, starts, public, settings, minecraft>>

\* "Not writing server.properties file, not found", could not be read, or could
\* not be opened for writing: the service starts all the same.
NotRewritten ==
    /\ Rewriting
    /\ proxy' = "serve"
    /\ UNCHANGED <<lines, written, sure>>

\* Nothing to change, or all of it was changed.
Rewrite ==
    /\ Rewriting /\ exists
    /\ IF Changed(lines, settings) THEN lines' \in Rewrites(lines, settings)
       ELSE UNCHANGED lines
    /\ proxy' = "serve" /\ written' = TRUE
    /\ sure' = Distinct(lines)

\* fs::write fails half way, or the proxy is killed in the middle of it.
TornRewrite ==
    /\ Rewriting /\ exists /\ Changed(lines, settings)
    /\ \E new \in Rewrites(lines, settings) : lines' \in Torn(new)
    /\ proxy' \in {"serve", "off"}
    /\ UNCHANGED <<written, sure>>

-----------------------------------------------------------------------------
(* Minecraft, as far as the proxy depends on it: it loads the file, gives   *)
(* each property it knows a value, and stores what it has, one line for     *)
(* each key, before it opens its port.                                      *)

Default(k) == IF k = Port THEN PUBLIC_PORT_DEFAULT ELSE 0

Known == {Port, Password}

InEffect(k) == IF Loaded(lines, k) = None THEN Default(k) ELSE Loaded(lines, k)

\* What is stored: the properties it knows, and what else it has loaded.
Stored ==
    {Pair(k, InEffect(k)) : k \in Known} \cup
    {lines[i] : i \in {j \in DOMAIN lines :
        /\ lines[j].key # NoKey /\ IsLast(lines, j)
        /\ lines[j].exact => lines[j].key \notin Known}}

MinecraftStarts ==
    /\ proxy = "serve" /\ ~minecraft.up
    /\ exists' = TRUE
    /\ \E order \in Orders(Stored) : lines' = <<Text>> \o order
    /\ minecraft' = [up |-> InEffect(Port) # public,    \* or it cannot bind
                     port |-> InEffect(Port), password |-> InEffect(Password),
                     sure |-> sure]
    /\ UNCHANGED <<proxyVars, sure>>

MinecraftEnds ==
    /\ minecraft.up
    /\ minecraft' = NoMinecraft
    /\ UNCHANGED <<fileVars, proxyVars, sure>>

\* The proxy ends once its server has ended.
End ==
    /\ proxy = "serve" /\ ~minecraft.up
    /\ proxy' = "off"
    /\ UNCHANGED <<fileVars, starts, public, settings, written, minecraft, sure>>

\* The operator edits the file, or removes it.
Edit ==
    /\ \/ exists' = FALSE /\ lines' = <<>>
       \/ exists' = TRUE /\ lines' \in Files
    /\ sure' = FALSE
    /\ UNCHANGED <<proxyVars, minecraft>>

Next ==
    \/ Start \/ NotRewritten \/ Rewrite \/ TornRewrite
    \/ MinecraftStarts \/ MinecraftEnds \/ End \/ Edit

Spec == Init /\ [][Next]_vars

-----------------------------------------------------------------------------
TypeOK ==
    /\ exists \in BOOLEAN /\ lines \in Seq(Lines)
    /\ proxy \in {"off", "rewrite", "serve"} /\ starts \in 0 .. MaxStarts
    /\ public \in U16 \cup {None}
    /\ settings \in [Managed -> Values \cup {None}]
    /\ written \in BOOLEAN /\ sure \in BOOLEAN
    /\ minecraft \in [up: BOOLEAN, port: Values \cup {None},
                      password: Values \cup {None}, sure: BOOLEAN]

\* A Minecraft whose file was in order when the proxy rewrote it, and which
\* only Minecraft has written to since, comes up (its port is not the proxy's
\* own), listens where the proxy dials it and takes the RCON password of this
\* start of the proxy, however often it slept in between and whatever earlier
\* proxies left in the file.  The proxy compares keys in lower case and changes
\* the first line that has one (rewrite_contents); Minecraft compares them as
\* spelled and believes the last.
MinecraftReachable ==
    minecraft.sure =>
        /\ minecraft.up /\ minecraft.port = settings[Port]
        /\ Rcon => minecraft.password = settings[Password]

\* What the arguments may be meant to say: options for java, a jar of one's
\* own or none, and arguments for that jar.
Meant(opts, jar, game) == <<"java">> \o opts \o <<"-jar", jar>> \o game

\* java is given the options, one jar right behind the only -jar, and what the
\* jar is to get, in the order they were given, whether or not the jar, the
\* flag before it or all arguments are left out (build_command, java_args).
\* Nothing of the state matters here: before the first start is soon enough.
CommandAsMeant ==
    starts = 0 => \A opts, game \in ArgLists, word \in {<<>>, <<"start">>, <<"", "run">>} :
        LET nogui == IF Has(game, "--nogui") THEN <<>> ELSE <<"--nogui">> IN
        /\ ~Has(opts, "--nogui") =>
              /\ BuildCommand(word \o opts \o <<"-jar", "my.jar">> \o game)
                    = Meant(opts, "my.jar", game \o nogui)
              /\ BuildCommand(word \o opts \o <<"-jar">>) = Meant(opts, JarFile, <<"--nogui">>)
              /\ opts # <<>> =>
                    BuildCommand(word \o opts) = Meant(opts, JarFile, <<"--nogui">>)
        /\ BuildCommand(word) = Meant(<<"-Xms128M">>, JarFile, <<"--nogui">>)

\* The lines that set what the proxy does not manage, each at its place.
Unmanaged ==
    [i \in {j \in DOMAIN lines : lines[j].key \notin Managed \cup {NoKey}} |-> lines[i]]

Map == INSTANCE PropertyMap WITH
    phase  <- proxy,
    values <- [k \in Managed |-> Read(lines, k)],
    rest   <- Unmanaged

\* By the proxy's own reading of the file (read_property), a rewrite sets what
\* it manages and nothing else, whatever the file looked like, and one that
\* breaks off only loses the tail.
ImplementsPropertyMap == Map!Spec
=============================================================================
