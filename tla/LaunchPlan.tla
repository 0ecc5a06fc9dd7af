----------------------------- MODULE LaunchPlan -----------------------------
(***************************************************************************)
(* From a create request to the command line of QEMU: the resolved         *)
(* document is rendered into a planner profile (render_domain_launch_plan, *)
(* api/lifecycle.rs), the planner appends the options of one part after    *)
(* another (engine/plan.rs), LaunchSpec::from_plan keeps what is to be     *)
(* prepared and start picks the VNC port. Between creation and start the   *)
(* registered engine builds and the image may change.                      *)
(*                                                                         *)
(* An argument is its option, its kind, the id it defines and the          *)
(* <<class, id>> pairs it names; sizes, paths and wording are left out.    *)
(***************************************************************************)
EXTENDS Resolution

CONSTANTS
    Requests,       \* create requests: profile, identity, overrides, image, busy
    Ports,          \* the ports 5900-5999, in order
    Builds          \* builds an engine track can be registered with

ASSUME PortsAssumption == Ports \in Seq(Nat)

\* "replaced" stands for what a later registration of the image holds.
ASSUME RequestsAssumption ==
    \A asked \in Requests : \A c \in DOMAIN asked.image.components :
      asked.image.components[c].artifact # "replaced"

VARIABLES
    request,        \* what the owner asked for
    image,          \* the image manifest of the workspace
    builds,         \* the registered engine builds, in order
    document,       \* the resolved instance document
    profile,        \* what the renderer hands to the planner
    argv,           \* the command line so far
    prepared,       \* state file -> what start creates it from
    stage           \* the step that comes next, "started" or "refused"

planVars == <<request, image, builds, document, profile, argv, prepared, stage>>

PlanInit ==
    /\ request \in Requests
    /\ image = request.image
    /\ builds = request.engines
    /\ document = Unset
    /\ profile = Unset
    /\ argv = <<>>
    /\ prepared = <<>>
    /\ stage = "create"

-----------------------------------------------------------------------------
Arg(opt, kind) == [opt |-> opt, kind |-> kind, id |-> "", uses |-> {}]
Defining(opt, kind, id, uses) == [opt |-> opt, kind |-> kind, id |-> id, uses |-> uses]
Using(opt, kind, uses) == Defining(opt, kind, "", uses)

CreateInstance ==
    LET resolved == Resolve(request, image, builds)
    IN  /\ stage = "create"
        /\ document' = resolved
        /\ stage' = IF resolved = Refused THEN "refused" ELSE "created"
        /\ UNCHANGED <<request, image, builds, profile, argv, prepared>>

\* `machineemu run` of any instance rewrites the registration of its engine
\* track; the image may be registered again with another root disk.
ReregisterEngine ==
    /\ stage = "created"
    /\ \E i \in DOMAIN builds, build \in Builds :
         builds' = [builds EXCEPT ![i].build = build]
    /\ UNCHANGED <<request, image, document, profile, argv, prepared, stage>>

ReplaceImage ==
    /\ stage = "created"
    /\ image' = [image EXCEPT !.components =
                   [c \in DOMAIN @ |-> [@[c] EXCEPT !.artifact = "replaced"]]]
    /\ UNCHANGED <<request, builds, document, profile, argv, prepared, stage>>

-----------------------------------------------------------------------------
(* render_domain_launch_plan                                               *)

Items(devices, collection) == Field(devices, collection, <<>>)

ConsoleOf(devices) ==
    LET compact == Field(devices, "compact", <<>>)
    IN  IF Items(devices, "graphics") # <<>> THEN Field(devices.graphics[1], "type", "none")
        ELSE IF Has(compact, "console") THEN Field(compact.console, "type", "none") ELSE "none"

RootDisk(disks) ==
    LET root == Where(disks, LAMBDA disk : Field(disk, "role", "") = "root")
    IN  disks[IF root = 0 THEN 1 ELSE root]

RenderedStorage(doc) ==
    IF Has(doc, "storage") THEN [storage |-> doc.storage]
    ELSE IF Items(doc.devices, "disks") = <<>> THEN <<>>
    ELSE LET disk == RootDisk(doc.devices.disks)
         IN  [storage |-> [disk |-> [component |-> disk.component, bus |-> disk.bus]]]

\* As if the renderer copied the model of the interface and not its address.
RenderedNetworkModel(doc) ==
    IF Has(doc, "network") THEN [network |-> doc.network]
    ELSE IF Items(doc.devices, "interfaces") = <<>> THEN <<>>
    ELSE LET nic == doc.devices.interfaces[1]
         IN  [network |-> [type |-> Field(nic, "network", "user")], nic |-> nic.model]

\* Only without a network of its own does the profile take the first
\* interface: its network type, and its model and address for the card.
RenderedNetwork(doc) ==
    IF Has(doc, "network") THEN [network |-> doc.network]
    ELSE IF Items(doc.devices, "interfaces") = <<>> THEN <<>>
    ELSE LET nic == doc.devices.interfaces[1]
         IN  [network |-> [type |-> Field(nic, "network", "user")], nic |-> nic.model, mac |-> nic.mac]

VideoOf(devices) == IF Items(devices, "video") = <<>> THEN "" ELSE devices.video[1].model
SerialOf(devices) ==
    IF Items(devices, "serial") = <<>> THEN "none" ELSE Field(devices.serial[1], "type", "none")

Rendered(doc) ==
    [machine    |-> doc.machine,
     engine     |-> doc.engine,
     components |-> doc.components,
     console    |-> ConsoleOf(doc.devices),
     video      |-> VideoOf(doc.devices),
     serial     |-> SerialOf(doc.devices),
     audio      |-> Field(doc.devices, "audio", "none"),
     with       |-> Field(doc.devices, "with", {})]
    ++ RenderedStorage(doc) ++ RenderedNetwork(doc)
    ++ [k \in {"boot", "firmware", "tpm", "analysis"} \intersect DOMAIN doc |-> doc[k]]

-----------------------------------------------------------------------------
(* build_plan: what it refuses before it writes an option.                 *)

GlVideo == {"virtio-vga-gl", "virtio-gpu-gl"}
IsQ35(machine) == machine \in {"q35", "pc-q35"}

SettingsValid(p) ==
    /\ Has(p, "boot") /\ Field(p.boot, "from", "") = "disk" =>
         Has(p, "storage") /\ Has(p.storage, "disk")
    /\ p.console \in {"none", "vnc", "h264", "serial"}
    /\ p.serial \in {"none", "file", "socket", "stdout"}
    /\ p.video \in {"", "vga", "virtio-vga"} \union GlVideo
    /\ p.video \in GlVideo => p.console = "h264"
    /\ Has(p, "analysis") => IsQ35(p.machine) \/ p.machine = "pc"

RootPort(id) == Defining("-device", "pcie-root-port", id, {})

MachineOptions(p) ==
    <<Arg("-machine", p.machine)>>
    \o (IF IsQ35(p.machine)
        THEN <<RootPort("pcie-root-port-iso"), RootPort("pcie-root-port-1"), RootPort("pcie-root-port-2")>>
        ELSE <<>>)
    \o <<Arg("-smp", "vcpus"), Arg("-qmp", "qmp.sock"), Arg("-pidfile", "qemu.pid")>>

RenderPlan ==
    LET p == Rendered(document)
    IN  /\ stage = "created"
        /\ profile' = p
        /\ IF SettingsValid(p)
           THEN argv' = MachineOptions(p) /\ stage' = "network"
           ELSE stage' = "refused" /\ UNCHANGED argv
        /\ UNCHANGED <<request, image, builds, document, prepared>>

\* One step of build_plan: the options of a part, or its refusal.
Extend(from, to, options) ==
    /\ stage = from
    /\ IF options = Refused
       THEN stage' = "refused" /\ UNCHANGED argv
       ELSE stage' = to /\ argv' = argv \o options
    /\ UNCHANGED <<request, image, builds, document, profile, prepared>>

\* The address the profile declares, or the one of the instance's name.
Address(p) == Field(p, "mac", <<"instance", 0>>)

Card(kind, netdev, mac) == Using("-device", kind, {<<"netdev", netdev>>}) ++ [mac |-> mac]

NetworkType(p, default) == IF Has(p, "network") THEN Field(p.network, "type", default) ELSE default

Network(p) ==
    LET type == NetworkType(p, "user")
        card == Card(Field(p, "nic", "virtio-net-pci"), "net0", Address(p))
    IN  CASE type = "disabled" -> <<Arg("-nic", "none")>>
          [] type = "user"     -> <<Defining("-netdev", "user", "net0", {}), card>>
          [] type = "bridge" /\ Has(p.network, "bridge")
                               -> <<Defining("-netdev", "bridge", "net0", {}), card>>
          [] OTHER             -> Refused

UdmPorts == <<"udm-port0", "udm-port1", "udm-port2", "udm-port3">>

\* A hub port, a user network, or a bridge with its name.
PortValid(port) == port.type \in {"disabled", "user"} \/ (port.type = "bridge" /\ Has(port, "bridge"))

\* A port has its own address or the next after the instance's.
UdmPort(p, i) ==
    LET port == p.network.ports[i]
        mac == IF Has(port, "mac") THEN port.mac ELSE <<Address(p)[1], Address(p)[2] + i - 1>>
    IN  <<Defining("-netdev", port.type, UdmPorts[i], {}),
          Using("-net", "nic", {<<"netdev", UdmPorts[i]>>}) ++ [mac |-> mac]>>

UdmNetwork(p) ==
    IF Has(p, "network") /\ Has(p.network, "ports")
    THEN IF Len(p.network.ports) # 4 \/ \E i \in 1 .. 4 : ~PortValid(p.network.ports[i]) THEN Refused
         ELSE <<Arg("-net", "none")>> \o UdmPort(p, 1) \o UdmPort(p, 2) \o UdmPort(p, 3) \o UdmPort(p, 4)
    ELSE LET type == NetworkType(p, "disabled")
         IN  CASE type = "disabled" -> <<Arg("-net", "none")>>
               [] type = "user" \/ (type = "bridge" /\ Has(p.network, "bridge"))
                                    -> <<Arg("-net", "none"), Arg("-nic", type) ++ [mac |-> Address(p)]>>
               [] OTHER             -> Refused

AppendNetwork ==
    Extend("network", "firmware", IF profile.machine = "udm-pro" THEN UdmNetwork(profile) ELSE Network(profile))

AppendFirmware ==
    Extend("firmware", "boot",
           IF Has(profile, "firmware")
           THEN <<Arg("-drive", "pflash-code"), Arg("-drive", "pflash-vars")>> ELSE <<>>)

\* SourceResolver::path of a component of the image.
Available(p, component) == Has(p.components, component)

Drives == {"disk", "cdrom", "network", "floppy"}

BootPart(boot, part) == IF Has(boot, part) THEN <<Arg("-boot-part", boot[part])>> ELSE <<>>

DirectBoot(p) ==
    LET boot == Field(p, "boot", <<>>)
    IN  IF \/ p.machine = "udm-pro" /\ ~(Has(boot, "kernel") /\ Has(boot, "initrd"))
           \/ Has(boot, "from") /\ boot.from \notin Drives
           \/ \E part \in {"kernel", "initrd", "dtb"} : Has(boot, part) /\ ~Available(p, boot[part])
        THEN Refused
        ELSE (IF Has(boot, "from") THEN <<Arg("-boot", boot.from)>> ELSE <<>>)
             \o BootPart(boot, "kernel") \o BootPart(boot, "initrd") \o BootPart(boot, "dtb")

AppendDirectBoot == Extend("boot", "storage", DirectBoot(profile))

Storage(p) ==
    LET disk == p.storage.disk
        bus == Field(disk, "bus", "sata")
        legacy == p.machine = "pc"
        overlay == Defining("-drive", "overlay", "pc-disk", {})
        OnBus(kind, uses) == Using("-device", kind, {<<"drive", "pc-disk">>} \union uses)
    IN  IF ~Has(p, "storage") THEN <<>>
        ELSE IF DOMAIN p.storage # {"disk"} \/ ~Available(p, disk.component) THEN Refused
        ELSE CASE bus = "virtio"         -> <<overlay, OnBus("virtio-blk-pci", {})>>
               [] bus = "ide" /\ legacy  -> <<overlay, OnBus("ide-hd", {<<"bus", "ide">>})>>
               [] bus = "sata" /\ ~legacy ->
                    <<Defining("-device", "ich9-ahci", "pc-sata", {}), overlay,
                      OnBus("ide-hd", {<<"bus", "pc-sata">>})>>
               [] OTHER                  -> Refused

UdmStorage(p) ==
    IF Has(p, "storage") /\ {"boot", "spi"} \subseteq DOMAIN p.storage
    THEN IF \A role \in {"boot", "spi"} : Available(p, p.storage[role].component)
         THEN <<Defining("-drive", "snapshot", "udm-boot", {}), Defining("-drive", "snapshot", "udm-config", {})>>
         ELSE Refused
    ELSE Refused

AppendStorage ==
    Extend("storage", "tpm", IF profile.machine = "udm-pro" THEN UdmStorage(profile) ELSE Storage(profile))

AppendTpm ==
    Extend("tpm", "devices",
           IF Has(profile, "tpm")
           THEN <<Defining("-chardev", "socket", "chrtpm", {}),
                  Defining("-tpmdev", "emulator", "tpm0", {<<"chardev", "chrtpm">>}),
                  Using("-device", "tpm-tis", {<<"tpmdev", "tpm0">>})>>
           ELSE <<>>)

-----------------------------------------------------------------------------
(* append_devices, one list per device                                     *)

Agent(p) ==
    IF "guest_agent" \in p.with
    THEN <<Defining("-chardev", "socket", "qga0", {}),
           Defining("-device", "virtio-serial-pci", "virtio-serial0", {}),
           Using("-device", "virtserialport", {<<"chardev", "qga0">>, <<"bus", "virtio-serial0">>})>>
    ELSE <<>>

Serial(p) ==
    CASE p.serial = "socket" -> <<Defining("-chardev", "socket", "uart0", {}),
                                  Using("-serial", "chardev", {<<"chardev", "uart0">>})>>
      [] p.serial = "file"   -> <<Arg("-serial", "file")>>
      [] p.serial = "stdout" -> <<Arg("-serial", "stdio")>>
      [] OTHER               -> <<>>

Adapter(kind) == <<Arg("-vga", "none"), Defining("-device", kind, "me-video", {})>>

Pointer(p, device) ==
    IF device \in p.with THEN <<Using("-device", device, {<<"bus", "usb">>})>> ELSE <<>>

\* As if only the tablet brought the controller along.
PointersTablet(p) ==
    (IF "usb_tablet" \in p.with THEN <<Defining("-device", "qemu-xhci", "usb", {})>> ELSE <<>>)
    \o Pointer(p, "usb_tablet") \o Pointer(p, "usb_mouse")

Pointers(p) ==
    IF {"usb_tablet", "usb_mouse"} \intersect p.with = {} THEN <<>>
    ELSE <<Defining("-device", "qemu-xhci", "usb", {})>>
         \o Pointer(p, "usb_tablet") \o Pointer(p, "usb_mouse")

Screen(p) ==
    CASE p.console = "h264" /\ p.video \in GlVideo -> Adapter(p.video) \o <<Arg("-display", "dbus-gl")>>
      [] p.console = "vnc"                         -> <<Arg("-display", "vnc")>>
      [] p.console \notin {"h264", "vnc"}          -> <<Arg("-display", "none")>>

AppendDevices ==
    Extend("devices", "audio",
           IF profile.console = "h264" /\ profile.video \notin GlVideo THEN Refused
           ELSE Agent(profile) \o Serial(profile)
                \o (IF profile.video = "virtio-vga" THEN Adapter("virtio-vga") ELSE <<>>)
                \o Pointers(profile) \o Screen(profile)
                \o (IF "vsock" \in profile.with
                    THEN <<Defining("-device", "vhost-vsock-pci", "machineemu-vsock", {})>> ELSE <<>>))

DisplayAt(args) == Where(args, LAMBDA a : a.opt = "-display")

\* append_audio rewrites the display the devices chose: D-Bus sound needs a
\* D-Bus display, and VNC then moves to a socket of its own.
WithSound(args, at) ==
    LET sound == {<<"audiodev", "pc-audio">>}
    IN  IF args[at].kind = "dbus-gl"
        THEN [args EXCEPT ![at].uses = sound]
        ELSE [args EXCEPT ![at].kind = "dbus", ![at].uses = sound]
             \o (IF profile.console = "vnc" THEN <<Arg("-vnc", "unix")>> ELSE <<>>)

SoundCard(backend) ==
    <<Defining("-audiodev", backend, "pc-audio", {}),
      Defining("-device", "ich9-intel-hda", "pc-sound", {}),
      Using("-device", "hda-duplex", {<<"audiodev", "pc-audio">>, <<"bus", "pc-sound">>})>>

Sounding(args) ==
    LET at == DisplayAt(args)
    IN  CASE profile.audio = "none"            -> args
          [] profile.audio = "dbus" /\ at # 0 -> WithSound(args, at) \o SoundCard("dbus")
          [] profile.audio = "spice"           -> args \o <<Arg("-spice", "unix")>> \o SoundCard("spice")
          [] OTHER                             -> Refused

AppendAudio ==
    /\ stage = "audio"
    /\ IF Sounding(argv) = Refused
       THEN stage' = "refused" /\ UNCHANGED argv
       ELSE stage' = "video" /\ argv' = Sounding(argv)
    /\ UNCHANGED <<request, image, builds, document, profile, prepared>>

\* As if the standard adapter were added whether or not one was forged.
AnalysisVideoBoth(p) ==
    (IF Has(p, "analysis") /\ p.video \in {"", "vga"}
     THEN <<Arg("-vga", "none"), Defining("-device", "VGA", "pc-video", {})>> ELSE <<>>)
    \o (IF p.video = "vga" THEN <<Arg("-vga", "std")>> ELSE <<>>)

\* append_analysis_video forges the emulated VGA of an analysis profile;
\* without one a profile that names "vga" gets the standard adapter.
AnalysisVideo(p) ==
    CASE Has(p, "analysis") /\ p.video \in {"", "vga"} ->
           <<Arg("-vga", "none"), Defining("-device", "VGA", "pc-video", {})>>
      [] ~Has(p, "analysis") /\ p.video = "vga" -> <<Arg("-vga", "std")>>
      [] OTHER -> <<>>

AppendVideo == Extend("video", "board", AnalysisVideo(profile))

Lcd(p) ==
    IF "lcd" \in p.with
    THEN <<Defining("-device", "qemu-xhci", "udm-usb", {<<"bus", "pcie-external">>}),
           Defining("-chardev", "socket", "lcm-events", {}), Defining("-chardev", "socket", "lcm-input", {}),
           Using("-device", "unifi-lcm",
                 {<<"bus", "udm-usb">>, <<"chardev", "lcm-events">>, <<"chardev", "lcm-input">>})>>
    ELSE <<>>

\* The Bluetooth UART is the second serial port: the console must hold ttyS0.
Bluetooth(p) ==
    IF "bluetooth" \in p.with
    THEN <<Defining("-chardev", "socket", "btuart", {}), Using("-serial", "chardev", {<<"chardev", "btuart">>})>>
    ELSE <<>>

UdmDevices(p) ==
    IF "bluetooth" \in p.with /\ p.serial \notin {"file", "socket"} THEN Refused
    ELSE Lcd(p) \o Bluetooth(p)

AppendBoard ==
    Extend("board", "finish",
           CASE profile.machine = "udm-pro" -> UdmDevices(profile)
             [] profile.machine = "us24pro" ->
                  <<Defining("-chardev", "socket", "frontpanel-events", {}),
                    Using("-global", "frontpanel", {<<"chardev", "frontpanel-events">>})>>
             [] OTHER -> <<>>)

-----------------------------------------------------------------------------
(* LaunchSpec::from_plan keeps the preparation of the overlay, and with it *)
(* the seeds; start then creates the files.                                *)

Overlaid(p) == p.machine # "udm-pro" /\ Has(p, "storage")

\* As if the overlay were backed by what the image holds now.
PreparationOfImage(p) ==
    IF ~Overlaid(p) THEN <<>>
    ELSE [overlay |-> image.components[p.storage.disk.component].artifact]
         ++ (IF Has(p, "firmware") THEN [nvram |-> p.firmware] ELSE <<>>)

Preparation(p) ==
    IF ~Overlaid(p) THEN <<>>
    ELSE [overlay |-> p.components[p.storage.disk.component].artifact]
         ++ (IF Has(p, "firmware") THEN [nvram |-> p.firmware] ELSE <<>>)

PreparePlanned ==
    /\ stage = "finish"
    /\ prepared' = Preparation(profile)
    /\ stage' = "port"
    /\ UNCHANGED <<request, image, builds, document, profile, argv>>

\* refresh_vnc_port: a VNC console asks for an automatic port, which needs the
\* local VNC display among the options.
RefreshPort ==
    LET at == Where(argv, LAMBDA a : a.opt = "-display" /\ a.kind = "vnc")
        free == Where(Ports, LAMBDA port : port \notin request.busy)
    IN  /\ stage = "port"
        /\ IF profile.console # "vnc" THEN stage' = "started" /\ UNCHANGED argv
           ELSE IF at = 0 \/ free = 0 THEN stage' = "refused" /\ UNCHANGED argv
           ELSE /\ stage' = "started"
                /\ argv' = [argv EXCEPT ![at] = @ ++ [port |-> Ports[free]]]
        /\ UNCHANGED <<request, image, builds, document, profile, prepared>>

PlanNext ==
    \/ CreateInstance \/ ReregisterEngine \/ ReplaceImage \/ RenderPlan
    \/ AppendNetwork \/ AppendFirmware \/ AppendDirectBoot \/ AppendStorage
    \/ AppendTpm \/ AppendDevices \/ AppendAudio \/ AppendVideo \/ AppendBoard
    \/ PreparePlanned \/ RefreshPort

PlanSpec == PlanInit /\ [][PlanNext]_planVars

-----------------------------------------------------------------------------
(* Properties of a started VM                                              *)

VmStarted == stage = "started"

\* The <<class, id>> an argument defines. Device ids name the buses of the
\* device; "ide" and "pcie-external" are on the board.
ClassOf(opt) ==
    CASE opt = "-device" -> "bus" [] opt = "-drive" -> "drive" [] opt = "-chardev" -> "chardev"
      [] opt = "-netdev" -> "netdev" [] opt = "-audiodev" -> "audiodev" [] OTHER -> "tpmdev"

OnBoard(machine) ==
    CASE machine = "pc" -> {<<"bus", "ide">>} [] machine = "udm-pro" -> {<<"bus", "pcie-external">>}
      [] OTHER -> {}

Defines(arg) == IF arg.id = "" THEN {} ELSE {<<ClassOf(arg.opt), arg.id>>}

\* Whatever parts a profile combines, every backend and bus an option names is
\* defined once, and a bus before the device that sits on it: the parts are
\* appended by functions that know nothing of each other.
Wired ==
    VmStarted =>
      \A i \in DOMAIN argv :
        /\ \A j \in DOMAIN argv : i # j => Defines(argv[i]) \intersect Defines(argv[j]) = {}
        /\ \A named \in argv[i].uses \ OnBoard(document.machine) :
             \E j \in DOMAIN argv : named \in Defines(argv[j]) /\ (named[1] = "bus" => j < i)

CountOf(Test(_)) == Cardinality({i \in DOMAIN argv : Test(argv[i])})

\* A VM that started has one display and at most one display adapter, the one
\* its console needs: VNC on a port nobody else listens on, or GL video for
\* H.264; D-Bus sound leaves by that same display.
ScreenServed ==
    VmStarted =>
      /\ CountOf(LAMBDA a : a.opt = "-display") = 1
      /\ CountOf(LAMBDA a : a.opt = "-vga") <= 1
      /\ CountOf(LAMBDA a : a.id \in {"me-video", "pc-video"}) =
           CountOf(LAMBDA a : a.opt = "-vga" /\ a.kind = "none")
      /\ profile.console = "vnc" =>
           CountOf(LAMBDA a : Has(a, "port") /\ a.port \notin request.busy) = 1
      /\ profile.console = "h264" =>
           /\ CountOf(LAMBDA a : a.opt = "-display" /\ a.kind = "dbus-gl") = 1
           /\ CountOf(LAMBDA a : a.id = "me-video" /\ a.kind \in GlVideo) = 1
      /\ profile.audio = "dbus" =>
           CountOf(LAMBDA a : a.opt = "-display" /\ <<"audiodev", "pc-audio">> \in a.uses) = 1

MacsOf(args) == {i \in DOMAIN args : Has(args[i], "mac")}

\* What the document pins for a port of the appliance.
Pinned(mac) ==
    /\ Has(document, "network") /\ Has(document.network, "ports")
    /\ \E i \in 1 .. 4 : LET port == document.network.ports[i] IN Has(port, "mac") /\ port.mac = mac

\* The guest keeps the address of its document: the address pinned for the
\* first interface, or the one generated for it, is the address of the card,
\* and no two cards share one, unless the document pins it: nothing compares
\* those. (A profile with a network of its own takes the generated address,
\* whatever its first interface says.)
AddressKept ==
    VmStarted =>
      LET cards == MacsOf(argv)
          first == Items(document.devices, "interfaces")[1]
      IN  /\ \A i, j \in cards : argv[i].mac = argv[j].mac => i = j \/ Pinned(argv[i].mac)
          /\ cards # {} /\ Items(document.devices, "interfaces") # <<>>
               /\ (Has(document, "network") => first.mac = <<"instance", 0>>)
               /\ ~(Has(document, "network") /\ Has(document.network, "ports")) =>
             \A i \in cards : argv[i].mac = first.mac

\* The run uses the engine build and the root disk of the time of creation:
\* neither a later registration of the track nor of the image reaches it, and
\* the overlay and the NVRAM it was given are the ones start prepares.
RunsAsPinned ==
    VmStarted =>
      /\ profile.engine.build = EngineFor(request.profile, request.image, request.engines).build
      /\ (\E i \in DOMAIN argv : argv[i].opt = "-drive" /\ argv[i].kind = "overlay") =>
           /\ Has(prepared, "overlay")
           /\ prepared.overlay # "replaced"
           /\ ~Has(document, "storage") =>
                prepared.overlay =
                  request.image.components[RootDisk(document.devices.disks).component].artifact
           /\ Has(document, "firmware") => Has(prepared, "nvram")

\* Claim of docs/operations/api-v2-streams-devices.md:74: with VNC and without
\* H.264 the planner starts a D-Bus display for sound and keeps raw VNC on its
\* separate socket. So a plan that was made is not refused at start for its
\* display.
PlannedVncStarts ==
    [][stage = "port" /\ ToSet(Ports) \ request.busy # {} => stage' # "refused"]_planVars
=============================================================================
