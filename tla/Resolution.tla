----------------------------- MODULE Resolution -----------------------------
(***************************************************************************)
(* The resolver of crates/machineemu-core/src/resolution/mod.rs: a profile,*)
(* a hardware identity, an image and the overrides of a create request     *)
(* become the one document an instance is started from. Pure operators.    *)
(*                                                                         *)
(* A document is a record that has a field when the JSON has the key; the  *)
(* device collections are sequences of records with an "id". The compact   *)
(* form of a device (devices.console, an object under devices.video, ...)  *)
(* is a field of "compact"; the boolean devices are the set "with".        *)
(* Architecture strings, state paths and digests are left out: they decide *)
(* nothing but a refusal of their own.                                     *)
(***************************************************************************)
EXTENDS Naturals, SequencesExt

CONSTANTS
    Unset,         \* the null of an unpinned build
    Refused         \* the error of resolve_instance and build_plan

Has(record, key) == key \in DOMAIN record

Field(record, key, default) == IF Has(record, key) THEN record[key] ELSE default

\* The members of high, and those of low that high has not.
high ++ low == [k \in DOMAIN high \union DOMAIN low |-> IF Has(high, k) THEN high[k] ELSE low[k]]

Where(items, Test(_)) == SelectInSeq(items, Test)

-----------------------------------------------------------------------------
(* Merging two layers of a document.                                       *)

Collections == {"disks", "interfaces", "graphics", "video", "serial"}

\* What merge_devices refuses: an id given twice, the removal of a stranger.
Mergeable(old, high) ==
    /\ IsInjective([i \in DOMAIN high |-> high[i].id])
    /\ \A i \in DOMAIN high :
         Has(high[i], "remove") => \E k \in DOMAIN old : old[k].id = high[i].id

MergeDevice(out, item) ==
    LET at == Where(out, LAMBDA old : old.id = item.id)
    IN  IF Has(item, "remove") THEN RemoveAt(out, at)
        ELSE IF at = 0 THEN Append(out, item)
        ELSE [out EXCEPT ![at] = item ++ out[at]]

MergeDevices(old, high) == FoldLeft(MergeDevice, old, high)

DevicesMergeable(base, high) ==
    \A k \in Collections \cap DOMAIN high : Mergeable(Field(base, k, <<>>), high[k])

MergeDeviceMap(base, high) ==
    [k \in DOMAIN base \union DOMAIN high |->
        CASE ~Has(high, k)    -> base[k]
          [] k \in Collections -> MergeDevices(Field(base, k, <<>>), high[k])
          [] ~Has(base, k)    -> high[k]
          [] k = "with"       -> base[k] \union high[k]
          [] k = "compact"    -> high[k] ++ base[k]
          [] OTHER            -> high[k]]

\* The members whose value is an object on both sides are merged key by key.
MergedByKey(k, base, high) ==
    k \in {"network", "vcpus"} /\ ~Has(base[k], "number") /\ ~Has(high[k], "number")

Merge(base, high) ==
    [k \in DOMAIN base \union DOMAIN high |->
        CASE ~Has(high, k)              -> base[k]
          [] ~Has(base, k)              -> high[k]
          [] k = "devices"              -> MergeDeviceMap(base[k], high[k])
          [] MergedByKey(k, base, high) -> high[k] ++ base[k]
          [] OTHER                      -> high[k]]

CompactForms ==
    {<<"console", "graphics", "graphics0">>, <<"video", "video", "video0">>,
     <<"serial", "serial", "serial0">>, <<"nic", "interfaces", "net0">>}

\* normalize_compact_devices: a compact device becomes the one member of the
\* collection it stands for, unless the collection is there.
Normalized(devices) ==
    LET compact == Field(devices, "compact", <<>>)
        moved == {form \in CompactForms : Has(compact, form[1]) /\ ~Has(devices, form[2])}
    IN  [k \in DOMAIN devices \union {form[2] : form \in moved} |->
            CASE k = "compact"   -> [c \in DOMAIN compact \ {form[1] : form \in moved} |-> compact[c]]
              [] Has(devices, k) -> devices[k]
              [] OTHER           -> LET form == CHOOSE f \in moved : f[2] = k
                                    IN  <<[id |-> form[3]] ++ compact[form[1]]>>]

-----------------------------------------------------------------------------
(* choose_engine: the first registered build of the track the profile      *)
(* lists first, among those the image accepts; it must be pinned.          *)

Suits(build, profile, image) ==
    /\ Has(profile, "engine") => Head(profile.engine) = build.track
    /\ Has(image, "engines") => build.track \in image.engines

EngineFor(profile, image, engines) ==
    LET at == Where(engines, LAMBDA build : Suits(build, profile, image))
    IN  IF at = 0 THEN Refused
        ELSE IF engines[at].build = Unset THEN Refused ELSE engines[at]

-----------------------------------------------------------------------------
(* expand_defaults, on the merged document.                                *)

Family(bus) == CASE bus = "virtio" -> "vd" [] bus \in {"sata", "scsi"} -> "sd" [] OTHER -> Unset

Bus(disk) == Field(disk, "bus", "virtio")

\* A target is named by counting the disks of the same kind that had none.
DefaultDisk(disks, i, components) ==
    LET disk == disks[i] ++ [component |-> "root_disk"]
        unnamed == {j \in 1 .. (i - 1) :
                      ~Has(disks[j], "dev") /\ Family(Bus(disks[j])) = Family(Bus(disk))}
        known == IF Has(components, disk.component)
                 THEN [format |-> components[disk.component].format] ELSE <<>>
    IN  disk ++ known ++ [bus |-> Bus(disk), dev |-> <<Family(Bus(disk)), Cardinality(unnamed)>>]

DefaultVcpus(vcpus) ==
    IF Has(vcpus, "number")
    THEN [count |-> vcpus.number, sockets |-> 1, cores |-> vcpus.number, threads |-> 1]
    ELSE vcpus

DefaultDevices(devices, machine, image) ==
    LET root == IF Has(image.components, "root_disk")
                THEN [disks |-> <<[id |-> "root", role |-> "root"]>>] ELSE <<>>
        screen == IF machine \in {"q35", "pc-q35"}
                  THEN [video |-> <<[id |-> "video0", model |-> "virtio-vga"]>>] ELSE <<>>
    IN  devices ++ root ++ [interfaces |-> <<[id |-> "net0", network |-> "default"]>>] ++ screen

\* default_disks, default_interfaces and default_video complete each item.
Completed(devices, components) ==
    [k \in DOMAIN devices |->
        CASE k = "disks"      -> [i \in DOMAIN devices[k] |-> DefaultDisk(devices[k], i, components)]
          [] k = "interfaces" -> [i \in DOMAIN devices[k] |-> devices[k][i] ++ [model |-> "virtio-net-pci"]]
          [] k = "video"      -> [i \in DOMAIN devices[k] |-> devices[k][i] ++ [model |-> "virtio-vga"]]
          [] OTHER            -> devices[k]]

Expanded(spec, image) ==
    LET machine == Field(spec, "machine", "q35")
        devices == DefaultDevices(Field(spec, "devices", <<>>), machine, image)
    IN  [machine |-> machine,
         vcpus   |-> DefaultVcpus(Field(spec, "vcpus", [number |-> 1])),
         devices |-> Completed(devices, image.components)] ++ spec

-----------------------------------------------------------------------------
(* What validate and validate_identity_source_compatibility refuse.        *)

Prefixed(a, b) == a = b \/ <<a, b>> = <<"pc", "pc-q35">>

MachineFits(machine, accepted) == \E m \in accepted : Prefixed(machine, m) \/ Prefixed(m, machine)

TopologyFits(vcpus) ==
    /\ vcpus.count > 0
    /\ vcpus.count = Field(vcpus, "sockets", 1) * Field(vcpus, "cores", 1) * Field(vcpus, "threads", 1)

AllDevices(devices) ==
    UNION {{<<k, i>> : i \in DOMAIN devices[k]} : k \in Collections \cap DOMAIN devices}

DevicesValid(devices) ==
    /\ DOMAIN Field(devices, "compact", <<>>) \intersect {"video", "serial"} = {}
    /\ \A d, e \in AllDevices(devices) :
         devices[d[1]][d[2]].id = devices[e[1]][e[2]].id => d = e
    /\ LET disks == Field(devices, "disks", <<>>)
       IN  /\ IsInjective([i \in DOMAIN disks |-> disks[i].dev])
           /\ \A i \in DOMAIN disks : disks[i].dev[1] # Unset

\* validate_image_bindings
Bound(devices, components) ==
    LET disks == Field(devices, "disks", <<>>)
    IN  \A i \in DOMAIN disks : Has(components, disks[i].component)

IdentityFits(spec, identity, engine) ==
    /\ Has(identity, "machines") => MachineFits(spec.machine, identity.machines)
    /\ Has(identity, "tracks") => engine.track \in identity.tracks

Valid(spec, image) ==
    /\ Has(image, "machines") => MachineFits(spec.machine, image.machines)
    /\ TopologyFits(spec.vcpus)
    /\ DevicesValid(spec.devices)
    /\ Bound(spec.devices, image.components)

\* generate_identities: the addresses follow the name of the instance.
WithAddresses(devices) ==
    [devices EXCEPT !.interfaces =
        [i \in DOMAIN @ |-> @[i] ++ [mac |-> <<"instance", i - 1>>]]]

-----------------------------------------------------------------------------
(* resolve_instance: profile, identity, image, overrides, in this order.   *)

Owned(identity) == IF Has(identity, "analysis") THEN [analysis |-> identity.analysis] ELSE <<>>

Layered(request) ==
    LET profile == [devices |-> Normalized(Field(request.profile, "devices", <<>>))] ++ request.profile
        hardware == Owned(request.identity) ++ profile
    IN  Merge(hardware, request.overrides)

Resolve(request, image, engines) ==
    LET engine == EngineFor(request.profile, image, engines)
        base == Normalized(Field(request.profile, "devices", <<>>))
        spec == Expanded(Layered(request), image)
    IN  IF \/ ~DevicesMergeable(base, Field(request.overrides, "devices", <<>>))
           \/ engine = Refused
        THEN Refused
        ELSE IF ~Valid(spec, image) \/ ~IdentityFits(spec, request.identity, engine) THEN Refused
        ELSE [engine |-> engine, components |-> image.components,
              devices |-> WithAddresses(spec.devices)] ++ spec
=============================================================================
