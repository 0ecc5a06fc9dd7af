------------------------------- MODULE MCPlan -------------------------------
(***************************************************************************)
(* Create requests for TLC: the parts that make a screen are varied        *)
(* together, so are those that make the machine around it.                 *)
(***************************************************************************)
EXTENDS LaunchPlan

Component(artifact, format) == [artifact |-> artifact, format |-> format]

PcImage == [components |-> [root_disk |-> Component("windows", "qcow2"), data |-> Component("data", "raw")]]
UdmImage ==
    [components |-> [kernel |-> Component("kernel", "raw"), initrd |-> Component("initrd", "raw"),
                     boot |-> Component("emmc", "raw"), spi |-> Component("spi", "raw")],
     machines |-> {"udm-pro"}]

RegistryEntries == <<[track |-> "system", build |-> "s1"], [track |-> "analysis", build |-> "a1"]>>

Request(wanted, overrides, identity, manifest, busy) ==
    [profile |-> wanted, overrides |-> overrides, identity |-> identity, image |-> manifest,
     engines |-> RegistryEntries, busy |-> busy]

\* At most one field of the name, with each of the values.
Maybe(field, values) == {<<>>} \union {field :> v : v \in values}

User == [network |-> [type |-> "user"]]

ScreenDevices ==
    {[with |-> pointers] @@ console @@ video @@ audio :
       pointers \in {{}, {"usb_mouse"}, {"usb_tablet", "usb_mouse", "vsock"}},
       console \in {<<>>} \union
         {[compact |-> [console |-> [type |-> t]]] : t \in {"vnc", "h264"}} \union
         {[graphics |-> <<[id |-> "screen", type |-> "vnc"]>>]},
       video \in Maybe("video", {<<[id |-> "card", model |-> m]>> : m \in {"vga", "virtio-vga-gl", "virtio-gpu-gl"}}),
       audio \in Maybe("audio", {"dbus", "spice"})}

Personas ==
    {<<<<>>, <<>>>>, <<[analysis |-> "persona"], <<>>>>,
     <<<<>>, [analysis |-> "persona", machines |-> {"q35"}, tracks |-> {"system"}]>>}

Screens ==
    {Request([machine |-> machine, devices |-> devices] @@ User @@ persona[1], overrides, persona[2], PcImage, busy) :
       machine \in {"q35", "pc"}, devices \in ScreenDevices, persona \in Personas,
       overrides \in {<<>>, [devices |-> [compact |-> [console |-> [type |-> "vnc"]]]],
                      [devices |-> [graphics |-> <<[id |-> "screen", type |-> "none"]>>]]},
       busy \in {{5900}, {5900, 5901}}}

Disks ==
    {<<>>,
     <<[id |-> "data", component |-> "data", bus |-> "sata"], [id |-> "c", role |-> "root", bus |-> "sata"]>>,
     <<[id |-> "c", bus |-> "ide", dev |-> <<"hd", 0>>]>>,
     <<[id |-> "c"], [id |-> "d", component |-> "data", dev |-> <<"vd", 0>>]>>}

Interfaces ==
    {<<[id |-> "net0", network |-> "user"]>>,
     <<[id |-> "lan", network |-> "user", mac |-> <<"pinned", 0>>], [id |-> "wan", network |-> "user"]>>,
     <<[id |-> "net0", network |-> "bridge"]>>}

IoDevices ==
    {[with |-> {"guest_agent"}] @@ disks @@ nics @@ compact :
       disks \in Maybe("disks", Disks), nics \in Maybe("interfaces", Interfaces),
       compact \in {[compact |-> [serial |-> [type |-> "socket"]]], [compact |-> [nic |-> [model |-> "e1000"]]],
                    [serial |-> <<[id |-> "tty", type |-> "file"]>>]}}

IoOverrides ==
    {<<>>, [devices |-> [interfaces |-> <<[id |-> "net0", remove |-> TRUE]>>]],
     [devices |-> [disks |-> <<[id |-> "c", component |-> "data"]>>], vcpus |-> [count |-> 4]],
     [network |-> [type |-> "disabled"], vcpus |-> [number |-> 2]]}

Bridged == [network |-> [type |-> "bridge", bridge |-> "br0"]]
Secured == [firmware |-> "vars", tpm |-> "tpm-tis", boot |-> [from |-> "disk"]]
Preferring == [engine |-> <<"analysis", "system">>]
Selective == [engines |-> {"analysis"}, machines |-> {"pc-q35"}]

Machines ==
    {Request([machine |-> machine, devices |-> devices, vcpus |-> [number |-> 4]] @@ settings @@ engine[1],
             overrides, <<>>, PcImage @@ engine[2], {}) :
       machine \in {"pc-q35", "pc", "us24pro"}, devices \in IoDevices,
       settings \in {<<>>, Bridged, Secured},
       engine \in {<<<<>>, <<>>>>, <<Preferring, <<>>>>, <<<<>>, Selective>>},
       overrides \in IoOverrides}

UdmNetworks ==
    {[type |-> "user"], [type |-> "bridge"],
     [ports |-> <<[type |-> "user"], [type |-> "bridge", bridge |-> "br0"], [type |-> "disabled"],
                  [type |-> "user", mac |-> <<"pinned", 0>>]>>]}

UdmStores == {<<>>, [boot |-> [component |-> "boot"], spi |-> [component |-> "spi"]]}

Appliances ==
    {Request([machine |-> "udm-pro", boot |-> boot, storage |-> storage,
              devices |-> [with |-> with] @@ serial @@ nics] @@ network,
             <<>>, <<>>, UdmImage, {}) :
       boot \in {[kernel |-> "kernel"], [kernel |-> "kernel", initrd |-> "initrd"]},
       storage \in UdmStores,
       with \in {{}, {"lcd"}, {"lcd", "bluetooth"}},
       serial \in {<<>>, [compact |-> [serial |-> [type |-> "socket"]]]},
       nics \in {<<>>, [interfaces |-> <<[id |-> "eth9", network |-> "user"]>>]},
       network \in Maybe("network", UdmNetworks)}

MCRequests == Screens \union Machines \union Appliances
MCPorts == <<5900, 5901>>
=============================================================================
