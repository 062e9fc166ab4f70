------------------------------ MODULE GuestBoot ------------------------------
(****************************************************************************)
(* The guest agent from its start as PID 1 to the moment it listens, over   *)
(* several boots of one disk: the network of the boot configuration, the    *)
(* MITM CA in the trust files, the virtio-fs volumes, then the vsock        *)
(* listener.  A step that must succeed and does not ends the agent, and the *)
(* VM with it; the power can go at any point, in the middle of a write too. *)
(*                                                                          *)
(* A file is the sequence of certificates in it.  The CA of a boot is new,  *)
(* or the one the runtime still holds from the last start, or none.         *)
(****************************************************************************)
EXTENDS Naturals, Sequences

CONSTANTS MaxBoots, MaxVolumes

VARIABLES
    gconf,   \* the boot configuration: network, CA (0 is none), volumes
    gpc,     \* the step the agent is at
    trust,   \* the trust files on the disk
    syscopy, \* system_copy: the bundle as it was read, or NoFile
    nic,     \* what the network was set up as
    mounted, \* how many volumes are mounted
    boots    \* how many boots there were

gvars == <<gconf, gpc, trust, syscopy, nic, mounted, boots>>

(* A CA is the number of the boot it was minted for; the other entries of a *)
(* file lie beyond those.                                                   *)
System == MaxBoots + 1    \* the certificates the image came with
Torn == <<MaxBoots + 2>>  \* what a write that did not finish leaves
NoFile == <<MaxBoots + 3>>

NoConfig == [network |-> "none", ca |-> 0, volumes |-> 0]
Files == {"debian", "openssl", "anchor", "bundle", "combined"}

Init ==
    /\ gconf = NoConfig
    /\ gpc = "blank"
    /\ trust = [f \in Files |-> NoFile]
    /\ syscopy = NoFile
    /\ nic = "none"
    /\ mounted = 0
    /\ boots = 0

(* The disk comes from an image with or without a certificate bundle.       *)
Unpack ==
    /\ gpc = "blank"
    /\ gpc' = "off"
    /\ \E b \in {NoFile, <<System>>} : trust' = [trust EXCEPT !["bundle"] = b]
    /\ UNCHANGED <<gconf, syscopy, nic, mounted, boots>>

(* inject_guest_boot_env: secrets, hence a CA, only with a network; a held  *)
(* CA is used again.  The boots of a disk are restarts of its VM, or those  *)
(* of a clone or a restored snapshot, which have a configuration of their   *)
(* own.                                                                     *)
Boot(net, ca, vols) ==
    /\ gpc = "off"
    /\ boots < MaxBoots
    /\ ca \in {0, boots + 1, gconf.ca}
    /\ ca # 0 => net = "enabled"
    /\ gconf' = [network |-> net, ca |-> ca, volumes |-> vols]
    /\ gpc' = "tmpfs"
    /\ boots' = boots + 1
    /\ UNCHANGED <<trust, syscopy, nic, mounted>>

(* What is in memory goes with the VM; the disk stays.                      *)
Off ==
    /\ gpc' = "off"
    /\ syscopy' = NoFile
    /\ nic' = "none"
    /\ mounted' = 0
    /\ UNCHANGED <<gconf, boots>>

Fatal == Off /\ UNCHANGED trust

Went(from, to) == gpc = from /\ gpc' = to

(* A directory that cannot be made a tmpfs stays as it is.                  *)
MountEssentialTmpfs ==
    /\ Went("tmpfs", "config")
    /\ UNCHANGED <<gconf, trust, syscopy, nic, mounted, boots>>

(* from_env: a variable that is missing or does not parse ends the agent.   *)
FromEnv ==
    \/ /\ Went("config", "network")
       /\ UNCHANGED <<gconf, trust, syscopy, nic, mounted, boots>>
    \/ /\ gpc = "config"
       /\ Fatal

(* A disabled network cannot fail.                                          *)
ConfigureNetwork ==
    /\ Went("network", IF gconf.ca = 0 THEN "volumes" ELSE "debian")
    /\ nic' = IF gconf.network = "enabled" THEN "eth0" ELSE "lo"
    /\ UNCHANGED <<gconf, trust, syscopy, mounted, boots>>

NetworkFails ==
    /\ gpc = "network"
    /\ gconf.network = "enabled"
    /\ Fatal

(* fs::write of the CA: the file is truncated first.                        *)
WriteCa(f, to) ==
    /\ Went(f, to)
    /\ trust' = [trust EXCEPT ![f] = <<gconf.ca>>]
    /\ UNCHANGED <<gconf, syscopy, nic, mounted, boots>>

WriteFails(f) ==
    /\ gpc = f
    /\ Off
    /\ \E left \in {trust[f], <<>>, Torn} : trust' = [trust EXCEPT ![f] = left]

BestEffort(f, to) ==
    \/ WriteCa(f, to)
    \/ /\ Went(f, to)
       /\ \E left \in {trust[f], <<>>, Torn} : trust' = [trust EXCEPT ![f] = left]
       /\ UNCHANGED <<gconf, syscopy, nic, mounted, boots>>

Mandatory(f, to) == WriteCa(f, to) \/ WriteFails(f)

WriteDebian == Mandatory("debian", "openssl")
WriteOpenssl == Mandatory("openssl", "anchor")
WriteAnchor == BestEffort("anchor", "read")

(* The system bundle is read before it is appended to.                      *)
ReadBundle ==
    \/ /\ Went("read", IF trust["bundle"] = NoFile THEN "combined" ELSE "bundle")
       /\ syscopy' = trust["bundle"]
       /\ UNCHANGED <<gconf, trust, nic, mounted, boots>>
    \/ /\ gpc = "read"
       /\ trust["bundle"] # NoFile
       /\ Fatal

Appended(some) == [trust EXCEPT !["bundle"] = @ \o some]

AppendBundle ==
    \/ /\ Went("bundle", "combined")
       /\ trust' = Appended(<<gconf.ca>>)
       /\ UNCHANGED <<gconf, syscopy, nic, mounted, boots>>
    \/ /\ gpc = "bundle"
       /\ Off
       /\ \E some \in {<<>>, Torn} : trust' = Appended(some)

(* Mutation: the bundle is read again after the CA was appended to it.      *)
BodyOfBundle == (IF syscopy = NoFile THEN <<>> ELSE trust["bundle"]) \o <<gconf.ca>>
(* SSL_CERT_FILE: what the system had, and the CA.                          *)
Body == (IF syscopy = NoFile THEN <<>> ELSE syscopy) \o <<gconf.ca>>

WriteCombined ==
    \/ /\ Went("combined", "volumes")
       /\ trust' = [trust EXCEPT !["combined"] = Body]
       /\ UNCHANGED <<gconf, syscopy, nic, mounted, boots>>
    \/ WriteFails("combined")

MountVolume ==
    /\ gpc = "volumes"
    /\ mounted < gconf.volumes
    /\ \/ /\ mounted' = mounted + 1
          /\ UNCHANGED <<gconf, gpc, trust, syscopy, nic, boots>>
       \/ Fatal

(* The reaper starts and the listener is bound, or neither is of use.       *)
Listen ==
    /\ mounted = gconf.volumes
    /\ \/ /\ Went("volumes", "listening")
          /\ UNCHANGED <<gconf, trust, syscopy, nic, mounted, boots>>
       \/ /\ gpc = "volumes"
          /\ Fatal

(* graceful_shutdown syncs and exits.                                       *)
Shutdown ==
    /\ gpc = "listening"
    /\ Fatal

(* A power cut, a killed shim: a write under way may be left torn.          *)
PowerCut ==
    /\ gpc \notin {"blank", "off"}
    /\ \/ Fatal
       \/ gpc \in Files \ {"bundle"} /\ WriteFails(gpc)
       \/ /\ gpc = "bundle"
          /\ Off
          /\ trust' = Appended(Torn)

Agent ==
    \/ MountEssentialTmpfs \/ FromEnv
    \/ ConfigureNetwork \/ NetworkFails
    \/ WriteDebian \/ WriteOpenssl \/ WriteAnchor
    \/ ReadBundle \/ AppendBundle \/ WriteCombined
    \/ MountVolume \/ Listen \/ Shutdown

Next ==
    \/ Unpack
    \/ \E net \in {"enabled", "disabled"}, ca \in 0..MaxBoots, vols \in 0..MaxVolumes :
           Boot(net, ca, vols)
    \/ Agent
    \/ PowerCut

Spec == Init /\ [][Next]_gvars

-----------------------------------------------------------------------------
(* An agent that answers is set up as its boot configuration says, whatever *)
(* earlier boots left on the disk: the network, every volume, and, with     *)
(* secrets, this boot's CA and no other in its own files; the bundle named  *)
(* by SSL_CERT_FILE has the CA added once to what the system trusts, as the *)
(* system's own bundle has.                                                 *)
BootedAsConfigured ==
    gpc = "listening" =>
        /\ nic = IF gconf.network = "enabled" THEN "eth0" ELSE "lo"
        /\ mounted = gconf.volumes
        /\ gconf.ca # 0 =>
            /\ trust["debian"] = <<gconf.ca>>
            /\ trust["openssl"] = <<gconf.ca>>
            /\ trust["combined"] = IF trust["bundle"] = NoFile THEN <<gconf.ca>>
                                                               ELSE trust["bundle"]

=============================================================================
