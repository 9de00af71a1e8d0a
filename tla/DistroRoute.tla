------------------------------ MODULE DistroRoute ------------------------------
(***************************************************************************)
(* Which prebuilt C++ library a Linux distribution gets:                   *)
(* realGetLinuxDistroRoute of script/get_linux_distro_route.js.  A route   *)
(* such as UBUNTU/14.04 is a record; `halves` is twice its major number,   *)
(* because the code divides by two without rounding.                       *)
(***************************************************************************)
EXTENDS Integers

CONSTANT MaxMajor   \* bound: largest major release number considered

ASSUME RouteAssumption == MaxMajor \in Nat

(* One name stands for all of RHEL_MAP_ARRAY, one for the other known       *)
(* names of NORMAL_MAP_ARRAY and one for every name in neither.             *)
Dists == {"RHEL", "Fedora", "Ubuntu Linux", "Debian", "normal", "unknown"}

(* getos found no release, or one that does not start with a number: every  *)
(* comparison with it is false.                                             *)
NoMajor == -1

Majors == 0..MaxMajor \cup {NoMajor}

Route(family, halves) == [family |-> family, halves |-> halves]
Unsupported == Route("none", 0)   \* an assertion fails

Between(major, low, high) == major # NoMajor /\ low <= major /\ major <= high

RhelRoute(major) ==
  IF Between(major, 5, 7) THEN Route("RHEL", 2 * major) ELSE Unsupported

UbuntuRoute(major) ==
  IF major \in {14, 16, 18} THEN Route("UBUNTU", 2 * major) ELSE Unsupported

DebianRoute(major) ==
  IF Between(major, 8, 10) THEN Route("UBUNTU", major + 2) ELSE Unsupported

Fallback == Route("UBUNTU", 2 * 14)

FedoraRoute(major) ==
  IF Between(major, 0, 18) THEN Route("RHEL", 2 * 6)
  ELSE IF major = 19 THEN Route("RHEL", 2 * 7) ELSE Fallback

DistroRoute(dist, major) ==
  CASE dist = "RHEL"         -> RhelRoute(major)
    [] dist = "Fedora"       -> FedoraRoute(major)
    [] dist = "Ubuntu Linux" -> UbuntuRoute(major)
    [] dist = "Debian"       -> DebianRoute(major)
    [] OTHER                 -> Fallback
=============================================================================
