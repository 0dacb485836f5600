---------------------------- MODULE MCPluginWeb -----------------------------
(* Instances of the plugin web server for TLC.                              *)
EXTENDS PluginWeb, TLC

CONSTANTS s1, s2, langinfo, osinfo

TwoServers   == {s1, s2}
TwoPlugins   == <<langinfo, osinfo>>
Names        == (langinfo :> "/langinfo") @@ (osinfo :> "/osinfo")
Good         == {langinfo, osinfo}
Displayed    == {langinfo}
FewPages     == <<"/", "/restart">>
=============================================================================
