----------------------------- MODULE MCMatterNames -----------------------------
(* A cover and two contacts of windows; the contacts' ids end alike, and      *)
(* somebody may have named one as the plugin would.                           *)
EXTENDS MatterNames

MCPriority == <<10, 1, 1>>
MCSuffix   == <<"Tapp.", "Sens.", "Sens.">>
MCTag      == << <<"er_1", "cover_1">>, <<"_100", "zone_100">>, <<"_100", "sensor_100">> >>
MCPart     == STRING
MCLabel    == {<<"Finestra">>, <<"Finestra", "Sens.">>}
=============================================================================
