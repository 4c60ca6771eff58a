----------------------------- MODULE MCDeviceTable -----------------------------
EXTENDS DeviceTable

\* The second array replaces a default item, and one of its items finds no room.
Plain == <<"temp">>
Rich == <<"/Info/Name", "temp", "led">>

MCDefaults == <<"/Info/Name">>
MCSpecs == {Plain, Rich}
MCSlashNames == {"/Info/Name"}
MCLong == {Rich}
================================================================================
