------------------------------ MODULE MCItemAccess ------------------------------
\* Temp is a prefix of TempMax; new objects of the same name have the same or
\* another type.
EXTENDS ItemAccess

CONSTANTS sensorName, temp, tempMax, tempMax2, blob, nameAsNumber

MCItems == {sensorName, temp, tempMax, tempMax2, blob, nameAsNumber}
MCNameOf == sensorName :> <<"Name">> @@ temp :> <<"Temp">> @@ tempMax :> <<"Temp", "Max">>
            @@ tempMax2 :> <<"Temp", "Max">> @@ blob :> <<"Blob">> @@ nameAsNumber :> <<"Name">>
MCTypeOf == sensorName :> "string" @@ temp :> "number" @@ tempMax :> "string"
            @@ tempMax2 :> "string" @@ blob :> "raw" @@ nameAsNumber :> "number"
MCFirstTables == {<<sensorName, tempMax, temp>>, <<temp, sensorName>>}
MCArrays == {<<blob, tempMax2>>, <<tempMax2, temp>>, <<nameAsNumber>>}
================================================================================
