-------------------------------- MODULE MCApp --------------------------------
EXTENDS Demos

\* The labels of AndroidManifest.xml.
MCLabels ==
  ({"App"} \X {"Fragment", "Density", "DataBinding", "List View Demo"})
  \cup ({"Library"} \X {"NativeProtoBufferDemo", "RetrofitDemo"})
  \cup ({"Os"} \X {"MaxFileDescriptor", "PipeDemo", "BinderDemo", "IO Multiplexing Demo"})
  \cup ({"SupportLibrary"} \X {"RecyclerView", "PercentLayout", "MaterialDesign"})
  \cup ({"Tool"} \X {"OpenRemoteDebug"})

ASSUME ManifestAssumption == LabelsLeadDown

MCData == <<"meizhi003", "meizhi014", "meizhi002">>
=============================================================================
